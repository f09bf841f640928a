SPECIFICATION Spec
CONSTANTS
  s1 = s1 s2 = s2 s3 = s3
  c1 = c1 c2 = c2 r1 = r1
  Caller = {c1, c2}
  Run = {r1}
  Body = {s1, s2, s3}
  Empty = Empty
  NoDraft = NoDraft
  Unset = Unset
  Seed = 0
  Start <- Starts
INVARIANTS PinnedSteps
PROPERTIES UngateRestores
SYMMETRY CallerSymmetry
CHECK_DEADLOCK FALSE
