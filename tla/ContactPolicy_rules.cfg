SPECIFICATION Spec
CONSTANTS
  Day = 8
  Hour = 2
  Grace = 2
  TzGrace = 1
  SixHours = 12
  MaxPasses = 5
  None = None
  f1 = f1 o1 = o1 b1 = b1 p1 = p1
  Mail = {f1, o1, b1, p1}
  Origin <- OriginOf
  Case <- Settings
  Last = 41
INVARIANTS RulesKept ConcludesInTime ClocksHonoured
CHECK_DEADLOCK FALSE
