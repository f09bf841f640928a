SPECIFICATION Spec
CONSTANTS
  r1 = r1 r2 = r2 r3 = r3 d1 = d1 d2 = d2
  e1 = e1 e2 = e2 e3 = e3 w1 = w1 w2 = w2 m1 = m1 m2 = m2 t1 = t1 t2 = t2 news = news
  Category = {news}
  Request = {r1, r2, r3}
  Drainer = {d1, d2}
  Form <- AllForms
  HasJournal = TRUE
  DoubleOptIn = TRUE
  PerPass = 1
  MaxFile = 3
  Event = {e1, e2, e3}
  Worker = {w1, w2}
  Mail = {m1, m2}
  Threshold = 2
  Tick = {t1, t2}
  MinSends = 1
  TripPct <- Limits
  DegradePct = 50
  Scenario <- BounceScenarios
  Nobody = Nobody
INVARIANT BouncedStaysBlocked
CHECK_DEADLOCK FALSE
