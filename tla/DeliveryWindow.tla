--------------------------- MODULE DeliveryWindow ---------------------------
(***************************************************************************)
(* The arithmetic of wall clocks: when a flow mail may go out by the       *)
(* delivery window of its step, when a recipient gets a broadcast that     *)
(* respects time zones, when the program tick may send, and when a quiet   *)
(* period and a blackout end.  Pure operators; ContactPolicy has the mails *)
(* and the clock.                                                          *)
(*                                                                         *)
(* An instant is a number of slots, a slot the finest step that the        *)
(* configurations at hand tell apart, and a zone an offset that changes    *)
(* once, at an instant of UTC.  Day number 0 is a Wednesday.               *)
(***************************************************************************)
EXTENDS Integers, FiniteSets, FiniteSetsExt

CONSTANTS
  Day,         \* slots in a day
  Grace,       \* TIME_OF_DAY_GRACE_MS: a slot missed by this much is sent now
  TzGrace,     \* TZ_SLOT_GRACE_MS, for broadcasts
  SixHours,    \* how far startOfLocalDay looks for the first instant of a day
  MaxPasses,   \* MAX_PASSES of programSendTime
  None         \* no such setting

Clocks == (0 .. Day - 1) \cup {None}
Zone   == [offset : Int, at : Nat, by : Int]
Window == [slot : Clocks, session : Clocks, weekdays : BOOLEAN]

ASSUME DeliveryWindowAssumption ==
  /\ Day \in Nat \ {0} /\ Grace \in 0 .. Day - 1 /\ TzGrace \in 0 .. Day - 1
  /\ SixHours \in Nat /\ MaxPasses \in Nat \ {0} /\ None \notin Int

-----------------------------------------------------------------------------
(* Local time.                                                             *)

Off(z, t)      == IF t < z.at THEN z.offset ELSE z.offset + z.by
Local(z, t)    == t + Off(z, t)
LocalDay(z, t) == Local(z, t) \div Day
Clock(z, t)    == Local(z, t) % Day
Weekend(d)     == d % 7 \in {3, 4}

\* The instant of a wall-clock time, in two passes.
\* Mutation: in one.
UtcFromLocalOnce(z, d, c) == LET l == d * Day + c IN l - Off(z, l)
UtcFromLocal(z, d, c) == LET l == d * Day + c IN l - Off(z, l - Off(z, l))

-----------------------------------------------------------------------------
(* Delivery windows.                                                       *)

Within(t, s) == s <= t /\ t <= s + Grace

\* Today's slot, unless it is missed by more than the grace.
NextSlot(z, w, t) ==
  LET today == UtcFromLocal(z, LocalDay(z, t), w.slot) IN
  CASE t < today         -> today
    [] Within(t, today)  -> t
    [] t > today + Grace -> UtcFromLocal(z, LocalDay(z, t) + 1, w.slot)

\* From Saturday or Sunday to Monday, at the same time of the clock.
OffWeekend(z, t) ==
  LET d == LocalDay(z, t) IN
  IF Weekend(d) THEN UtcFromLocal(z, d + 5 - (d % 7), Clock(z, t)) ELSE t

\* Yesterday's slot is honoured after midnight, if yesterday was allowed.
FromYesterday(z, w, t) ==
  LET slot == UtcFromLocal(z, LocalDay(z, t) - 1, w.slot) IN
  Within(t, slot) /\ (w.weekdays => ~Weekend(LocalDay(z, slot)))

computeDeliveryTime(z, w, t) ==
  IF w.slot # None /\ FromYesterday(z, w, t) THEN t
  ELSE LET at == IF w.slot = None THEN t ELSE NextSlot(z, w, t) IN
       IF w.weekdays THEN OffWeekend(z, OffWeekend(z, OffWeekend(z, at))) ELSE at

\* A broadcast is due at the same time of the recipient's clock as scheduled
\* in UTC, the next one that is not more than the grace ago.
TzOffset(z, t) == (-Off(z, t)) % Day
recipientSlot(z, scheduled, t) ==
  LET first == scheduled + TzOffset(z, scheduled)
      days  == ((t - TzGrace - first) + Day - 1) \div Day
      later == scheduled + days * Day
      slot  == later + TzOffset(z, later)
  IN  IF first >= t - TzGrace THEN first
      ELSE IF slot < t - TzGrace THEN slot + Day ELSE slot

-----------------------------------------------------------------------------
(* Quiet hours and blackouts.                                              *)

InQuiet(z, q, t) ==
  LET c == Clock(z, t) IN
  IF q.start > q.end THEN c >= q.start \/ c < q.end ELSE q.start <= c /\ c < q.end

\* The end of the period that t is in, on the next day if it started before midnight.
quietPeriodEnd(z, q, t) ==
  UtcFromLocal(z, LocalDay(z, t) + (IF q.start > q.end /\ Clock(z, t) >= q.start THEN 1 ELSE 0), q.end)

\* The first instant of a day; midnight may be skipped by the clock.
startOfLocalDay(z, d) ==
  LET t == UtcFromLocal(z, d, 0)
      found == {u \in t .. t + SixHours - 1 : LocalDay(z, u) = d}
  IN  IF found = {} THEN t + SixHours ELSE Min(found)

\* dates: the days of all ranges, so that adjacent and overlapping ones are one.
OnBlackout(z, dates, t) == LocalDay(z, t) \in dates
blackoutEnd(z, dates, t) ==
  startOfLocalDay(z, Min({d \in LocalDay(z, t) .. Max(dates) + 1 : d \notin dates}))

-----------------------------------------------------------------------------
(* Programs: the window with the subject's usual hour, then the blackouts, *)
(* until neither moves the time.                                           *)

programDeliveryWindow(z, w, t) ==
  IF w.session = None THEN w
  ELSE [w EXCEPT !.slot = Clock(z, LocalDay(z, t) * Day + w.session)]

SendPass(z, w, dates, t) ==
  LET at == computeDeliveryTime(z, programDeliveryWindow(z, w, t), t) IN
  IF OnBlackout(z, dates, at) /\ blackoutEnd(z, dates, at) > at
  THEN [at |-> blackoutEnd(z, dates, at), again |-> TRUE]
  ELSE [at |-> at, again |-> FALSE]

programSendTime(z, w, dates, t) ==
  LET pass[n \in 0 .. MaxPasses] ==
        IF n = 0 THEN [at |-> t, again |-> TRUE]
        ELSE IF pass[n - 1].again THEN SendPass(z, w, dates, pass[n - 1].at)
        ELSE pass[n - 1]
  IN  pass[MaxPasses].at

-----------------------------------------------------------------------------
(* What a window is, told without the algorithm: t is on an allowed day,   *)
(* and after the slot of that day by no more than the grace.               *)

SlotOf(z, w, d) == UtcFromLocal(z, d, w.slot)
Open(z, w, t) ==
  IF w.slot = None THEN w.weekdays => ~Weekend(LocalDay(z, t))
  ELSE \E d \in {LocalDay(z, t) - 1, LocalDay(z, t)} :
         Within(t, SlotOf(z, w, d)) /\ (w.weekdays => ~Weekend(d))

\* The hour by which the arithmetic may be off, if the clock changes between two instants.
Slack(z, from, to) ==
  IF z.at \notin from .. to THEN 0 ELSE IF z.by < 0 THEN -z.by ELSE z.by
=============================================================================
