-------------------------- MODULE MCContactPolicy --------------------------
(* Small instances of ContactPolicy for TLC: a day of four hours.           *)
EXTENDS ContactPolicy, TLC

CONSTANTS f1, o1, b1, p1

OriginOf == f1 :> "flow" @@ o1 :> "oneoff" @@ b1 :> "broadcast" @@ p1 :> "program"

NewZone(offset, at, by) == [offset |-> offset, at |-> at, by |-> by]
Always      == NewZone(0, 0, 0)
SpringsOn(t) == NewZone(-3, t, 2)
FallsOn(t)   == NewZone(3, t, -2)

At(slot, weekdays) == [slot |-> slot, session |-> None, weekdays |-> weekdays]
Session(slot)      == [slot |-> 0, session |-> slot, weekdays |-> FALSE]

Ranks == [flow |-> 1, oneoff |-> 2, broadcast |-> 3, program |-> 4]
Rules(gap, cap, quiet, dates, maxHours) ==
  [gap |-> gap, cap |-> cap, quiet |-> quiet, dates |-> dates, maxHours |-> maxHours, rank |-> Ranks]
Cap(count, span)  == [count |-> count, span |-> span]
Quiet(start, end) == [start |-> start, end |-> end]

Setting(mails, zone, policy, window, start, l, f) ==
  [mails |-> mails, zone |-> zone, policy |-> policy, window |-> window, start |-> start,
   bound |-> [late |-> l, fail |-> f]]

\* No mails: the clocks of many zones.
Clocking ==
  {Setting({}, NewZone(o, t, by), Rules(None, None, None, {}, 1), At(None, FALSE), 20, 0, 0) :
     o \in {-5, 0, 3}, t \in 28 .. 31, by \in {-2, 0, 2}}

Mailing ==
  {Setting({f1, b1, o1}, SpringsOn(28), Rules(5, None, Quiet(6, 2), {}, 12), At(1, FALSE), 17, 0, 1),
   Setting({f1, b1, p1}, FallsOn(30), Rules(None, Cap(1, 9), Quiet(2, 4), {4}, 20), At(7, FALSE), 20, 0, 0),
   Setting({f1, p1, o1}, Always, Rules(None, Cap(2, 10), None, {3}, 8), At(None, TRUE), 22, 1, 0)}

Settings == Clocking \cup Mailing
=============================================================================
