--------------------------- MODULE ContactPolicy ---------------------------
(***************************************************************************)
(* What the contact policy makes of the marketing mails to one address:    *)
(* flow mails that wait for their delivery window, broadcasts with a slot  *)
(* of their own, program and one-off mails.  Each dispatch decides on the  *)
(* mails sent so far and on those under way, and sends, defers or drops.   *)
(* The recipient lock makes a dispatch one step here; SendDispatch has the *)
(* lock, the claims and the jobs, DeliveryWindow the arithmetic of clocks. *)
(***************************************************************************)
EXTENDS DeliveryWindow

CONSTANTS
  Mail,
  Origin,      \* "flow", "oneoff", "broadcast" or "program", of each mail
  Case,        \* zones, policies and windows, and what may go wrong
  Hour,        \* slots in an hour
  Last         \* the clock stops here

Origins == {"flow", "oneoff", "broadcast", "program"}
Rare    == {"late", "fail"}
Clock24 == 0 .. Day - 1

Some    == Nat \ {0}

\* None stands for a rule that is not configured; a cap is {count, span}.
Policy == [gap : Some \cup {None}, cap : [count : Some, span : Some] \cup {None},
           quiet : {q \in [start : Clock24, end : Clock24] : q.start # q.end} \cup {None},
           dates : SUBSET Nat, maxHours : Some, rank : [Origins -> Nat]]

\* Blackout dates are a short list, and no clock changes by more than an hour.
ASSUME ContactPolicyAssumption ==
  /\ IsFiniteSet(Mail) /\ Origin \in [Mail -> Origins] /\ Hour \in Some /\ Last \in Nat
  /\ \A c \in Case :
       /\ c.zone \in Zone /\ c.zone.by \in -Hour .. Hour /\ c.window \in Window
       /\ c.policy \in Policy /\ IsFiniteSet(c.policy.dates)
       /\ c.start \in 0 .. Last /\ c.mails \subseteq Mail /\ c.bound \in [Rare -> Nat]

\* An hour and the grace, which is an hour too, are little of a day, programSendTime
\* has more than one pass, and no zone is a day or more from UTC.
ASSUME ClockSizes ==
  /\ Hour <= Grace /\ Grace + 2 * Hour < Day /\ MaxPasses >= 2
  /\ \A c \in Case : {c.zone.offset, c.zone.offset + c.zone.by} \subseteq -Day .. Day

VARIABLES
  setup,    \* the recipient's zone, the policy, the window of flows and programs, and the
            \* mails that come up
  now,
  mail,     \* phase, queuedAt, notBefore, blackoutEndedAt, sentAt of each mail
  happened, \* history: what rare things did
  budget

vars == <<setup, now, mail, happened, budget>>

Phase == {"none", "parked", "queued", "failed", "deferred", "sent", "dropped"}
NoMail == [phase |-> "none", queuedAt |-> None, notBefore |-> None,
           blackoutEndedAt |-> None, sentAt |-> None]

Spend(what) == /\ budget[what] > 0 /\ budget' = [budget EXCEPT ![what] = @ - 1]
               /\ happened' = happened \cup {what}

Init ==
  \E c \in Case :
    /\ setup = [zone |-> c.zone, policy |-> c.policy, window |-> c.window,
                mails |-> c.mails]
    /\ now = c.start
    /\ mail = [m \in Mail |-> NoMail]
    /\ happened = {}
    /\ budget = c.bound

P == setup.policy
Z == setup.zone

-----------------------------------------------------------------------------
(* decideContactPolicy.                                                    *)

\* Mails sent in the last span slots.
SentWithin(m, span) ==
  {n \in Mail \ {m} : mail[n].phase = "sent" /\ mail[n].sentAt > now - span /\ mail[n].sentAt <= now}
SentTimes(m, span) == {mail[n].sentAt : n \in SentWithin(m, span)}

Latest(S) == Max(S \cup {now})

GapUntil(m) ==
  IF P.gap = None THEN now ELSE Latest({t + P.gap : t \in SentTimes(m, P.gap)})

\* The time at which the count-th of the mails in the window leaves it.
\* Mutation: one more mail than the cap.
CapUntilOneMore(m) ==
  IF P.cap = None \/ Cardinality(SentWithin(m, P.cap.span)) <= P.cap.count THEN now
  ELSE Max(SentTimes(m, P.cap.span)) + P.cap.span
CapUntil(m) ==
  IF P.cap = None \/ Cardinality(SentWithin(m, P.cap.span)) < P.cap.count THEN now
  ELSE Max({t \in SentTimes(m, P.cap.span) :
             Cardinality({n \in SentWithin(m, P.cap.span) : mail[n].sentAt >= t}) >= P.cap.count})
         + P.cap.span

\* A mail of a source with a higher priority that is due.
DueAt(m) == IF mail[m].notBefore = None THEN mail[m].queuedAt ELSE mail[m].notBefore
Outranked(m) ==
  \E n \in Mail \ {m} :
    /\ mail[n].phase \in {"queued", "deferred"}
    /\ P.rank[Origin[n]] < P.rank[Origin[m]]
    /\ DueAt(n) <= now
PriorityUntil(m) ==
  IF ~Outranked(m) THEN now ELSE now + (IF P.gap = None THEN Hour ELSE P.gap)

AfterQuiet(t) == IF P.quiet # None /\ InQuiet(Z, P.quiet, t) THEN quietPeriodEnd(Z, P.quiet, t) ELSE t

\* The budget of a deferral runs from the queueing, or from the last blackout.
Base(m) == Max({mail[m].queuedAt} \cup ({mail[m].blackoutEndedAt} \ {None}))

Send       == [action |-> "send", at |-> now, blackout |-> FALSE]
Defer(t,b) == [action |-> "defer", at |-> t, blackout |-> b]
Drop       == [action |-> "drop", at |-> now, blackout |-> FALSE]

Expires(m, t, held) == held /\ t > Base(m) + P.maxHours

decideContactPolicy(m) ==
  LET ruled == Max({GapUntil(m), CapUntil(m), PriorityUntil(m)})
      t     == AfterQuiet(ruled)
      held  == ruled > now \/ (P.quiet # None /\ InQuiet(Z, P.quiet, ruled))
      black == OnBlackout(Z, P.dates, t) /\ blackoutEnd(Z, P.dates, t) > t
  IN  IF Expires(m, t, held) THEN Drop
      ELSE IF black THEN Defer(AfterQuiet(blackoutEnd(Z, P.dates, t)), TRUE)
      ELSE IF held THEN Defer(t, FALSE)
      ELSE Send

-----------------------------------------------------------------------------
(* Mails come up.                                                          *)

ComesUp(m, origin) == m \in setup.mails /\ Origin[m] = origin /\ mail[m].phase = "none"
Put(m, r) == mail' = [mail EXCEPT ![m] = r] /\ UNCHANGED <<setup, now>>
Queued(notBefore) == [NoMail EXCEPT !.phase = "queued", !.queuedAt = now, !.notBefore = notBefore]

\* A run at its send step, at first or after the window opened: it parks, or
\* makes the row.
ReachSend(m) ==
  /\ \/ ComesUp(m, "flow")
     \/ mail[m].phase = "parked" /\ mail[m].notBefore <= now
  /\ LET at == computeDeliveryTime(Z, setup.window, now)
     IN  Put(m, IF at > now THEN [NoMail EXCEPT !.phase = "parked", !.notBefore = at] ELSE Queued(None))
  /\ UNCHANGED <<happened, budget>>

\* A recipient of a broadcast that was scheduled at some time and is dispatched
\* now, perhaps days later, by its own clock or the recipient's.
Enqueue(m) ==
  /\ ComesUp(m, "broadcast")
  /\ \E scheduled \in {now, now - Hour, now - Day - Hour} :
       Put(m, Queued(Max({now, recipientSlot(Z, scheduled, now)})))
  /\ UNCHANGED <<happened, budget>>

\* The tick sends only when the program's time has come.
TickProgram(m) ==
  /\ ComesUp(m, "program")
  /\ programSendTime(Z, setup.window, P.dates, now) = now
  /\ Put(m, Queued(None))
  /\ UNCHANGED <<happened, budget>>

SendTo(m) ==
  /\ ComesUp(m, "oneoff")
  /\ Put(m, Queued(None))
  /\ UNCHANGED <<happened, budget>>

-----------------------------------------------------------------------------
(* Dispatches.                                                             *)

Due(m) == /\ mail[m].phase \in {"parked", "queued", "deferred"}
          /\ mail[m].notBefore # None => mail[m].notBefore <= now

\* Mutation: every deferral starts the budget over.
AfterRebased(m, d) ==
  [mail[m] EXCEPT !.phase = "deferred", !.notBefore = d.at, !.blackoutEndedAt = d.at]
After(m, d) ==
  [mail[m] EXCEPT !.phase = "deferred", !.notBefore = d.at,
                  !.blackoutEndedAt = IF d.blackout THEN d.at ELSE @]

\* The queue tries a mail that the provider refused again, at some time.
Dispatch(m) ==
  /\ mail[m].phase = "failed" \/ (Due(m) /\ mail[m].phase # "parked")
  /\ LET d == decideContactPolicy(m) IN
     CASE d.action = "defer" -> Put(m, After(m, d)) /\ UNCHANGED <<happened, budget>>
       [] d.action = "drop"  -> Put(m, [mail[m] EXCEPT !.phase = "dropped"]) /\ UNCHANGED <<happened, budget>>
       [] d.action = "send"  ->
            \/ /\ Put(m, [mail[m] EXCEPT !.phase = "sent", !.sentAt = now])
               /\ UNCHANGED <<happened, budget>>
            \/ /\ Put(m, [mail[m] EXCEPT !.phase = "failed"])
               /\ Spend("fail")

Release(m) ==
  /\ mail[m].phase = "deferred" /\ mail[m].notBefore <= now
  /\ Put(m, [mail[m] EXCEPT !.phase = "queued"])
  /\ UNCHANGED <<happened, budget>>

\* A mail that is due waits for a slot only if workers are late, or if its
\* dispatch only defers it to now or before.
Spins(m) ==
  /\ mail[m].phase # "parked"
  /\ decideContactPolicy(m).action = "defer" /\ decideContactPolicy(m).at <= now
Tick ==
  /\ now < Last
  /\ now' = now + 1
  /\ IF \E m \in Mail : Due(m) /\ ~Spins(m) THEN Spend("late")
     ELSE UNCHANGED <<happened, budget>>
  /\ UNCHANGED <<setup, mail>>

Next == \/ Tick
        \/ \E m \in Mail : \/ ReachSend(m) \/ Enqueue(m) \/ TickProgram(m) \/ SendTo(m)
                           \/ Dispatch(m) \/ Release(m)

Spec == Init /\ [][Next]_vars

-----------------------------------------------------------------------------
Instant == Int \cup {None}

TypeOK ==
  /\ setup.zone \in Zone /\ setup.policy \in Policy /\ setup.window \in Window
  /\ now \in 0 .. Last
  /\ mail \in [Mail -> [phase : Phase, queuedAt : Instant, notBefore : Instant,
                        blackoutEndedAt : Instant, sentAt : Instant]]
  /\ \A m \in Mail :
       /\ mail[m].sentAt # None <=> mail[m].phase = "sent"
       /\ mail[m].queuedAt # None <=> mail[m].phase \notin {"none", "parked"}
       /\ mail[m].phase \in {"parked", "deferred"} => mail[m].notBefore # None
  /\ happened \subseteq Rare /\ budget \in [Rare -> Nat]

Sent == {m \in Mail : mail[m].phase = "sent"}

\* Of a mail that was sent: the gap to those sent before it, and the cap in the
\* window that ends with it.
GapKept(m) ==
  P.gap = None \/ \A n \in Sent \ {m} :
    mail[n].sentAt <= mail[m].sentAt => mail[n].sentAt + P.gap <= mail[m].sentAt
CapKept(m) ==
  P.cap = None \/
    LET t == mail[m].sentAt
    IN  Cardinality({n \in Sent : mail[n].sentAt \in t - P.cap.span + 1 .. t}) <= P.cap.count
\* It went neither in the quiet hours nor on a blackout date, where the clock does
\* not change nearby,
QuietKept(m) == P.quiet = None \/ ~InQuiet(Z, P.quiet, mail[m].sentAt)
DatesKept(m) ==
  LET t == mail[m].sentAt IN LocalDay(Z, t) \in P.dates => Slack(Z, t - Hour, t + Hour) # 0
\* nor before a mail of a higher priority that was queued earlier and due.
RankKept(m) ==
  \A n \in Mail :
    /\ mail[n].phase \in {"queued", "deferred"} \/ (n \in Sent /\ mail[n].sentAt > mail[m].sentAt)
    /\ P.rank[Origin[n]] < P.rank[Origin[m]] /\ mail[n].queuedAt < mail[m].sentAt
    => DueAt(n) > mail[m].sentAt \/ "fail" \in happened

\* What was sent keeps the rules, whatever the order in which mails came up, were
\* deferred, failed and were released: the gap, the cap, the quiet hours, the
\* blackout dates and the priorities.  (docs/guide/contact-policy.md,
\* contact-policy.ts:68.)
RulesKept == \A m \in Sent : GapKept(m) /\ CapKept(m) /\ QuietKept(m) /\ RankKept(m) /\ DatesKept(m)

\* A mail is sent, deferred or dropped by the time its deferrals may last to at
\* the latest, so that rules that hold each other up cannot keep it for ever; a
\* blackout is not counted.  (contact-policy.ts:119, send.ts:318.)
ConcludesInTime ==
  \A m \in Mail :
    mail[m].phase \in {"queued", "deferred"} /\ "late" \notin happened =>
      now <= (IF P.dates = {} THEN mail[m].queuedAt ELSE Base(m)) + P.maxHours

\* The arithmetic of clocks against what the windows and periods mean, at every
\* instant of a setting in which no mail comes up, for every window there is.
\* Where the clock does not change nearby it is exact; else it may be off by the
\* shifted hour, as delivery-window.ts:9 admits, and by a day if weekends are
\* left out, as the weekday is then that of another day.

\* A flow mail goes out while its window is open, now if it is, and no slot of an
\* allowed day is passed over.  (docs/guide/flows.md:96, :113.)
WindowHonoured(w) ==
  LET at == computeDeliveryTime(Z, w, now)
      e  == Slack(Z, now - Day, at + Day)
      days == LocalDay(Z, now) .. LocalDay(Z, at)
  IN  /\ at >= now - e
      /\ e = 0 \/ ~w.weekdays => \E u \in at - e .. at + e : Open(Z, w, u)
      /\ e = 0 => (at = now <=> Open(Z, w, now))
      /\ \A d \in {x \in days : ~(w.weekdays /\ Weekend(x))} :
           IF w.slot = None THEN at <= startOfLocalDay(Z, d + 1) + e
           ELSE SlotOf(Z, w, d) >= now - e /\ (e = 0 \/ ~w.weekdays) => at <= SlotOf(Z, w, d) + Grace + e

\* A broadcast reaches a recipient at the next moment that their clock shows the
\* time it was scheduled for.  (broadcasts.ts:500.)
SlotHonoured(scheduled) ==
  LET slot == recipientSlot(Z, scheduled, now)
      from == Max({scheduled, now - TzGrace})
  IN  /\ slot >= from
      /\ Slack(Z, scheduled, slot + Day) = 0 =>
           slot = Min({u \in from .. from + Day : Clock(Z, u) = scheduled % Day})

\* A quiet period ends when the clock shows its end, and not before.
QuietEnds(q) ==
  LET end == quietPeriodEnd(Z, q, now) IN
  InQuiet(Z, q, now) =>
    /\ end <= now + Day + Slack(Z, now - Hour, end + Hour)
    /\ Slack(Z, now - Hour, end + Hour) = 0 =>
         end > now /\ ~InQuiet(Z, q, end) /\ \A u \in now .. end - 1 : InQuiet(Z, q, u)

\* The time at which the tick may send is not on a blackout date, and the window
\* is open then.  (programs/window.ts:45.)
ProgramHonoured(w, dates) ==
  LET at == programSendTime(Z, w, dates, now) IN
  Slack(Z, now - 2 * Day, at + Day) = 0 =>
    /\ at >= now /\ ~OnBlackout(Z, dates, at)
    /\ Open(Z, programDeliveryWindow(Z, w, at), at)
    /\ programSendTime(Z, w, dates, at) = at

ClocksHonoured ==
  setup.mails = {} =>
    /\ \A w \in Window : w.session = None => WindowHonoured(w)
    /\ \A scheduled \in now - 2 * Day .. now + 1 : SlotHonoured(scheduled)
    /\ \A s, e \in Clock24 : s # e => QuietEnds([start |-> s, end |-> e])
    /\ \A w \in Window, dates \in SUBSET {LocalDay(Z, now), LocalDay(Z, now) + 1} :
         w.slot = None \/ w.session = None => ProgramHonoured(w, dates)

-----------------------------------------------------------------------------
(* What is said of the code, and does not hold of it in every case.        *)

\* "It only ever moves forward." (delivery-window.ts:5)
OnlyForward == \A w \in Window : w.session = None => computeDeliveryTime(Z, w, now) >= now

\* A deferral is to a later time.  Not so if the quiet hours end in an hour that
\* the clock skips or repeats: the mail is deferred to now or before, at once
\* again and again.  (docs/guide/contact-policy.md:47: "DST-correct".)
DeferralsAdvance == \A m \in Mail : Due(m) => ~Spins(m)

\* "A blackout never drops a send." (docs/guide/contact-policy.md:67)  But the mails
\* that it has gathered hold each other up when it ends.
BlackoutDropsNone ==
  \A m \in Mail : mail[m].blackoutEndedAt # None => mail[m].phase # "dropped"

\* "A send step can constrain when the email actually goes out." (docs/guide/flows.md:96)
\* The policy defers a flow mail out of its window, and the window is not asked again.
SentInWindow ==
  \A m \in Sent : Origin[m] = "flow" => Open(Z, setup.window, mail[m].sentAt)
=============================================================================
