------------------------ MODULE ContactPolicyProofs ------------------------
(***************************************************************************)
(* Proofs about ContactPolicy: what is sent keeps the rules of the policy, *)
(* a mail that they hold back is concluded in time, and the arithmetic of  *)
(* clocks means what it is for, for any number of mails, any policy and    *)
(* any zone.                                                               *)
(***************************************************************************)
EXTENDS ContactPolicy, FiniteSetTheorems, WellFoundedInduction, TLAPS

-----------------------------------------------------------------------------
(* Least and greatest numbers.                                             *)

\* A set of numbers that is not empty has a least one.
LEMMA LeastNat ==
  ASSUME NEW T \in SUBSET Nat, T # {}
  PROVE  \E t \in T : \A u \in T : t <= u
<1> DEFINE Less == OpToRel(<, Nat)
<1>1. \A u, t \in Nat : <<u, t>> \in Less <=> u < t
  BY DEF OpToRel
<1>2. IsWellFoundedOn(Less, Nat)
  BY NatLessThanWellFounded
<1> HIDE DEF Less
<1>3. PICK t \in T : \A u \in T : ~(<<u, t>> \in Less)
  BY <1>2, WFMin
<1>4. \A u \in T : ~(u < t)
  BY <1>1, <1>3
<1>5. QED
  BY <1>4

\* Min and Max are what they are meant to be of a set of integers with a bound.
LEMMA BoundedMin ==
  ASSUME NEW T \in SUBSET Int, T # {}, NEW b \in Int, \A t \in T : b <= t
  PROVE  Min(T) \in T /\ \A t \in T : Min(T) <= t
<1> DEFINE U == {t - b : t \in T}
<1>0. \A t \in T : t - b \in Nat
  OBVIOUS
<1>1. U \subseteq Nat /\ U # {}
  BY <1>0
<1>2. PICK u \in U : \A v \in U : u <= v
  BY <1>1, LeastNat
<1>3. PICK t \in T : u = t - b
  BY <1>2
<1>4. \A v \in T : t <= v
  <2>1. \A v \in T : v - b \in U
    OBVIOUS
  <2> HIDE DEF U
  <2>2. QED
    BY <1>2, <1>3, <2>1
<1>5. QED
  BY <1>3, <1>4 DEF Min

LEMMA BoundedMax ==
  ASSUME NEW T \in SUBSET Int, T # {}, NEW b \in Int, \A t \in T : t <= b
  PROVE  Max(T) \in T /\ \A t \in T : t <= Max(T)
<1> DEFINE U == {b - t : t \in T}
<1>0. \A t \in T : b - t \in Nat
  OBVIOUS
<1>1. U \subseteq Nat /\ U # {}
  BY <1>0
<1>2. PICK u \in U : \A v \in U : u <= v
  BY <1>1, LeastNat
<1>3. PICK t \in T : u = b - t
  BY <1>2
<1>4. \A v \in T : v <= t
  <2>1. \A v \in T : b - v \in U
    OBVIOUS
  <2> HIDE DEF U
  <2>2. QED
    BY <1>2, <1>3, <2>1
<1>5. QED
  BY <1>3, <1>4 DEF Max

\* A finite set of numbers has a bound: a least set without one would have one.
LEMMA FiniteBound ==
  ASSUME NEW S \in SUBSET Nat, IsFiniteSet(S)
  PROVE  \E b \in Nat : \A t \in S : t <= b
<1> DEFINE Bounded(T) == \E b \in Nat : \A t \in T : t <= b
           Sizes == {n \in Nat : \E T \in SUBSET Nat : IsFiniteSet(T) /\ Cardinality(T) = n /\ ~Bounded(T)}
<1>1. ASSUME Sizes # {} PROVE FALSE
  <2>1. PICK n \in Sizes : \A k \in Sizes : n <= k
    BY <1>1, LeastNat
  <2>2. PICK T \in SUBSET Nat : IsFiniteSet(T) /\ Cardinality(T) = n /\ ~Bounded(T)
    BY <2>1
  <2>3. PICK x \in T : TRUE
    BY <2>2
  <2>4. IsFiniteSet(T \ {x}) /\ Cardinality(T \ {x}) = n - 1 /\ n \in Nat
    BY <2>1, <2>2, <2>3, FS_RemoveElement
  <2>5. Cardinality(T \ {x}) \in Nat
    BY <2>4, FS_CardinalityType
  <2>6. Bounded(T \ {x})
    BY <2>1, <2>2, <2>4, <2>5
  <2>7. PICK b \in Nat : \A t \in T \ {x} : t <= b
    BY <2>6
  <2>8. \A t \in T : t <= b + x
    BY <2>2, <2>3, <2>7
  <2>9. QED
    BY <2>2, <2>3, <2>7, <2>8
<1>2. Cardinality(S) \in Nat
  BY FS_CardinalityType
<1>3. QED
  BY <1>1, <1>2

-----------------------------------------------------------------------------
(* The arithmetic of clocks.                                               *)

LEMMA DayFacts == Day \in Nat /\ Day > 0 /\ None \notin Int
BY DeliveryWindowAssumption

LEMMA DayParts ==
  ASSUME NEW l \in Int
  PROVE  l \div Day \in Int /\ l % Day \in 0 .. Day - 1 /\ l = (l \div Day) * Day + (l % Day)
<1>1. l \div Day \in Int
  BY DayFacts
<1>2. l % Day \in Int /\ 0 <= l % Day /\ l % Day < Day
  BY DayFacts
<1>3. l = Day * (l \div Day) + (l % Day)
  BY DayFacts
<1>4. Day * (l \div Day) = (l \div Day) * Day
  BY <1>1, DayFacts
<1>5. QED
  BY <1>1, <1>2, <1>3, <1>4, DayFacts

LEMMA LocalTyped ==
  ASSUME NEW z \in Zone, NEW t \in Int
  PROVE  /\ Off(z, t) \in Int /\ Local(z, t) \in Int /\ LocalDay(z, t) \in Int
         /\ Clock(z, t) \in 0 .. Day - 1
         /\ Local(z, t) = LocalDay(z, t) * Day + Clock(z, t)
<1>1. Off(z, t) \in Int
  BY DEF Off, Zone
<1>2. Local(z, t) \in Int
  BY <1>1 DEF Local
<1>3. QED
  BY <1>1, <1>2, DayParts DEF LocalDay, Clock

LEMMA UtcTyped ==
  ASSUME NEW z \in Zone, NEW d \in Int, NEW c \in Int
  PROVE  UtcFromLocal(z, d, c) \in Int
<1>1. d * Day + c \in Int
  BY DayFacts
<1> DEFINE l == d * Day + c
<1> HIDE DEF l
<1>2. l \in Int /\ UtcFromLocal(z, d, c) = l - Off(z, l - Off(z, l))
  BY <1>1 DEF l, UtcFromLocal
<1>3. QED
  BY <1>2 DEF Off, Zone

LEMMA OffWeekendTyped ==
  ASSUME NEW z \in Zone, NEW t \in Int
  PROVE  OffWeekend(z, t) \in Int
<1>1. LocalDay(z, t) \in Int /\ Clock(z, t) \in Int
  BY LocalTyped
<1>2. QED
  BY <1>1, UtcTyped DEF OffWeekend

LEMMA DeliveryTyped ==
  ASSUME NEW z \in Zone, NEW w \in Window, NEW t \in Int
  PROVE  computeDeliveryTime(z, w, t) \in Int
<1>1. LocalDay(z, t) \in Int
  BY LocalTyped
<1>2. ASSUME w.slot # None PROVE NextSlot(z, w, t) \in Int
  <2>1. w.slot \in Int /\ Grace \in Int
    BY <1>2, DeliveryWindowAssumption DEF Window, Clocks
  <2> DEFINE today == UtcFromLocal(z, LocalDay(z, t), w.slot)
             next  == UtcFromLocal(z, LocalDay(z, t) + 1, w.slot)
  <2>2. today \in Int /\ next \in Int
    BY <1>1, <2>1, UtcTyped
  <2>3. NextSlot(z, w, t) = CASE t < today -> today
                              [] Within(t, today) -> t
                              [] t > today + Grace -> next
    BY DEF NextSlot
  <2> HIDE DEF today, next
  <2>4. QED
    BY <2>1, <2>2, <2>3 DEF Within
<1> DEFINE at == IF w.slot = None THEN t ELSE NextSlot(z, w, t)
<1>3. at \in Int
  BY <1>2
<1>4. OffWeekend(z, OffWeekend(z, OffWeekend(z, at))) \in Int
  BY <1>3, OffWeekendTyped
<1>5. QED
  BY <1>3, <1>4 DEF computeDeliveryTime

LEMMA SlotTyped ==
  ASSUME NEW z \in Zone, NEW s \in Int, NEW t \in Int
  PROVE  recipientSlot(z, s, t) \in Int
<1>1. \A u \in Int : TzOffset(z, u) \in Int
  BY DayFacts, LocalTyped DEF TzOffset
<1>2. TzGrace \in Int
  BY DeliveryWindowAssumption
<1> DEFINE first == s + TzOffset(z, s)
           days  == ((t - TzGrace - first) + Day - 1) \div Day
           later == s + days * Day
<1>3. first \in Int
  BY <1>1
<1>4. days \in Int
  BY <1>2, <1>3, DayFacts
<1>5. later \in Int
  BY <1>4, DayFacts
<1>6. later + TzOffset(z, later) \in Int
  BY <1>1, <1>5
<1>7. QED
  BY <1>3, <1>6, DayFacts DEF recipientSlot

LEMMA QuietTyped ==
  ASSUME NEW z \in Zone, NEW q \in [start : Clock24, end : Clock24], NEW t \in Int
  PROVE  quietPeriodEnd(z, q, t) \in Int
<1>1. LocalDay(z, t) \in Int /\ q.end \in Int
  BY LocalTyped DEF Clock24
<1>2. QED
  BY <1>1, UtcTyped DEF quietPeriodEnd

\* The day starts after its midnight.
LEMMA DayStarts ==
  ASSUME NEW z \in Zone, NEW d \in Int
  PROVE  startOfLocalDay(z, d) \in Int /\ startOfLocalDay(z, d) >= UtcFromLocal(z, d, 0)
<1> DEFINE t == UtcFromLocal(z, d, 0)
           found == {u \in t .. t + SixHours - 1 : LocalDay(z, u) = d}
<1>1. t \in Int /\ SixHours \in Nat
  BY UtcTyped, DeliveryWindowAssumption
<1>2. startOfLocalDay(z, d) = IF found = {} THEN t + SixHours ELSE Min(found)
  BY DEF startOfLocalDay
<1>3. found \in SUBSET Int /\ \A u \in found : t <= u
  BY <1>1
<1> HIDE DEF t
<1>4. found # {} => Min(found) \in found
  BY <1>1, <1>3, BoundedMin
<1>5. QED
  BY <1>1, <1>2, <1>3, <1>4 DEF t

\* The blackout ends on a later day that has none.
LEMMA BlackoutEnds ==
  ASSUME NEW z \in Zone, NEW dates \in SUBSET Nat, IsFiniteSet(dates), NEW t \in Int, OnBlackout(z, dates, t)
  PROVE  /\ blackoutEnd(z, dates, t) \in Int
         /\ \E d \in Int : d > LocalDay(z, t) /\ blackoutEnd(z, dates, t) >= UtcFromLocal(z, d, 0)
<1> DEFINE day == LocalDay(z, t)
           free == {d \in day .. Max(dates) + 1 : d \notin dates}
<1>1. day \in Int /\ day \in dates
  BY LocalTyped DEF OnBlackout
<1>2. PICK b \in Nat : \A d \in dates : d <= b
  BY FiniteBound
<1>3. Max(dates) \in dates /\ \A d \in dates : d <= Max(dates)
  BY <1>1, <1>2, BoundedMax
<1>4. Max(dates) + 1 \in free
  <2> DEFINE last == Max(dates)
  <2>1. last \in dates /\ \A d \in dates : d <= last
    BY <1>3
  <2> HIDE DEF last
  <2>3. last \in Int /\ day <= last /\ last + 1 \notin dates
    BY <1>1, <2>1
  <2> HIDE DEF day
  <2>2. QED
    BY <1>1, <2>1, <2>3 DEF last
<1>5. Min(free) \in free
  BY <1>1, <1>4, BoundedMin
<1>6. Min(free) \in Int /\ Min(free) > day
  BY <1>1, <1>5
<1>7. blackoutEnd(z, dates, t) = startOfLocalDay(z, Min(free))
  BY DEF blackoutEnd
<1> HIDE DEF free
<1>8. QED
  BY <1>6, <1>7, DayStarts

\* So it ends after the time that is in it, unless the clock changes nearby.
LEMMA BlackoutAhead ==
  ASSUME NEW z \in Zone, z.by \in -Hour .. Hour, NEW dates \in SUBSET Nat, IsFiniteSet(dates), NEW t \in Int,
         OnBlackout(z, dates, t), Slack(z, t - Hour, t + Hour) = 0
  PROVE  blackoutEnd(z, dates, t) > t
<1>1. PICK d \in Int : d > LocalDay(z, t) /\ blackoutEnd(z, dates, t) >= UtcFromLocal(z, d, 0)
  BY BlackoutEnds
<1> DEFINE l == d * Day
<1>2. l \in Int
  BY DayFacts
<1>3. Local(z, t) < l
  <2>1. /\ Local(z, t) = LocalDay(z, t) * Day + Clock(z, t) /\ Clock(z, t) < Day
        /\ LocalDay(z, t) \in Int /\ Clock(z, t) \in Int
    BY LocalTyped, DayFacts
  <2>2. (LocalDay(z, t) + 1) * Day <= d * Day
    BY <1>1, <2>1, DayFacts
  <2>3. (LocalDay(z, t) + 1) * Day = LocalDay(z, t) * Day + Day
    BY <2>1, DayFacts
  <2>4. QED
    BY <2>1, <2>2, <2>3, DayFacts, <1>2
<1>4. UtcFromLocal(z, d, 0) = l - Off(z, l - Off(z, l))
  BY <1>2 DEF UtcFromLocal
<1> HIDE DEF l
<1>5. t + Off(z, t) < l
  BY <1>3 DEF Local
<1>6. z.offset \in Int /\ z.at \in Nat /\ z.by \in Int /\ Hour \in Nat
  BY ContactPolicyAssumption DEF Zone, Some
<1>7. l - Off(z, l - Off(z, l)) > t
  BY <1>2, <1>5, <1>6 DEF Off, Slack
<1>8. blackoutEnd(z, dates, t) \in Int
  BY BlackoutEnds
<1>9. QED
  BY <1>1, <1>2, <1>4, <1>6, <1>7, <1>8, UtcTyped

-----------------------------------------------------------------------------
(* What decideContactPolicy returns.                                       *)

\* A period of quiet hours ends after every time in it. It does unless it ends in
\* an hour that the clock skips or repeats.
QuietEndsAhead ==
  \A c \in Case, t \in Nat :
    c.policy.quiet # None /\ InQuiet(c.zone, c.policy.quiet, t)
      => quietPeriodEnd(c.zone, c.policy.quiet, t) > t

\* The settings are those of a case.
FromCase ==
  \E c \in Case : setup = [zone |-> c.zone, policy |-> c.policy, window |-> c.window, mails |-> c.mails]

\* Nothing was queued or sent later than now.
Past ==
  \A m \in Mail :
    /\ mail[m].sentAt # None => mail[m].sentAt <= now
    /\ mail[m].queuedAt # None => mail[m].queuedAt <= now
    /\ mail[m].phase = "failed" => "fail" \in happened
    /\ P.dates = {} => mail[m].blackoutEndedAt = None

PolicyInv == TypeOK /\ FromCase /\ Past

LEMMA SetupFacts ==
  ASSUME FromCase
  PROVE  /\ Z \in Zone /\ Z.by \in -Hour .. Hour /\ setup.window \in Window /\ setup.mails \subseteq Mail
         /\ P \in Policy /\ IsFiniteSet(P.dates) /\ P.dates \in SUBSET Nat
         /\ P.gap # None => P.gap \in Nat /\ P.gap > 0
         /\ P.cap # None => P.cap.count \in Nat /\ P.cap.count > 0 /\ P.cap.span \in Nat /\ P.cap.span > 0
         /\ P.quiet # None => P.quiet \in [start : Clock24, end : Clock24] /\ P.quiet.start # P.quiet.end
         /\ P.maxHours \in Nat /\ P.maxHours > 0
<1>1. PICK c \in Case : setup = [zone |-> c.zone, policy |-> c.policy, window |-> c.window, mails |-> c.mails]
  BY DEF FromCase
<1>2. P = c.policy /\ Z = c.zone /\ setup.window = c.window /\ setup.mails = c.mails
  BY <1>1 DEF P, Z
<1>3. /\ Z \in Zone /\ Z.by \in -Hour .. Hour /\ setup.window \in Window /\ setup.mails \subseteq Mail
      /\ P \in Policy /\ IsFiniteSet(P.dates)
  BY <1>2, ContactPolicyAssumption
<1> HIDE DEF P, Z
<1>4. QED
  BY <1>3 DEF Policy, Some

LEMMA MailFacts ==
  ASSUME PolicyInv, NEW m \in Mail
  PROVE  /\ now \in Nat
         /\ mail[m].sentAt # None => mail[m].sentAt \in Int /\ mail[m].sentAt <= now
         /\ mail[m].queuedAt # None => mail[m].queuedAt \in Int /\ mail[m].queuedAt <= now
         /\ mail[m].notBefore # None => mail[m].notBefore \in Int
         /\ mail[m].blackoutEndedAt # None => mail[m].blackoutEndedAt \in Int
         /\ mail[m].sentAt # None <=> mail[m].phase = "sent"
         /\ mail[m].queuedAt # None <=> mail[m].phase \notin {"none", "parked"}
<1>1. mail[m] \in [phase : Phase, queuedAt : Instant, notBefore : Instant,
                   blackoutEndedAt : Instant, sentAt : Instant]
  BY DEF PolicyInv, TypeOK
<1>2. now \in Nat
  BY ContactPolicyAssumption DEF PolicyInv, TypeOK
<1>3. QED
  BY <1>1, <1>2 DEF PolicyInv, TypeOK, Past, Instant

LEMMA WithinFacts ==
  ASSUME PolicyInv, NEW m \in Mail, NEW span \in Nat
  PROVE  /\ IsFiniteSet(SentWithin(m, span)) /\ Cardinality(SentWithin(m, span)) \in Nat
         /\ SentTimes(m, span) \subseteq Int
         /\ \A t \in SentTimes(m, span) : now - span < t /\ t <= now
<1>1. SentWithin(m, span) \subseteq Mail
  BY DEF SentWithin
<1>2. IsFiniteSet(SentWithin(m, span))
  BY <1>1, ContactPolicyAssumption, FS_Subset
<1>3. \A n \in SentWithin(m, span) : mail[n].sentAt \in Int /\ now - span < mail[n].sentAt /\ mail[n].sentAt <= now
  BY <1>1, MailFacts DEF SentWithin
<1>4. QED
  BY <1>2, <1>3, FS_CardinalityType DEF SentTimes

\* The gap asks for a later time unless no mail was sent in its span.
LEMMA GapFacts ==
  ASSUME PolicyInv, NEW m \in Mail
  PROVE  /\ GapUntil(m) \in Int /\ GapUntil(m) >= now
         /\ GapUntil(m) = now => P.gap = None \/ SentWithin(m, P.gap) = {}
<1>1. now \in Nat
  BY MailFacts
<1>2. CASE P.gap = None
  BY <1>1, <1>2 DEF GapUntil
<1>3. CASE P.gap # None
  <2>1. P.gap \in Nat /\ P.gap > 0
    BY <1>3, SetupFacts DEF PolicyInv
  <2> DEFINE gap == P.gap
             S == {t + gap : t \in SentTimes(m, gap)}
  <2>2. /\ SentTimes(m, gap) \subseteq Int
        /\ \A t \in SentTimes(m, gap) : now - gap < t /\ t <= now
    BY <2>1, WithinFacts
  <2>3. GapUntil(m) = Max(S \cup {now})
    BY <1>3 DEF GapUntil, Latest
  <2>4. \A u \in S : u \in Int /\ u > now /\ u <= now + gap
    <3> HIDE DEF gap
    <3>1. \A t \in SentTimes(m, gap) : t + gap \in Int /\ t + gap > now /\ t + gap <= now + gap
      BY <1>1, <2>1, <2>2 DEF gap
    <3>2. QED
      BY <3>1
  <2>5. now + gap \in Int /\ S \cup {now} \in SUBSET Int /\ \A u \in S \cup {now} : u <= now + gap
    BY <1>1, <2>1, <2>4
  <2>6. Max(S \cup {now}) \in S \cup {now} /\ \A u \in S \cup {now} : u <= Max(S \cup {now})
    BY <2>5, BoundedMax
  <2>7. GapUntil(m) \in Int /\ GapUntil(m) >= now
    BY <1>1, <2>3, <2>5, <2>6
  <2>8. ASSUME GapUntil(m) = now PROVE SentWithin(m, gap) = {}
    <3>1. ASSUME NEW n \in SentWithin(m, gap) PROVE FALSE
      <4>1. mail[n].sentAt + gap \in S
        BY <3>1 DEF SentTimes
      <4>2. mail[n].sentAt + gap > now /\ mail[n].sentAt + gap <= now /\ mail[n].sentAt + gap \in Int
        BY <2>3, <2>4, <2>6, <2>8, <4>1
      <4>3. QED
        BY <1>1, <4>2
    <3>2. QED
      BY <3>1
  <2>9. QED
    BY <2>7, <2>8
<1>4. QED
  BY <1>2, <1>3

\* So does the cap unless there is room for one more mail.
LEMMA CapFacts ==
  ASSUME PolicyInv, NEW m \in Mail
  PROVE  /\ CapUntil(m) \in Int /\ CapUntil(m) >= now
         /\ CapUntil(m) = now => P.cap = None \/ Cardinality(SentWithin(m, P.cap.span)) < P.cap.count
<1>1. now \in Nat
  BY MailFacts
<1>2. CASE P.cap = None
  BY <1>1, <1>2 DEF CapUntil
<1>3. CASE P.cap # None
  <2> DEFINE span == P.cap.span
             count == P.cap.count
             W == SentWithin(m, span)
             T == {t \in SentTimes(m, span) : Cardinality({n \in W : mail[n].sentAt >= t}) >= count}
  <2>1. span \in Nat /\ span > 0 /\ count \in Nat /\ count > 0
    BY <1>3, SetupFacts DEF PolicyInv
  <2>2. CASE Cardinality(W) < count
    BY <1>1, <1>3, <2>2 DEF CapUntil
  <2>3. CASE ~(Cardinality(W) < count)
    <3>1. /\ IsFiniteSet(W) /\ Cardinality(W) \in Nat /\ SentTimes(m, span) \subseteq Int
          /\ \A t \in SentTimes(m, span) : now - span < t /\ t <= now
      BY <2>1, WithinFacts
    <3>2. W # {}
      <4>1. ASSUME W = {} PROVE FALSE
        <5>1. Cardinality(W) = 0
          BY <4>1, FS_EmptySet
        <5>2. QED
          BY <2>1, <2>3, <5>1
      <4>2. QED
        BY <4>1
    <3>3. SentTimes(m, span) # {}
      BY <3>2 DEF SentTimes
    <3> DEFINE least == Min(SentTimes(m, span))
    <3>4. least \in SentTimes(m, span) /\ \A t \in SentTimes(m, span) : least <= t
      <4> HIDE DEF span
      <4>1. /\ now - span \in Int /\ SentTimes(m, span) \in SUBSET Int
            /\ \A t \in SentTimes(m, span) : now - span <= t
        BY <1>1, <2>1, <3>1
      <4>2. QED
        BY <3>3, <4>1, BoundedMin
    <3> HIDE DEF least
    <3>5. \A n \in W : mail[n].sentAt \in SentTimes(m, span)
      BY DEF SentTimes
    <3>6. {n \in W : mail[n].sentAt >= least} = W
      BY <3>1, <3>4, <3>5
    <3>7. least \in T
      <4>1. Cardinality({n \in W : mail[n].sentAt >= least}) >= count
        <5> HIDE DEF W, count
        <5>1. Cardinality(W) >= count
          BY <2>1, <2>3, <3>1
        <5>2. QED
          BY <3>6, <5>1
      <4>2. QED
        BY <3>4, <4>1
    <3>8. T \in SUBSET Int /\ \A t \in T : t <= now /\ now - span < t
      BY <3>1
    <3>9. Max(T) \in T
      <4> HIDE DEF T
      <4>1. T # {} /\ now \in Int /\ \A t \in T : t <= now
        BY <1>1, <3>7, <3>8
      <4>2. QED
        BY <3>8, <4>1, BoundedMax
    <3>10. Max(T) + span > now /\ Max(T) + span \in Int
      <4> DEFINE last == Max(T)
      <4>1. last \in T
        BY <3>9
      <4> HIDE DEF T, span, last
      <4>2. last \in Int /\ now - span < last
        BY <3>8, <4>1
      <4>3. last + span > now /\ last + span \in Int
        BY <1>1, <2>1, <4>2
      <4>4. QED
        BY <4>3 DEF last
    <3>11. CapUntil(m) = Max(T) + span
      BY <1>3, <2>3 DEF CapUntil
    <3>12. QED
      BY <1>1, <3>10, <3>11
  <2>4. QED
    BY <2>2, <2>3
<1>4. QED
  BY <1>2, <1>3

LEMMA PriorityFacts ==
  ASSUME PolicyInv, NEW m \in Mail
  PROVE  /\ PriorityUntil(m) \in Int /\ PriorityUntil(m) >= now
         /\ PriorityUntil(m) = now => ~Outranked(m)
<1>1. now \in Nat /\ Hour \in Nat /\ Hour > 0
  BY MailFacts, ContactPolicyAssumption DEF Some
<1>2. P.gap # None => P.gap \in Nat /\ P.gap > 0
  BY SetupFacts DEF PolicyInv
<1>3. QED
  BY <1>1, <1>2 DEF PriorityUntil

LEMMA MaxOfThree ==
  ASSUME NEW a \in Int, NEW b \in Int, NEW c \in Int
  PROVE  /\ Max({a, b, c}) \in {a, b, c}
         /\ Max({a, b, c}) >= a /\ Max({a, b, c}) >= b /\ Max({a, b, c}) >= c
<1>1. \E x \in {a, b, c} : \A y \in {a, b, c} : x >= y
  OBVIOUS
<1>2. QED
  BY <1>1 DEF Max

LEMMA AfterQuietFacts ==
  ASSUME PolicyInv, NEW t \in Int
  PROVE  /\ AfterQuiet(t) \in Int
         /\ QuietEndsAhead /\ t >= 0 =>
                              /\ AfterQuiet(t) >= t
                              /\ P.quiet # None /\ InQuiet(Z, P.quiet, t) => AfterQuiet(t) > t
<1>1. Z \in Zone /\ (P.quiet # None => P.quiet \in [start : Clock24, end : Clock24])
  BY SetupFacts DEF PolicyInv
<1>2. P.quiet # None => quietPeriodEnd(Z, P.quiet, t) \in Int
  BY <1>1, QuietTyped
<1>3. PICK c \in Case : P = c.policy /\ Z = c.zone
  BY DEF PolicyInv, FromCase, P, Z
<1>4. QuietEndsAhead /\ t >= 0 /\ P.quiet # None /\ InQuiet(Z, P.quiet, t)
        => quietPeriodEnd(Z, P.quiet, t) > t
  BY <1>3 DEF QuietEndsAhead
<1>5. QED
  BY <1>2, <1>4 DEF AfterQuiet

LEMMA MaxBase ==
  ASSUME NEW q \in Int, NEW e \in Instant
  PROVE  LET b == Max({q} \cup ({e} \ {None}))
         IN  /\ b \in Int /\ b >= q /\ (e # None => b >= e) /\ (e = None => b = q)
<1>1. CASE e = None
  <2>1. {q} \cup ({e} \ {None}) = {q, q, q}
    BY <1>1
  <2>2. Max({q, q, q}) \in {q, q, q}
    BY MaxOfThree
  <2>3. QED
    BY <1>1, <2>1, <2>2
<1>2. CASE e # None
  <2>1. e \in Int /\ {q} \cup ({e} \ {None}) = {q, e, e}
    BY <1>2 DEF Instant
  <2>2. Max({q, e, e}) \in {q, e, e} /\ Max({q, e, e}) >= q /\ Max({q, e, e}) >= e
    BY <2>1, MaxOfThree
  <2>3. QED
    BY <1>2, <2>1, <2>2
<1>3. QED
  BY <1>1, <1>2

\* The budget of deferrals starts at the queueing or later.
LEMMA BaseFacts ==
  ASSUME PolicyInv, NEW m \in Mail, mail[m].queuedAt # None
  PROVE  /\ Base(m) \in Int /\ Base(m) >= mail[m].queuedAt
         /\ mail[m].blackoutEndedAt # None => Base(m) >= mail[m].blackoutEndedAt
         /\ mail[m].blackoutEndedAt = None => Base(m) = mail[m].queuedAt
<1>1. mail[m].queuedAt \in Int /\ mail[m].blackoutEndedAt \in Instant
  BY MailFacts DEF Instant
<1>2. QED
  BY <1>1, MaxBase DEF Base

LEMMA Decision ==
  ASSUME PolicyInv, NEW m \in Mail, mail[m].queuedAt # None
  PROVE  /\ decideContactPolicy(m).action = "send" =>
              /\ GapUntil(m) = now /\ CapUntil(m) = now /\ PriorityUntil(m) = now
              /\ P.quiet # None => ~InQuiet(Z, P.quiet, now)
              /\ OnBlackout(Z, P.dates, now) => ~(blackoutEnd(Z, P.dates, now) > now)
         /\ decideContactPolicy(m).action = "defer" =>
              /\ decideContactPolicy(m).at \in Int
              /\ QuietEndsAhead => decideContactPolicy(m).at > now
              /\ decideContactPolicy(m).blackout => P.dates # {}
              /\ ~decideContactPolicy(m).blackout => decideContactPolicy(m).at <= Base(m) + P.maxHours
         /\ decideContactPolicy(m).action \in {"send", "defer", "drop"}
<1> DEFINE ruled == Max({GapUntil(m), CapUntil(m), PriorityUntil(m)})
           t     == AfterQuiet(ruled)
           held  == ruled > now \/ (P.quiet # None /\ InQuiet(Z, P.quiet, ruled))
           end   == blackoutEnd(Z, P.dates, t)
           black == OnBlackout(Z, P.dates, t) /\ end > t
           d     == decideContactPolicy(m)
<1>1. d = IF Expires(m, t, held) THEN Drop
          ELSE IF black THEN Defer(AfterQuiet(end), TRUE)
          ELSE IF held THEN Defer(t, FALSE)
          ELSE Send
  BY DEF decideContactPolicy
<1>2. /\ now \in Nat /\ Base(m) \in Int /\ P.maxHours \in Nat
      /\ Z \in Zone /\ IsFiniteSet(P.dates) /\ P.dates \in SUBSET Nat
  BY MailFacts, BaseFacts, SetupFacts DEF PolicyInv
<1>3. /\ GapUntil(m) \in Int /\ GapUntil(m) >= now /\ CapUntil(m) \in Int /\ CapUntil(m) >= now
      /\ PriorityUntil(m) \in Int /\ PriorityUntil(m) >= now
  BY GapFacts, CapFacts, PriorityFacts
<1>4. /\ ruled \in Int /\ ruled >= now
      /\ ruled = now => GapUntil(m) = now /\ CapUntil(m) = now /\ PriorityUntil(m) = now
  <2> DEFINE gap == GapUntil(m)
             cap == CapUntil(m)
             priority == PriorityUntil(m)
  <2>1. ruled = Max({gap, cap, priority})
    OBVIOUS
  <2>2. gap \in Int /\ cap \in Int /\ priority \in Int /\ gap >= now /\ cap >= now /\ priority >= now
    BY <1>3
  <2> HIDE DEF ruled, gap, cap, priority
  <2>3. ruled \in {gap, cap, priority} /\ ruled >= gap /\ ruled >= cap /\ ruled >= priority
    BY <2>1, <2>2, MaxOfThree
  <2>4. ruled \in Int /\ ruled >= now /\ (ruled = now => gap = now /\ cap = now /\ priority = now)
    BY <1>2, <2>2, <2>3
  <2>5. QED
    BY <2>4 DEF gap, cap, priority
<1> HIDE DEF ruled
<1>5. /\ t \in Int
      /\ QuietEndsAhead => /\ t >= ruled
                           /\ P.quiet # None /\ InQuiet(Z, P.quiet, ruled) => t > ruled
  BY <1>2, <1>4, AfterQuietFacts
<1>6. held \/ t = now
  BY <1>2, <1>4 DEF AfterQuiet
<1> HIDE DEF t
<1>7. OnBlackout(Z, P.dates, t) => end \in Int /\ P.dates # {}
  BY <1>2, <1>5, BlackoutEnds DEF OnBlackout
<1> HIDE DEF end
<1>8. black => /\ AfterQuiet(end) \in Int
               /\ QuietEndsAhead => AfterQuiet(end) > now
  <2>1. ASSUME black PROVE AfterQuiet(end) \in Int
    BY <1>7, <2>1, AfterQuietFacts
  <2>2. ASSUME black, QuietEndsAhead PROVE AfterQuiet(end) > now
    <3>1. end \in Int /\ end > now /\ end >= 0
      BY <1>2, <1>4, <1>5, <1>7, <2>2
    <3>2. AfterQuiet(end) >= end /\ AfterQuiet(end) \in Int
      BY <2>2, <3>1, AfterQuietFacts
    <3>3. QED
      BY <1>2, <3>1, <3>2
  <2>3. QED
    BY <2>1, <2>2
<1>9. held /\ QuietEndsAhead => t > now
  BY <1>2, <1>4, <1>5
<1>10. ~held => ruled = now
  BY <1>2, <1>4
<1>11. CASE Expires(m, t, held)
  BY <1>1, <1>11 DEF Drop
<1>12. CASE ~Expires(m, t, held) /\ black
  BY <1>1, <1>7, <1>8, <1>12 DEF Defer
<1>13. CASE ~Expires(m, t, held) /\ ~black /\ held
  BY <1>1, <1>2, <1>5, <1>9, <1>13 DEF Defer, Expires
<1>14. CASE ~Expires(m, t, held) /\ ~black /\ ~held
  <2>1. d = Send /\ ruled = now /\ t = now
    BY <1>1, <1>6, <1>10, <1>14
  <2>2. P.quiet # None => ~InQuiet(Z, P.quiet, now)
    BY <1>14, <2>1
  <2>3. OnBlackout(Z, P.dates, now) => ~(blackoutEnd(Z, P.dates, now) > now)
    BY <1>14, <2>1 DEF end
  <2>4. QED
    BY <1>4, <2>1, <2>2, <2>3 DEF Send
<1>15. QED
  BY <1>11, <1>12, <1>13, <1>14

-----------------------------------------------------------------------------
(* The type invariant.                                                     *)

MailRec == [phase : Phase, queuedAt : Instant, notBefore : Instant,
            blackoutEndedAt : Instant, sentAt : Instant]

\* The state of a mail that may be put in the place of another.
Good(r) ==
  /\ r \in MailRec
  /\ r.sentAt # None <=> r.phase = "sent"
  /\ r.queuedAt # None <=> r.phase \notin {"none", "parked"}
  /\ r.phase \in {"parked", "deferred"} => r.notBefore # None
  /\ r.sentAt # None => r.sentAt <= now
  /\ r.queuedAt # None => r.queuedAt <= now
  /\ P.dates = {} => r.blackoutEndedAt = None

LEMMA MailGood ==
  ASSUME PolicyInv, NEW m \in Mail
  PROVE  Good(mail[m]) /\ (mail[m].phase = "failed" => "fail" \in happened)
BY DEF PolicyInv, TypeOK, Past, Good, MailRec

LEMMA PutInv ==
  ASSUME PolicyInv, NEW m \in Mail, NEW r, Good(r), Put(m, r),
         happened \subseteq happened', happened' \subseteq Rare, budget' \in [Rare -> Nat],
         r.phase = "failed" => "fail" \in happened'
  PROVE  PolicyInv'
<1>1. UNCHANGED <<setup, now>> /\ mail' = [mail EXCEPT ![m] = r]
  BY DEF Put
<1>2. mail \in [Mail -> MailRec]
  BY DEF PolicyInv, TypeOK, MailRec
<1>3. r \in MailRec
  BY DEF Good
<1>4. mail' \in [Mail -> MailRec] /\ mail'[m] = r /\ \A n \in Mail \ {m} : mail'[n] = mail[n]
  BY <1>1, <1>2, <1>3
<1>5. ASSUME NEW n \in Mail
      PROVE  /\ mail'[n].sentAt # None <=> mail'[n].phase = "sent"
             /\ mail'[n].queuedAt # None <=> mail'[n].phase \notin {"none", "parked"}
             /\ mail'[n].phase \in {"parked", "deferred"} => mail'[n].notBefore # None
             /\ mail'[n].sentAt # None => mail'[n].sentAt <= now
             /\ mail'[n].queuedAt # None => mail'[n].queuedAt <= now
             /\ mail'[n].phase = "failed" => "fail" \in happened'
             /\ P.dates = {} => mail'[n].blackoutEndedAt = None
  <2>1. CASE n = m
    BY <1>4, <2>1 DEF Good
  <2>2. CASE n # m
    <3>1. Good(mail[n]) /\ (mail[n].phase = "failed" => "fail" \in happened) /\ mail'[n] = mail[n]
      BY <1>4, <2>2, MailGood
    <3>2. QED
      BY <3>1 DEF Good
  <2>3. QED
    BY <2>1, <2>2
<1>6. TypeOK'
  BY <1>1, <1>4, <1>5 DEF PolicyInv, TypeOK, MailRec
<1>7. Past'
  BY <1>1, <1>5 DEF Past, P
<1>8. FromCase'
  BY <1>1 DEF PolicyInv, FromCase
<1>9. QED
  BY <1>6, <1>7, <1>8 DEF PolicyInv

LEMMA SpendTyped ==
  ASSUME PolicyInv, NEW what \in Rare, Spend(what)
  PROVE  happened \subseteq happened' /\ happened' \subseteq Rare /\ budget' \in [Rare -> Nat]
BY DEF PolicyInv, TypeOK, Spend

LEMMA NoSpend ==
  ASSUME PolicyInv, UNCHANGED <<happened, budget>>
  PROVE  happened \subseteq happened' /\ happened' \subseteq Rare /\ budget' \in [Rare -> Nat]
BY DEF PolicyInv, TypeOK

LEMMA InitInv == Init => PolicyInv
<1> SUFFICES ASSUME Init PROVE PolicyInv
  OBVIOUS
<1>1. PICK c \in Case :
        /\ setup = [zone |-> c.zone, policy |-> c.policy, window |-> c.window, mails |-> c.mails]
        /\ now = c.start /\ mail = [m \in Mail |-> NoMail] /\ happened = {} /\ budget = c.bound
  BY DEF Init
<1>2. FromCase
  BY <1>1 DEF FromCase
<1>3. NoMail \in MailRec /\ NoMail.phase = "none" /\ NoMail.sentAt = None /\ NoMail.queuedAt = None
      /\ NoMail.blackoutEndedAt = None
  BY DEF NoMail, MailRec, Phase, Instant
<1>4. TypeOK
  BY <1>1, <1>3, ContactPolicyAssumption DEF TypeOK, MailRec
<1>5. Past
  BY <1>1, <1>3 DEF Past
<1>6. QED
  BY <1>2, <1>4, <1>5 DEF PolicyInv

-----------------------------------------------------------------------------
(* What a step does to a mail.                                             *)

Changed(m, r) ==
  /\ Put(m, r) /\ Good(r) /\ mail[m].phase # "sent"
  /\ happened \subseteq happened' /\ happened' \subseteq Rare /\ budget' \in [Rare -> Nat]
  /\ r.phase = "failed" => "fail" \in happened'

\* It comes up, a broadcast with the slot of its recipient;
Slotted(m, at) == /\ Origin[m] = "broadcast" /\ m \in setup.mails
                  /\ \E s \in Int : s <= now /\ at = Max({now, recipientSlot(Z, s, now)})
Comes(m, r) == \/ r.phase = "parked"
               \/ /\ r.phase = "queued" /\ r.queuedAt = now /\ r.blackoutEndedAt = None
                  /\ r.notBefore = None \/ Slotted(m, r.notBefore)
\* or it is deferred, sent, dropped or refused, or released.
Defers(m, r) == /\ mail[m].queuedAt # None /\ decideContactPolicy(m).action = "defer"
                /\ r = After(m, decideContactPolicy(m))
Goes(m, r)   == /\ mail[m].queuedAt # None /\ decideContactPolicy(m).action = "send"
                /\ mail[m].phase \in {"failed", "queued", "deferred"}
                /\ r = [mail[m] EXCEPT !.phase = "sent", !.sentAt = now]
Ends(m, r)   == r.phase \in {"dropped", "failed"}
Frees(m, r)  == mail[m].phase = "deferred" /\ r = [mail[m] EXCEPT !.phase = "queued"]

LEMMA NoMailFields ==
  /\ NoMail \in MailRec /\ NoMail.phase = "none" /\ NoMail.queuedAt = None
  /\ NoMail.notBefore = None /\ NoMail.blackoutEndedAt = None /\ NoMail.sentAt = None
BY DEF NoMail, MailRec, Phase, Instant

LEMMA QueuedGood ==
  ASSUME PolicyInv, NEW at \in Instant
  PROVE  /\ Good(Queued(at)) /\ Queued(at).phase = "queued" /\ Queued(at).queuedAt = now
         /\ Queued(at).blackoutEndedAt = None /\ Queued(at).notBefore = at
<1>1. now \in Int /\ None \notin Int
  BY DayFacts, ContactPolicyAssumption DEF PolicyInv, TypeOK
<1>2. /\ Queued(at) \in MailRec /\ Queued(at).phase = "queued" /\ Queued(at).queuedAt = now
      /\ Queued(at).notBefore = at /\ Queued(at).blackoutEndedAt = None /\ Queued(at).sentAt = None
  BY <1>1, NoMailFields DEF Queued, MailRec, Phase, Instant
<1>3. QED
  BY <1>1, <1>2 DEF Good

LEMMA Arrives ==
  ASSUME PolicyInv, NEW m \in Mail,
         ReachSend(m) \/ Enqueue(m) \/ TickProgram(m) \/ SendTo(m)
  PROVE  \E r : Changed(m, r) /\ Comes(m, r)
<1>1. now \in Nat /\ Z \in Zone /\ setup.window \in Window /\ None \in Instant /\ None \notin Int
  BY MailFacts, SetupFacts, DayFacts DEF PolicyInv, Instant
<1>2. happened \subseteq happened' /\ happened' \subseteq Rare /\ budget' \in [Rare -> Nat]
  BY NoSpend DEF ReachSend, Enqueue, TickProgram, SendTo
<1>3. mail[m].phase # "sent"
  BY DEF ReachSend, Enqueue, TickProgram, SendTo, ComesUp
<1>4. CASE ReachSend(m)
  <2> DEFINE at == computeDeliveryTime(Z, setup.window, now)
             r  == [NoMail EXCEPT !.phase = "parked", !.notBefore = at]
  <2>1. at \in Int
    BY <1>1, DeliveryTyped
  <2>2. Put(m, IF at > now THEN r ELSE Queued(None))
    BY <1>4 DEF ReachSend
  <2> HIDE DEF at
  <2>3. /\ r \in MailRec /\ r.phase = "parked" /\ r.notBefore = at
        /\ r.queuedAt = None /\ r.blackoutEndedAt = None /\ r.sentAt = None
    BY <2>1, NoMailFields DEF MailRec, Phase, Instant
  <2> HIDE DEF r
  <2>4. Good(r) /\ r.phase = "parked"
    BY <1>1, <2>1, <2>3 DEF Good
  <2>5. CASE at > now
    BY <1>2, <1>3, <2>2, <2>4, <2>5 DEF Changed, Comes
  <2>6. CASE ~(at > now)
    <3>1. Changed(m, Queued(None)) /\ Comes(m, Queued(None))
      BY <1>1, <1>2, <1>3, <2>2, <2>6, QueuedGood DEF Changed, Comes
    <3>2. QED
      BY <3>1
  <2>7. QED
    BY <2>5, <2>6
<1>5. CASE Enqueue(m)
  <2>1. PICK s \in {now, now - Hour, now - Day - Hour} :
          Put(m, Queued(Max({now, recipientSlot(Z, s, now)})))
    BY <1>5 DEF Enqueue
  <2>2. s \in Int /\ s <= now
    BY <1>1, <2>1, DayFacts, ContactPolicyAssumption DEF Some
  <2> DEFINE slot == recipientSlot(Z, s, now)
             at   == Max({now, slot})
  <2>3. slot \in Int
    BY <1>1, <2>2, SlotTyped
  <2>4. {now, slot} = {now, slot, slot}
    OBVIOUS
  <2>5. at \in Instant
    <3>1. now \in Int
      BY <1>1
    <3>2. at = Max({now, slot, slot})
      BY <2>4
    <3> HIDE DEF slot, at
    <3>3. Max({now, slot, slot}) \in {now, slot, slot}
      BY <3>1, <2>3, MaxOfThree
    <3>4. QED
      BY <3>1, <2>3, <3>2, <3>3 DEF Instant
  <2>6. Slotted(m, at)
    BY <1>5, <2>2 DEF Slotted, Enqueue, ComesUp
  <2>7. Put(m, Queued(at))
    BY <2>1
  <2> HIDE DEF at
  <2>8. Changed(m, Queued(at)) /\ Comes(m, Queued(at))
    BY <1>2, <1>3, <2>5, <2>6, <2>7, QueuedGood DEF Changed, Comes
  <2>9. QED
    BY <2>8
<1>6. CASE TickProgram(m) \/ SendTo(m)
  <2>1. Put(m, Queued(None))
    BY <1>6 DEF TickProgram, SendTo
  <2>2. Changed(m, Queued(None)) /\ Comes(m, Queued(None))
    BY <1>1, <1>2, <1>3, <2>1, QueuedGood DEF Changed, Comes
  <2>3. QED
    BY <2>2
<1>7. QED
  BY <1>4, <1>5, <1>6

LEMMA Dispatched ==
  ASSUME PolicyInv, NEW m \in Mail, Dispatch(m) \/ Release(m)
  PROVE  \E r : Changed(m, r) /\ (Defers(m, r) \/ Goes(m, r) \/ Ends(m, r) \/ Frees(m, r))
<1>1. now \in Nat /\ None \notin Int /\ Good(mail[m]) /\ mail[m] \in MailRec
  BY MailFacts, MailGood, DayFacts DEF Good
<1>2. mail[m].phase \in {"failed", "queued", "deferred"}
  BY DEF Dispatch, Release, Due
<1>3. mail[m].queuedAt # None /\ mail[m].sentAt = None
  BY <1>1, <1>2 DEF Good
<1> DEFINE d == decideContactPolicy(m)
<1>4. CASE Release(m)
  <2> DEFINE r == [mail[m] EXCEPT !.phase = "queued"]
  <2>1. Good(r) /\ r.phase = "queued"
    BY <1>1, <1>2, <1>3 DEF Good, MailRec, Phase
  <2>2. Changed(m, r) /\ Frees(m, r)
    BY <1>2, <1>4, <2>1, NoSpend DEF Release, Changed, Frees
  <2>3. QED
    BY <2>2
<1>5. CASE Dispatch(m) /\ d.action = "defer"
  <2> DEFINE r == After(m, d)
  <2>1. Put(m, r) /\ UNCHANGED <<happened, budget>>
    BY <1>5 DEF Dispatch
  <2>2. d.at \in Int /\ (d.blackout => P.dates # {})
    BY <1>3, <1>5, Decision
  <2>3. r = [mail[m] EXCEPT !.phase = "deferred", !.notBefore = d.at,
                            !.blackoutEndedAt = IF d.blackout THEN d.at ELSE @]
    BY DEF After
  <2> HIDE DEF d
  <2>4. Good(r) /\ r.phase = "deferred"
    <3> DEFINE e == IF d.blackout THEN d.at ELSE mail[m].blackoutEndedAt
    <3>1. e \in Instant /\ (P.dates = {} => e = None)
      BY <1>1, <2>2 DEF Good, MailRec, Instant
    <3>2. r = [mail[m] EXCEPT !.phase = "deferred", !.notBefore = d.at, !.blackoutEndedAt = e]
      BY <2>3
    <3> HIDE DEF e
    <3>3. /\ r \in MailRec /\ r.phase = "deferred" /\ r.notBefore = d.at /\ r.blackoutEndedAt = e
          /\ r.queuedAt = mail[m].queuedAt /\ r.sentAt = mail[m].sentAt
      BY <1>1, <2>2, <3>1, <3>2 DEF MailRec, Phase, Instant
    <3> HIDE DEF r
    <3>4. QED
      BY <1>1, <1>2, <1>3, <2>2, <3>1, <3>3 DEF Good
  <2>5. Changed(m, r) /\ Defers(m, r)
    BY <1>2, <1>3, <1>5, <2>1, <2>4, NoSpend DEF Changed, Defers, d
  <2>6. QED
    BY <2>5
<1>6. CASE Dispatch(m) /\ d.action = "drop"
  <2> DEFINE r == [mail[m] EXCEPT !.phase = "dropped"]
  <2>1. Put(m, r) /\ UNCHANGED <<happened, budget>>
    BY <1>6 DEF Dispatch
  <2>2. Good(r) /\ r.phase = "dropped"
    BY <1>1, <1>2, <1>3 DEF Good, MailRec, Phase
  <2>3. Changed(m, r) /\ Ends(m, r)
    BY <1>2, <2>1, <2>2, NoSpend DEF Changed, Ends
  <2>4. QED
    BY <2>3
<1>7. CASE Dispatch(m) /\ d.action = "send"
  <2>1. \/ Put(m, [mail[m] EXCEPT !.phase = "sent", !.sentAt = now]) /\ UNCHANGED <<happened, budget>>
        \/ Put(m, [mail[m] EXCEPT !.phase = "failed"]) /\ Spend("fail")
    BY <1>7 DEF Dispatch
  <2>2. CASE Put(m, [mail[m] EXCEPT !.phase = "sent", !.sentAt = now]) /\ UNCHANGED <<happened, budget>>
    <3> DEFINE r == [mail[m] EXCEPT !.phase = "sent", !.sentAt = now]
    <3>1. Good(r) /\ r.phase = "sent"
      <4>1. /\ r \in MailRec /\ r.phase = "sent" /\ r.sentAt = now /\ r.queuedAt = mail[m].queuedAt
            /\ r.blackoutEndedAt = mail[m].blackoutEndedAt
        <5>1. "sent" \in Phase /\ now \in Instant
          BY <1>1 DEF Phase, Instant
        <5>2. mail[m] \in [phase : Phase, queuedAt : Instant, notBefore : Instant,
                           blackoutEndedAt : Instant, sentAt : Instant]
          BY <1>1 DEF MailRec
        <5>3. QED
          BY <5>1, <5>2 DEF MailRec
      <4> HIDE DEF r
      <4>2. QED
        BY <1>1, <1>2, <1>3, <4>1 DEF Good
    <3>2. Changed(m, r) /\ Goes(m, r)
      BY <1>2, <1>3, <1>7, <2>2, <3>1, NoSpend DEF Changed, Goes
    <3>3. QED
      BY <3>2
  <2>3. CASE Put(m, [mail[m] EXCEPT !.phase = "failed"]) /\ Spend("fail")
    <3> DEFINE r == [mail[m] EXCEPT !.phase = "failed"]
    <3>1. Good(r) /\ r.phase = "failed"
      BY <1>1, <1>2, <1>3 DEF Good, MailRec, Phase
    <3>2. "fail" \in Rare /\ "fail" \in happened'
      BY <2>3 DEF Rare, Spend
    <3>3. Changed(m, r) /\ Ends(m, r)
      BY <1>2, <2>3, <3>1, <3>2, SpendTyped DEF Changed, Ends
    <3>4. QED
      BY <3>3
  <2>4. QED
    BY <2>1, <2>2, <2>3
<1>8. d.action \in {"send", "defer", "drop"}
  BY <1>3, Decision
<1>9. QED
  BY <1>4, <1>5, <1>6, <1>7, <1>8

Step(m) == \E r : /\ Changed(m, r)
                  /\ Comes(m, r) \/ Defers(m, r) \/ Goes(m, r) \/ Ends(m, r) \/ Frees(m, r)

LEMMA Steps ==
  ASSUME PolicyInv, Next
  PROVE  Tick \/ \E m \in Mail : Step(m)
<1>1. ASSUME NEW m \in Mail, ReachSend(m) \/ Enqueue(m) \/ TickProgram(m) \/ SendTo(m) PROVE Step(m)
  BY <1>1, Arrives DEF Step
<1>2. ASSUME NEW m \in Mail, Dispatch(m) \/ Release(m) PROVE Step(m)
  BY <1>2, Dispatched DEF Step
<1>3. QED
  BY <1>1, <1>2 DEF Next

LEMMA TickInv ==
  ASSUME PolicyInv, Tick
  PROVE  PolicyInv' /\ UNCHANGED <<setup, mail>> /\ now' = now + 1 /\ happened \subseteq happened'
<1>1. UNCHANGED <<setup, mail>> /\ now' = now + 1 /\ now < Last /\ now \in 0 .. Last /\ Last \in Nat
  BY ContactPolicyAssumption DEF Tick, PolicyInv, TypeOK
<1>2. happened \subseteq happened' /\ happened' \subseteq Rare /\ budget' \in [Rare -> Nat]
  <2>1. CASE Spend("late")
    BY <2>1, SpendTyped DEF Rare
  <2>2. CASE UNCHANGED <<happened, budget>>
    BY <2>2, NoSpend
  <2>3. QED
    BY <2>1, <2>2 DEF Tick
<1>3. now' \in 0 .. Last
  BY <1>1
<1>4. TypeOK'
  BY <1>1, <1>2, <1>3 DEF PolicyInv, TypeOK
<1>5. ASSUME NEW m \in Mail
      PROVE  /\ mail[m].sentAt # None => mail[m].sentAt <= now + 1
             /\ mail[m].queuedAt # None => mail[m].queuedAt <= now + 1
  BY MailFacts
<1>6. Past'
  BY <1>1, <1>2, <1>5 DEF PolicyInv, Past, P
<1>7. FromCase'
  BY <1>1 DEF PolicyInv, FromCase
<1>8. QED
  BY <1>1, <1>2, <1>4, <1>6, <1>7 DEF PolicyInv

LEMMA PolicyStep == PolicyInv /\ [Next]_vars => PolicyInv'
<1> SUFFICES ASSUME PolicyInv, [Next]_vars PROVE PolicyInv'
  OBVIOUS
<1>1. CASE Tick
  BY <1>1, TickInv
<1>2. ASSUME NEW m \in Mail, Step(m) PROVE PolicyInv'
  BY <1>2, PutInv DEF Step, Changed
<1>3. CASE UNCHANGED vars
  BY <1>3 DEF vars, PolicyInv, TypeOK, FromCase, Past, P
<1>4. QED
  BY <1>1, <1>2, <1>3, Steps

\* Every mail and every setting keeps its types, and what a mail's dates say agrees
\* with its phase (dispatchSend, deferSendForWindow and releaseDueDeferredSends
\* write them together).
THEOREM TypeCorrect == Spec => []TypeOK
<1>1. PolicyInv => TypeOK
  BY DEF PolicyInv
<1>2. QED
  BY <1>1, InitInv, PolicyStep, PTL DEF Spec

-----------------------------------------------------------------------------
(* What is sent keeps the rules.                                           *)

\* The fields of a mail after a step.
LEMMA Fields ==
  ASSUME PolicyInv, NEW m \in Mail, NEW r
  PROVE  /\ Defers(m, r) => /\ r.phase = "deferred" /\ r.notBefore = decideContactPolicy(m).at
                            /\ r.queuedAt = mail[m].queuedAt
                            /\ r.blackoutEndedAt = (IF decideContactPolicy(m).blackout
                                                   THEN decideContactPolicy(m).at
                                                   ELSE mail[m].blackoutEndedAt)
         /\ Goes(m, r) => /\ r.phase = "sent" /\ r.sentAt = now /\ r.queuedAt = mail[m].queuedAt
                          /\ r.notBefore = mail[m].notBefore
         /\ Frees(m, r) => /\ r.phase = "queued" /\ r.queuedAt = mail[m].queuedAt
                           /\ r.notBefore = mail[m].notBefore
                           /\ r.blackoutEndedAt = mail[m].blackoutEndedAt
<1>1. mail[m] \in [phase : Phase, queuedAt : Instant, notBefore : Instant,
                   blackoutEndedAt : Instant, sentAt : Instant]
  BY DEF PolicyInv, TypeOK
<1>2. QED
  BY <1>1 DEF Defers, Goes, Frees, After

\* One mail changes, and nothing of the setting.
LEMMA OneChanges ==
  ASSUME PolicyInv, NEW m \in Mail, NEW r, Changed(m, r)
  PROVE  /\ now' = now /\ P' = P /\ Z' = Z /\ happened \subseteq happened'
         /\ mail'[m] = r /\ \A n \in Mail \ {m} : mail'[n] = mail[n]
         /\ m \notin Sent /\ \A n \in Sent : mail'[n] = mail[n]
         /\ Sent' = IF r.phase = "sent" THEN Sent \cup {m} ELSE Sent
<1>1. mail' = [mail EXCEPT ![m] = r] /\ UNCHANGED <<setup, now>> /\ mail[m].phase # "sent"
  BY DEF Changed, Put
<1>2. mail \in [Mail -> MailRec]
  BY DEF PolicyInv, TypeOK, MailRec
<1>3. mail'[m] = r /\ \A n \in Mail \ {m} : mail'[n] = mail[n]
  BY <1>1, <1>2
<1>4. QED
  BY <1>1, <1>3 DEF P, Z, Sent, Changed

\* The rules that a mail keeps by itself when it is sent.
OwnRules(m) == GapKept(m) /\ CapKept(m) /\ QuietKept(m) /\ DatesKept(m)
OwnKept     == \A m \in Sent : OwnRules(m)
RankedKept  == \A m \in Sent : RankKept(m)

LEMMA OwnUnsent ==
  ASSUME PolicyInv, OwnKept, P' = P, Z' = Z, Sent' = Sent, \A n \in Sent : mail'[n] = mail[n]
  PROVE  OwnKept'
<1> SUFFICES ASSUME NEW m \in Sent PROVE OwnRules(m)'
  BY DEF OwnKept
<1>1. OwnRules(m) /\ mail'[m] = mail[m]
  BY DEF OwnKept
<1>2. GapKept(m)'
  BY <1>1 DEF OwnRules, GapKept
<1>3. CapKept(m)'
  <2> DEFINE t == mail[m].sentAt
             W == {n \in Sent : mail[n].sentAt \in t - P.cap.span + 1 .. t}
  <2>1. P.cap = None \/ Cardinality(W) <= P.cap.count
    BY <1>1 DEF OwnRules, CapKept
  <2>2. {n \in Sent' : mail'[n].sentAt \in mail'[m].sentAt - P'.cap.span + 1 .. mail'[m].sentAt} = W
    BY <1>1
  <2>3. QED
    BY <2>1, <2>2 DEF CapKept
<1>4. QuietKept(m)' /\ DatesKept(m)'
  BY <1>1 DEF OwnRules, QuietKept, DatesKept
<1>5. QED
  BY <1>2, <1>3, <1>4 DEF OwnRules

LEMMA OwnSent ==
  ASSUME PolicyInv, OwnKept, NEW m \in Mail, NEW r, Changed(m, r), Goes(m, r)
  PROVE  OwnKept'
<1>1. /\ P' = P /\ Z' = Z /\ m \notin Sent /\ Sent' = Sent \cup {m}
      /\ mail'[m].sentAt = now /\ \A n \in Sent : mail'[n] = mail[n]
  BY OneChanges, Fields
<1>2. /\ GapUntil(m) = now /\ CapUntil(m) = now
      /\ P.quiet # None => ~InQuiet(Z, P.quiet, now)
      /\ OnBlackout(Z, P.dates, now) => ~(blackoutEnd(Z, P.dates, now) > now)
  BY Decision DEF Goes
<1>3. now \in Nat /\ \A n \in Sent : n \in Mail \ {m} /\ mail[n].sentAt \in Int /\ mail[n].sentAt <= now
  BY <1>1, MailFacts DEF Sent
<1>4. ASSUME NEW n \in Sent' PROVE GapKept(n)'
  <2>1. CASE P.gap = None
    BY <1>1, <2>1 DEF GapKept
  <2>2. CASE P.gap # None
    <3>1. P.gap \in Nat /\ P.gap > 0 /\ SentWithin(m, P.gap) = {}
      BY <1>2, <2>2, SetupFacts, GapFacts DEF PolicyInv
    <3>2. \A k \in Sent : mail[k].sentAt + P.gap <= now
      <4>1. \A k \in Sent : ~(mail[k].sentAt > now - P.gap)
        BY <1>3, <3>1 DEF SentWithin, Sent
      <4>2. QED
        BY <1>3, <3>1, <4>1
    <3>3. CASE n = m
      BY <1>1, <3>2, <3>3 DEF GapKept
    <3>4. CASE n # m
      <4>1. n \in Sent /\ GapKept(n)
        BY <1>1, <3>4 DEF OwnKept, OwnRules
      <4>2. mail[n].sentAt < now
        BY <1>3, <3>1, <3>2, <4>1
      <4>3. QED
        BY <1>1, <1>3, <4>1, <4>2 DEF GapKept
    <3>5. QED
      BY <3>3, <3>4
  <2>3. QED
    BY <2>1, <2>2
<1>5. ASSUME NEW n \in Sent' PROVE CapKept(n)'
  <2>1. CASE P.cap = None
    BY <1>1, <2>1 DEF CapKept
  <2>2. CASE P.cap # None
    <3> DEFINE span == P.cap.span
               count == P.cap.count
               t == mail'[n].sentAt
               W == {k \in Sent' : mail'[k].sentAt \in t - span + 1 .. t}
               S == SentWithin(m, span)
    <3>1. /\ span \in Nat /\ span > 0 /\ count \in Nat
          /\ IsFiniteSet(S) /\ Cardinality(S) \in Nat /\ Cardinality(S) < count
      <4>1. span \in Nat /\ span > 0 /\ count \in Nat /\ Cardinality(S) < count
        BY <1>2, <2>2, SetupFacts, CapFacts DEF PolicyInv
      <4>2. IsFiniteSet(S) /\ Cardinality(S) \in Nat
        BY <4>1, WithinFacts
      <4>3. QED
        BY <4>1, <4>2
    <3>2. Cardinality(W) <= count
      <4>1. CASE t = now
        <5>1. W = S \cup {m}
          BY <1>1, <1>3, <3>1, <4>1 DEF SentWithin, Sent
        <5>2. m \notin S
          BY DEF SentWithin
        <5> HIDE DEF S, W
        <5>3. Cardinality(W) = Cardinality(S) + 1
          BY <3>1, <5>1, <5>2, FS_AddElement
        <5>4. QED
          BY <3>1, <5>3
      <4>2. CASE t # now
        <5>1. n \in Sent /\ CapKept(n) /\ t = mail[n].sentAt /\ t < now /\ t \in Int
          BY <1>1, <1>3, <4>2 DEF OwnKept, OwnRules
        <5>2. W = {k \in Sent : mail[k].sentAt \in mail[n].sentAt - span + 1 .. mail[n].sentAt}
          BY <1>1, <1>3, <3>1, <5>1
        <5>3. QED
          BY <2>2, <5>1, <5>2 DEF CapKept
      <4>3. QED
        BY <4>1, <4>2
    <3>3. QED
      BY <1>1, <3>2 DEF CapKept
  <2>3. QED
    BY <2>1, <2>2
<1>6. ASSUME NEW n \in Sent' PROVE QuietKept(n)' /\ DatesKept(n)'
  <2>1. CASE n = m
    <3>1. /\ Z \in Zone /\ Z.by \in -Hour .. Hour /\ P.dates \in SUBSET Nat /\ IsFiniteSet(P.dates)
      BY SetupFacts DEF PolicyInv
    <3>2. LocalDay(Z, now) \in P.dates => Slack(Z, now - Hour, now + Hour) # 0
      BY <1>2, <1>3, <3>1, BlackoutAhead DEF OnBlackout
    <3>3. QED
      BY <1>1, <1>2, <2>1, <3>2 DEF QuietKept, DatesKept
  <2>2. CASE n # m
    <3>1. n \in Sent /\ QuietKept(n) /\ DatesKept(n)
      BY <1>1, <2>2 DEF OwnKept, OwnRules
    <3>2. QED
      BY <1>1, <3>1 DEF QuietKept, DatesKept
  <2>3. QED
    BY <2>1, <2>2
<1>7. QED
  BY <1>4, <1>5, <1>6 DEF OwnKept, OwnRules

LEMMA OwnStep == PolicyInv /\ OwnKept /\ [Next]_vars => OwnKept'
<1> SUFFICES ASSUME PolicyInv, OwnKept, [Next]_vars PROVE OwnKept'
  OBVIOUS
<1>1. CASE Tick
  <2>1. UNCHANGED <<setup, mail>>
    BY <1>1, TickInv
  <2>2. P' = P /\ Z' = Z /\ Sent' = Sent /\ \A n \in Sent : mail'[n] = mail[n]
    BY <2>1 DEF P, Z, Sent
  <2>3. QED
    BY <2>2, OwnUnsent
<1>2. ASSUME NEW m \in Mail, Step(m) PROVE OwnKept'
  <2>1. PICK r : Changed(m, r) /\ (Comes(m, r) \/ Defers(m, r) \/ Goes(m, r) \/ Ends(m, r) \/ Frees(m, r))
    BY <1>2 DEF Step
  <2>2. CASE Goes(m, r)
    BY <2>1, <2>2, OwnSent
  <2>3. CASE ~Goes(m, r)
    <3>1. r.phase # "sent"
      BY <2>1, <2>3, Fields DEF Comes, Ends
    <3>2. P' = P /\ Z' = Z /\ Sent' = Sent /\ \A n \in Sent : mail'[n] = mail[n]
      BY <2>1, <3>1, OneChanges
    <3>3. QED
      BY <3>2, OwnUnsent
  <2>4. QED
    BY <2>2, <2>3
<1>3. CASE UNCHANGED vars
  <2>1. P' = P /\ Z' = Z /\ Sent' = Sent /\ \A n \in Sent : mail'[n] = mail[n]
    BY <1>3 DEF vars, P, Z, Sent
  <2>2. QED
    BY <2>1, OwnUnsent
<1>4. QED
  BY <1>1, <1>2, <1>3, Steps

\* Whatever the zone does, the mails that are sent keep the gap between them and the
\* cap, and none is sent in the quiet hours or, unless the clock changes nearby, on a
\* blackout date: decideContactPolicy sends only if none of the rules asks for a later
\* time, and no later mail takes that back.
THEOREM OwnRulesAreKept == Spec => []OwnKept
<1>1. Init => OwnKept
  BY DEF Init, OwnKept, Sent, NoMail
<1>2. QED
  BY <1>1, InitInv, PolicyStep, OwnStep, PTL DEF Spec

\* A mail that is due later than a mail of less priority was sent stays so.
LEMMA RankUnchanged ==
  ASSUME PolicyInv, RankedKept, P' = P, Sent' = Sent, happened \subseteq happened',
         \A n \in Mail : mail'[n] = mail[n]
  PROVE  RankedKept'
<1> SUFFICES ASSUME NEW k \in Sent, NEW n \in Mail,
                    \/ mail'[n].phase \in {"queued", "deferred"}
                    \/ n \in Sent' /\ mail'[n].sentAt > mail'[k].sentAt,
                    P'.rank[Origin[n]] < P'.rank[Origin[k]], mail'[n].queuedAt < mail'[k].sentAt
             PROVE  DueAt(n)' > mail'[k].sentAt \/ "fail" \in happened'
  BY DEF RankedKept, RankKept
<1>1. k \in Mail /\ mail'[k] = mail[k] /\ mail'[n] = mail[n] /\ RankKept(k)
  BY DEF RankedKept, Sent
<1>2. DueAt(n)' = DueAt(n)
  BY <1>1 DEF DueAt
<1>3. QED
  BY <1>1, <1>2 DEF RankKept

LEMMA RankStep ==
  ASSUME PolicyInv, QuietEndsAhead, RankedKept, NEW m \in Mail, Step(m)
  PROVE  RankedKept'
<1>1. PICK r : Changed(m, r) /\ (Comes(m, r) \/ Defers(m, r) \/ Goes(m, r) \/ Ends(m, r) \/ Frees(m, r))
  BY DEF Step
<1>2. /\ now' = now /\ P' = P /\ happened \subseteq happened'
      /\ mail'[m] = r /\ \A n \in Mail \ {m} : mail'[n] = mail[n]
      /\ m \notin Sent /\ \A n \in Sent : mail'[n] = mail[n]
      /\ Sent' = IF r.phase = "sent" THEN Sent \cup {m} ELSE Sent
  BY <1>1, OneChanges
<1>3. now \in Nat /\ \A n \in Sent : n \in Mail /\ mail[n].sentAt \in Int /\ mail[n].sentAt <= now
  BY MailFacts DEF Sent
<1> SUFFICES ASSUME NEW k \in Sent', NEW n \in Mail,
                    \/ mail'[n].phase \in {"queued", "deferred"}
                    \/ n \in Sent' /\ mail'[n].sentAt > mail'[k].sentAt,
                    P'.rank[Origin[n]] < P'.rank[Origin[k]], mail'[n].queuedAt < mail'[k].sentAt
             PROVE  DueAt(n)' > mail'[k].sentAt \/ "fail" \in happened'
  BY DEF RankedKept, RankKept
<1>4. k \in Mail
  BY DEF Sent
<1>5. CASE k = m
  <2>1. Goes(m, r)
    BY <1>1, <1>2, <1>5, Fields DEF Comes, Ends
  <2>2. mail'[k].sentAt = now /\ ~Outranked(m) /\ mail[m].phase # "sent"
    <3>1. mail'[k].sentAt = now
      BY <1>2, <1>5, <2>1, Fields
    <3>2. mail[m].queuedAt # None /\ decideContactPolicy(m).action = "send"
      BY <2>1 DEF Goes
    <3>3. PriorityUntil(m) = now
      BY <3>2, Decision
    <3>4. ~Outranked(m)
      BY <3>3, PriorityFacts
    <3>5. QED
      BY <1>1, <3>1, <3>4 DEF Changed
  <2>3. n # m
    <3>1. P.rank[Origin[m]] \in Int
      BY SetupFacts, ContactPolicyAssumption DEF PolicyInv, Policy
    <3>2. QED
      BY <1>2, <1>5, <3>1
  <2>4. mail'[n] = mail[n] /\ mail[n].phase \in {"queued", "deferred"}
    BY <1>2, <1>3, <2>2, <2>3
  <2>5. ~(DueAt(n) <= now)
    BY <1>2, <1>5, <2>2, <2>3, <2>4 DEF Outranked
  <2>6. DueAt(n) \in Int
    BY <2>4, MailFacts DEF DueAt
  <2>7. DueAt(n)' = DueAt(n)
    BY <2>4 DEF DueAt
  <2>8. QED
    BY <1>3, <2>2, <2>5, <2>6, <2>7
<1>6. CASE k # m
  <2>1. k \in Sent /\ mail'[k] = mail[k] /\ RankKept(k) /\ mail[k].sentAt \in Int /\ mail[k].sentAt <= now
    BY <1>2, <1>3, <1>6 DEF RankedKept
  <2>2. CASE n # m
    <3>1. mail'[n] = mail[n] /\ (n \in Sent' => n \in Sent)
      BY <1>2, <2>2
    <3>2. DueAt(n)' = DueAt(n)
      BY <3>1 DEF DueAt
    <3>3. QED
      BY <1>2, <2>1, <3>1, <3>2 DEF RankKept
  <2>3. CASE n = m
    <3>1. mail'[n] = r /\ (n \in Sent' => r.phase = "sent")
      BY <1>2, <2>3
    <3>2. CASE Comes(m, r)
      <4>1. r.queuedAt = now
        BY <3>1, <3>2 DEF Comes
      <4>2. QED
        BY <1>3, <2>1, <3>1, <4>1
    <3>3. CASE Defers(m, r)
      <4>1. r.notBefore = decideContactPolicy(m).at /\ r.notBefore \in Int /\ r.notBefore > now
        BY <3>3, Fields, Decision DEF Defers
      <4>2. DueAt(n)' = r.notBefore
        BY <3>1, <4>1, DayFacts DEF DueAt
      <4>3. QED
        BY <1>3, <2>1, <4>1, <4>2
    <3>4. CASE Goes(m, r)
      <4>1. r.queuedAt = mail[m].queuedAt /\ r.notBefore = mail[m].notBefore
        BY <3>4, Fields
      <4>2. DueAt(n)' = DueAt(m)
        BY <2>3, <3>1, <4>1 DEF DueAt
      <4>3. CASE mail[m].phase = "failed"
        BY <1>2, <4>3 DEF PolicyInv, Past
      <4>4. CASE mail[m].phase \in {"queued", "deferred"}
        BY <1>2, <2>1, <2>3, <3>1, <4>1, <4>2, <4>4 DEF RankKept
      <4>5. QED
        BY <3>4, <4>3, <4>4 DEF Goes
    <3>5. CASE Ends(m, r)
      BY <3>1, <3>5 DEF Ends
    <3>6. CASE Frees(m, r)
      <4>1. r.queuedAt = mail[m].queuedAt /\ r.notBefore = mail[m].notBefore /\ mail[m].phase = "deferred"
        BY <3>6, Fields DEF Frees
      <4>2. DueAt(n)' = DueAt(m)
        BY <2>3, <3>1, <4>1 DEF DueAt
      <4>3. QED
        BY <1>2, <2>1, <2>3, <3>1, <4>1, <4>2 DEF RankKept
    <3>7. QED
      BY <1>1, <3>2, <3>3, <3>4, <3>5, <3>6
  <2>4. QED
    BY <2>2, <2>3
<1>7. QED
  BY <1>5, <1>6

\* Nor is a mail sent before one of a source with a higher priority that was queued
\* earlier and due, unless that was refused by the provider (higherPriorityPending), if
\* periods of quiet hours end ahead: a deferral to the past would make a mail due
\* before what was sent.
THEOREM RulesAreKept == ASSUME QuietEndsAhead PROVE Spec => []RulesKept
<1>1. Init => RankedKept
  BY DEF Init, RankedKept, Sent, NoMail
<1>2. PolicyInv /\ RankedKept /\ [Next]_vars => RankedKept'
  <2> SUFFICES ASSUME PolicyInv, RankedKept, [Next]_vars PROVE RankedKept'
    OBVIOUS
  <2>1. CASE Tick
    <3>1. UNCHANGED <<setup, mail>> /\ happened \subseteq happened'
      BY <2>1, TickInv
    <3>2. P' = P /\ Sent' = Sent /\ \A n \in Mail : mail'[n] = mail[n]
      BY <3>1 DEF P, Sent
    <3>3. QED
      BY <3>1, <3>2, RankUnchanged
  <2>2. ASSUME NEW m \in Mail, Step(m) PROVE RankedKept'
    BY <2>2, RankStep
  <2>3. CASE UNCHANGED vars
    <3>1. P' = P /\ Sent' = Sent /\ happened \subseteq happened' /\ \A n \in Mail : mail'[n] = mail[n]
      BY <2>3 DEF vars, P, Sent
    <3>2. QED
      BY <3>1, RankUnchanged
  <2>4. QED
    BY <2>1, <2>2, <2>3, Steps
<1>3. OwnKept /\ RankedKept => RulesKept
  BY DEF OwnKept, OwnRules, RankedKept, RulesKept
<1>4. QED
  BY <1>1, <1>2, <1>3, InitInv, PolicyStep, OwnRulesAreKept, PTL DEF Spec

\* A deferral is to a later time, if periods of quiet hours end ahead: whatever rule
\* holds a mail back, decideContactPolicy does not have it dispatched again at once.
THEOREM DeferralsMoveOn == ASSUME QuietEndsAhead PROVE Spec => []DeferralsAdvance
<1>1. ASSUME PolicyInv, NEW m \in Mail, Due(m) PROVE ~Spins(m)
  <2>1. CASE mail[m].phase = "parked"
    BY <2>1 DEF Spins
  <2>2. CASE mail[m].phase # "parked"
    <3>1. mail[m].queuedAt # None /\ now \in Nat
      BY <1>1, <2>2, MailFacts DEF Due
    <3>2. decideContactPolicy(m).action = "defer" =>
            decideContactPolicy(m).at \in Int /\ decideContactPolicy(m).at > now
      BY <1>1, <3>1, Decision
    <3>3. QED
      BY <3>1, <3>2 DEF Spins
  <2>3. QED
    BY <2>1, <2>2
<1>2. PolicyInv => DeferralsAdvance
  BY <1>1 DEF DeferralsAdvance
<1>3. QED
  BY <1>2, InitInv, PolicyStep, PTL DEF Spec

-----------------------------------------------------------------------------
(* Mails are concluded in time.                                            *)

\* The slot of a recipient is no further ahead than a deferral may last.
SlotsFit ==
  \A c \in Case, t \in Nat, s \in Int :
    s <= t /\ (\E m \in c.mails : Origin[m] = "broadcast")
      => recipientSlot(c.zone, s, t) <= t + c.policy.maxHours

\* The time by which a mail is concluded, and the time for which it waits until then.
Limit(m) == (IF P.dates = {} THEN mail[m].queuedAt ELSE Base(m)) + P.maxHours
ConcludeInv ==
  \A m \in Mail :
    mail[m].phase \in {"queued", "deferred"} /\ "late" \notin happened =>
      /\ now <= Limit(m)
      /\ mail[m].notBefore # None => mail[m].notBefore <= Limit(m)

LEMMA SlotFits ==
  ASSUME PolicyInv, SlotsFit, NEW m \in Mail, NEW at, Slotted(m, at)
  PROVE  at \in Int /\ at <= now + P.maxHours
<1>1. PICK s \in Int : s <= now /\ at = Max({now, recipientSlot(Z, s, now)})
  BY DEF Slotted
<1> DEFINE slot == recipientSlot(Z, s, now)
<1>2. now \in Int /\ now \in Nat /\ slot \in Int /\ P.maxHours \in Nat
  BY MailFacts, SlotTyped, SetupFacts DEF PolicyInv
<1>3. slot <= now + P.maxHours
  <2>1. PICK c \in Case : P = c.policy /\ Z = c.zone /\ setup.mails = c.mails
    BY DEF PolicyInv, FromCase, P, Z
  <2>2. QED
    BY <1>1, <1>2, <2>1 DEF SlotsFit, Slotted
<1>4. at = Max({now, slot, slot})
  <2>1. {now, slot} = {now, slot, slot}
    OBVIOUS
  <2>2. QED
    BY <1>1, <2>1
<1> HIDE DEF slot
<1>5. Max({now, slot, slot}) \in {now, slot, slot}
  BY <1>2, MaxOfThree
<1>6. QED
  BY <1>2, <1>3, <1>4, <1>5

LEMMA ConcludeStep ==
  ASSUME PolicyInv, QuietEndsAhead, SlotsFit, ConcludeInv, NEW m \in Mail, Step(m)
  PROVE  ConcludeInv'
<1>1. PICK r : Changed(m, r) /\ (Comes(m, r) \/ Defers(m, r) \/ Goes(m, r) \/ Ends(m, r) \/ Frees(m, r))
  BY DEF Step
<1>2. /\ now' = now /\ P' = P /\ happened \subseteq happened'
      /\ mail'[m] = r /\ \A n \in Mail \ {m} : mail'[n] = mail[n]
  BY <1>1, OneChanges
<1>3. PolicyInv'
  BY <1>1, PutInv DEF Changed
<1>4. now \in Nat
  BY MailFacts
<1> SUFFICES ASSUME NEW n \in Mail, mail'[n].phase \in {"queued", "deferred"}, "late" \notin happened'
             PROVE  /\ now <= Limit(n)'
                    /\ mail'[n].notBefore # None => mail'[n].notBefore <= Limit(n)'
  BY <1>2 DEF ConcludeInv
<1>5. "late" \notin happened
  BY <1>2
<1>6. CASE n # m
  <2>1. mail'[n] = mail[n]
    BY <1>2, <1>6
  <2>2. Limit(n)' = Limit(n)
    BY <1>2, <2>1 DEF Limit, Base
  <2>3. QED
    BY <1>5, <2>1, <2>2 DEF ConcludeInv
<1>7. CASE n = m
  <2>1. mail'[n] = r
    BY <1>2, <1>7
  <2> DEFINE q == r.queuedAt
             e == r.blackoutEndedAt
             b == Base(n)'
  <2>2. /\ q \in Int /\ q <= now /\ e \in Instant /\ (P.dates = {} => e = None) /\ P.maxHours \in Nat
        /\ r.phase \in {"queued", "deferred"}
    <3>1. Good(r) /\ P.maxHours \in Nat
      BY <1>1, SetupFacts DEF Changed, PolicyInv
    <3>2. QED
      BY <1>2, <2>1, <3>1 DEF Good, MailRec, Instant
  <2>3. /\ b \in Int /\ b >= q /\ (e # None => b >= e) /\ (e = None => b = q)
        /\ b = Max({q} \cup ({e} \ {None}))
    <3>1. b = Max({q} \cup ({e} \ {None}))
      BY <2>1 DEF Base
    <3> HIDE DEF b, q, e
    <3>2. QED
      BY <2>2, <3>1, MaxBase
  <2>4. Limit(n)' = b + P.maxHours
    <3>1. Limit(n)' = (IF P.dates = {} THEN q ELSE b) + P.maxHours
      BY <1>2, <2>1 DEF Limit
    <3>2. QED
      BY <2>2, <2>3, <3>1
  <2>5. CASE Comes(m, r)
    <3>1. q = now /\ (r.notBefore = None \/ Slotted(m, r.notBefore))
      BY <2>2, <2>5 DEF Comes
    <3>2. r.notBefore # None => r.notBefore \in Int /\ r.notBefore <= now + P.maxHours
      BY <3>1, SlotFits
    <3> HIDE DEF b
    <3>3. QED
      BY <1>4, <2>1, <2>2, <2>3, <2>4, <3>1, <3>2
  <2>6. CASE Defers(m, r)
    <3> DEFINE d == decideContactPolicy(m)
    <3>1. /\ r.notBefore = d.at /\ q = mail[m].queuedAt /\ mail[m].queuedAt # None
          /\ e = IF d.blackout THEN d.at ELSE mail[m].blackoutEndedAt
          /\ d.at \in Int /\ d.at > now /\ (~d.blackout => d.at <= Base(m) + P.maxHours)
      BY <2>6, Fields, Decision DEF Defers
    <3> HIDE DEF d
    <3>2. CASE d.blackout
      <4>1. e = d.at /\ e # None
        BY <3>1, <3>2, DayFacts
      <4> HIDE DEF b
      <4>2. QED
        BY <1>4, <2>1, <2>2, <2>3, <2>4, <3>1, <4>1
    <3>3. CASE ~d.blackout
      <4>1. b = Base(m)
        BY <2>3, <3>1, <3>3 DEF Base
      <4> HIDE DEF b
      <4>2. QED
        BY <1>4, <2>1, <2>2, <2>3, <2>4, <3>1, <3>3, <4>1
    <3>4. QED
      BY <3>2, <3>3
  <2>7. CASE Frees(m, r)
    <3>1. /\ q = mail[m].queuedAt /\ r.notBefore = mail[m].notBefore /\ e = mail[m].blackoutEndedAt
          /\ mail[m].phase = "deferred"
      BY <2>7, Fields DEF Frees
    <3>2. b = Base(m)
      BY <2>3, <3>1 DEF Base
    <3>3. Limit(n)' = Limit(m)
      <4>1. Limit(m) = (IF P.dates = {} THEN q ELSE b) + P.maxHours
        BY <3>1, <3>2 DEF Limit
      <4> HIDE DEF b, q, e
      <4>2. QED
        BY <2>2, <2>3, <2>4, <4>1
    <3>4. QED
      BY <1>5, <2>1, <3>1, <3>3 DEF ConcludeInv
  <2>8. QED
    BY <1>1, <2>2, <2>5, <2>6, <2>7, Fields DEF Ends
<1>8. QED
  BY <1>6, <1>7

\* Time passes for a mail that is due only if a worker is late.
LEMMA ConcludeTick ==
  ASSUME PolicyInv, QuietEndsAhead, ConcludeInv, Tick
  PROVE  ConcludeInv'
<1>1. UNCHANGED <<setup, mail>> /\ now' = now + 1 /\ happened \subseteq happened' /\ now \in Nat
  BY TickInv, MailFacts, ContactPolicyAssumption DEF PolicyInv, TypeOK
<1> SUFFICES ASSUME NEW m \in Mail, mail[m].phase \in {"queued", "deferred"}, "late" \notin happened'
             PROVE  /\ now + 1 <= Limit(m)'
                    /\ mail[m].notBefore # None => mail[m].notBefore <= Limit(m)'
  BY <1>1 DEF ConcludeInv
<1>2. Limit(m)' = Limit(m)
  BY <1>1 DEF Limit, Base, P
<1>3. now <= Limit(m) /\ (mail[m].notBefore # None => mail[m].notBefore <= Limit(m))
  BY <1>1 DEF ConcludeInv
<1>4. mail[m].queuedAt # None
  BY DEF PolicyInv, TypeOK
<1>5. ~Spins(m)
  <2>1. decideContactPolicy(m).action = "defer" =>
          decideContactPolicy(m).at \in Int /\ decideContactPolicy(m).at > now
    BY <1>4, Decision
  <2>2. QED
    BY <1>1, <2>1 DEF Spins
<1>6. ~Due(m)
  <2>1. ~Spend("late")
    BY DEF Spend
  <2>2. QED
    BY <1>5, <2>1 DEF Tick
<1>7. mail[m].notBefore \in Int /\ mail[m].notBefore > now
  <2>1. mail[m].notBefore # None /\ ~(mail[m].notBefore <= now)
    BY <1>6 DEF Due
  <2>2. QED
    BY <1>1, <2>1, MailFacts
<1>8. Limit(m) \in Int
  <2>1. mail[m].queuedAt \in Int /\ Base(m) \in Int /\ P.maxHours \in Nat
    BY <1>4, MailFacts, BaseFacts, SetupFacts DEF PolicyInv
  <2>2. QED
    BY <2>1 DEF Limit
<1>9. QED
  BY <1>1, <1>2, <1>3, <1>7, <1>8, DayFacts

\* A mail that the policy holds back is sent, deferred or dropped by the time that
\* deferralMaxHours gives it, if periods of quiet hours end ahead, no slot of a broadcast
\* is further than that and no worker is late: a deferral is never past the end of
\* the budget, whose start moves only with a blackout (deferSendForWindow).
THEOREM MailConcludes == ASSUME QuietEndsAhead, SlotsFit PROVE Spec => []ConcludesInTime
<1>1. Init => ConcludeInv
  BY DEF Init, ConcludeInv, NoMail
<1>2. PolicyInv /\ ConcludeInv /\ [Next]_vars => ConcludeInv'
  <2> SUFFICES ASSUME PolicyInv, ConcludeInv, [Next]_vars PROVE ConcludeInv'
    OBVIOUS
  <2>1. CASE Tick
    BY <2>1, ConcludeTick
  <2>2. ASSUME NEW m \in Mail, Step(m) PROVE ConcludeInv'
    BY <2>2, ConcludeStep
  <2>3. CASE UNCHANGED vars
    BY <2>3 DEF vars, ConcludeInv, Limit, Base, P
  <2>4. QED
    BY <2>1, <2>2, <2>3, Steps
<1>3. ConcludeInv => ConcludesInTime
  BY DEF ConcludeInv, ConcludesInTime, Limit
<1>4. QED
  BY <1>1, <1>2, <1>3, InitInv, PolicyStep, PTL DEF Spec

-----------------------------------------------------------------------------
(* The assumptions on the settings hold where one would expect it.         *)

\* Where the clocks never change, every period of quiet hours ends ahead.
LEMMA QuietEndsInFixedZones ==
  ASSUME \A c \in Case : c.zone.by = 0
  PROVE  QuietEndsAhead
<1> SUFFICES ASSUME NEW c \in Case, NEW t \in Nat, c.policy.quiet # None,
                    InQuiet(c.zone, c.policy.quiet, t)
             PROVE  quietPeriodEnd(c.zone, c.policy.quiet, t) > t
  BY DEF QuietEndsAhead
<1> DEFINE z == c.zone
           q == c.policy.quiet
           start == q.start
           end == q.end
           o == z.offset
           clock == Clock(z, t)
           d == LocalDay(z, t) + (IF start > end /\ clock >= start THEN 1 ELSE 0)
           l == d * Day + end
<1>1. /\ z \in Zone /\ z.by = 0 /\ o \in Int
      /\ start \in 0 .. Day - 1 /\ end \in 0 .. Day - 1 /\ start # end
  BY ContactPolicyAssumption DEF Policy, Clock24, Zone
<1>2. \A u \in Int : Off(z, u) = o
  BY <1>1 DEF Off
<1>3. /\ LocalDay(z, t) \in Int /\ clock \in 0 .. Day - 1
      /\ t + o = LocalDay(z, t) * Day + clock
  BY <1>1, <1>2, LocalTyped DEF Local
<1>4. IF start > end THEN clock >= start \/ clock < end ELSE start <= clock /\ clock < end
  BY DEF InQuiet
<1> HIDE DEF clock
<1>5. d \in Int /\ l \in Int
  BY <1>1, <1>3, DayFacts
<1>6. quietPeriodEnd(z, q, t) = l - o
  <2>1. quietPeriodEnd(z, q, t) = UtcFromLocal(z, d, end)
    BY DEF quietPeriodEnd, clock
  <2>2. UtcFromLocal(z, d, end) = l - Off(z, l - Off(z, l))
    BY DEF UtcFromLocal
  <2> HIDE DEF l
  <2>3. QED
    BY <1>1, <1>2, <1>5, <2>1, <2>2
<1>7. l > t + o
  <2> DEFINE day == LocalDay(z, t)
  <2>1. day \in Int /\ (day + 1) * Day = day * Day + Day /\ day * Day \in Int
    BY <1>3, DayFacts
  <2>2. CASE start > end /\ clock >= start
    <3>1. l = (day + 1) * Day + end
      BY <2>2
    <3> HIDE DEF l, day
    <3>2. QED
      BY <1>1, <1>3, <2>1, <3>1, DayFacts DEF day
  <2>3. CASE ~(start > end /\ clock >= start)
    <3>1. l = day * Day + end
      BY <2>1, <2>3
    <3> HIDE DEF l, day
    <3>2. QED
      BY <1>1, <1>3, <1>4, <2>1, <2>3, <3>1, DayFacts DEF day
  <2>4. QED
    BY <2>2, <2>3
<1> HIDE DEF l
<1>8. QED
  BY <1>1, <1>5, <1>6, <1>7

\* A slot is at most two days ahead; deferralMaxHours is three days by default.
LEMMA SlotsFitInTwoDays ==
  ASSUME \A c \in Case : c.policy.maxHours >= 2 * Day
  PROVE  SlotsFit
<1> SUFFICES ASSUME NEW c \in Case, NEW t \in Nat, NEW s \in Int, s <= t
             PROVE  recipientSlot(c.zone, s, t) <= t + c.policy.maxHours
  BY DEF SlotsFit
<1> DEFINE z == c.zone
           o == TzOffset(z, s)
           first == s + o
           ahead == t - TzGrace - first
           days  == (ahead + Day - 1) \div Day
           later == s + days * Day
           slot  == later + TzOffset(z, later)
<1>1. /\ z \in Zone /\ TzGrace \in 0 .. Day - 1 /\ c.policy.maxHours \in Nat
      /\ c.policy.maxHours >= 2 * Day
  BY ContactPolicyAssumption, DeliveryWindowAssumption DEF Policy, Some
<1>2. ASSUME NEW u \in Int PROVE TzOffset(z, u) \in 0 .. Day - 1
  BY <1>1, LocalTyped, DayParts DEF TzOffset
<1>3. o \in 0 .. Day - 1 /\ ahead \in Int
  BY <1>1, <1>2
<1>4. days \in Int /\ days * Day <= ahead + Day - 1 /\ days * Day \in Int
  <2> DEFINE x == ahead + Day - 1
  <2>1. x \in Int
    BY <1>3, DayFacts
  <2>2. days = x \div Day
    OBVIOUS
  <2> HIDE DEF x
  <2>3. days \in Int /\ days * Day <= x /\ days * Day \in Int
    BY <2>1, <2>2, DayParts, DayFacts
  <2>4. QED
    BY <2>3 DEF x
<1>5. later \in Int /\ TzOffset(z, later) \in 0 .. Day - 1
  BY <1>2, <1>4
<1>6. first \in Int /\ first <= t + 2 * Day /\ slot \in Int /\ slot <= t + 2 * Day
  <2>1. first \in Int /\ first <= t + 2 * Day
    BY <1>3, DayFacts
  <2>2. later <= s + (t - TzGrace - (s + o)) + Day - 1
    <3>1. ahead = t - TzGrace - (s + o)
      OBVIOUS
    <3> HIDE DEF ahead, days
    <3>2. QED
      BY <1>4, <3>1, DayFacts
  <2> HIDE DEF later, o
  <2>3. slot \in Int /\ slot <= t + 2 * Day
    BY <1>1, <1>3, <1>5, <2>2, DayFacts
  <2>4. QED
    BY <2>1, <2>3
<1>7. recipientSlot(z, s, t) = IF first >= t - TzGrace THEN first
                               ELSE IF slot < t - TzGrace THEN slot + Day ELSE slot
  BY DEF recipientSlot
<1> HIDE DEF first, slot
<1>8. QED
  BY <1>1, <1>6, <1>7, DayFacts

-----------------------------------------------------------------------------
(* The arithmetic of clocks means what it is for.                          *)

\* A number has one day and one time of it.
LEMMA DayUnique ==
  ASSUME NEW d \in Int, NEW e \in Int, NEW c \in 0 .. Day - 1, NEW f \in 0 .. Day - 1,
         d * Day + c = e * Day + f
  PROVE  d = e /\ c = f
<1>1. d * Day \in Int /\ e * Day \in Int
  BY DayFacts
<1>2. ASSUME d < e PROVE FALSE
  <2>1. (d + 1) * Day <= e * Day
    BY <1>2, DayFacts
  <2>2. (d + 1) * Day = d * Day + Day
    BY DayFacts
  <2>3. QED
    BY <1>1, <2>1, <2>2, DayFacts
<1>3. ASSUME e < d PROVE FALSE
  <2>1. (e + 1) * Day <= d * Day
    BY <1>3, DayFacts
  <2>2. (e + 1) * Day = e * Day + Day
    BY DayFacts
  <2>3. QED
    BY <1>1, <2>1, <2>2, DayFacts
<1>4. d = e
  BY <1>2, <1>3
<1>5. QED
  BY <1>1, <1>4, DayFacts

\* What day it is at t, and what the clock shows.
LEMMA LocalIs ==
  ASSUME NEW z \in Zone, NEW t \in Int, NEW d \in Int, NEW c \in 0 .. Day - 1, Local(z, t) = d * Day + c
  PROVE  LocalDay(z, t) = d /\ Clock(z, t) = c
BY LocalTyped, DayUnique

\* A time of day d, as a number, and the instant that is taken for it.
LEMMA UtcIs ==
  ASSUME NEW z \in Zone, NEW d \in Int, NEW c \in Int
  PROVE  /\ d * Day + c \in Int
         /\ UtcFromLocal(z, d, c) \in Int
         /\ UtcFromLocal(z, d, c) = (d * Day + c) - Off(z, (d * Day + c) - Off(z, d * Day + c))
<1>1. d * Day + c \in Int
  BY DayFacts
<1>2. QED
  BY <1>1, UtcTyped DEF UtcFromLocal

\* A zone and an instant of the run.
Zoned == Z \in Zone /\ Z.by \in -Hour .. Hour /\ now \in Nat

LEMMA ZonedFacts ==
  ASSUME Zoned
  PROVE  /\ Z \in Zone /\ Z.offset \in Int /\ Z.at \in Nat /\ Z.by \in Int /\ -Hour <= Z.by /\ Z.by <= Hour
         /\ now \in Int /\ 0 <= now /\ Hour \in Nat /\ 0 < Hour
BY ContactPolicyAssumption DEF Zoned, Zone, Some

\* A quiet period ends when the clock shows its end, and no earlier.
LEMMA QuietMeans ==
  ASSUME Zoned, NEW q \in [start : Clock24, end : Clock24], q.start # q.end
  PROVE  QuietEnds(q)
<1> SUFFICES ASSUME InQuiet(Z, q, now)
             PROVE  LET end == quietPeriodEnd(Z, q, now)
                    IN  /\ end <= now + Day + Slack(Z, now - Hour, end + Hour)
                        /\ Slack(Z, now - Hour, end + Hour) = 0 =>
                             end > now /\ ~InQuiet(Z, q, end) /\ \A u \in now .. end - 1 : InQuiet(Z, q, u)
  BY DEF QuietEnds
<1> DEFINE start == q.start
           last  == q.end
           clock == Clock(Z, now)
           today == LocalDay(Z, now)
           day   == today + (IF start > last /\ clock >= start THEN 1 ELSE 0)
           l     == day * Day + last
           end   == quietPeriodEnd(Z, q, now)
           local == Local(Z, now)
<1>1. start \in 0 .. Day - 1 /\ last \in 0 .. Day - 1 /\ start # last
  BY DEF Clock24
<1>2. /\ today \in Int /\ clock \in 0 .. Day - 1 /\ local \in Int
      /\ local = today * Day + clock /\ local = now + Off(Z, now)
  BY ZonedFacts, LocalTyped DEF Local
<1>3. IF start > last THEN clock >= start \/ clock < last ELSE start <= clock /\ clock < last
  BY DEF InQuiet
<1>4. day \in Int /\ l \in Int /\ end \in Int /\ end = l - Off(Z, l - Off(Z, l))
  <2> HIDE DEF clock, today
  <2>1. day \in Int
    BY <1>2
  <2>2. end = UtcFromLocal(Z, day, last)
    BY DEF quietPeriodEnd, clock, today
  <2> HIDE DEF day, end
  <2>3. QED
    BY <1>1, <2>1, <2>2, ZonedFacts, UtcIs
\* The times of the clock from now to the end.
<1>5. /\ local < l /\ l < local + Day
      /\ \A k \in Int : local <= k /\ k < l =>
           \E d \in Int, c \in 0 .. Day - 1 :
             k = d * Day + c /\ (IF start > last THEN c >= start \/ c < last ELSE start <= c /\ c < last)
  <2> HIDE DEF clock, today, local
  <2>1. (today + 1) * Day = today * Day + Day /\ today * Day \in Int
    BY <1>2, DayFacts
  <2>2. CASE start > last /\ clock >= start
    <3>1. day = today + 1
      BY <2>2, <1>2
    <3>2. l = today * Day + Day + last
      BY <2>1, <3>1
    <3> HIDE DEF l, day
    <3>3. local < l /\ l < local + Day
      BY <1>1, <1>2, <2>1, <2>2, <3>2, DayFacts
    <3>4. ASSUME NEW k \in Int, local <= k, k < l
          PROVE \E d \in Int, c \in 0 .. Day - 1 :
             k = d * Day + c /\ (IF start > last THEN c >= start \/ c < last ELSE start <= c /\ c < last)
      <4>1. CASE k < today * Day + Day
        <5>1. k - today * Day \in 0 .. Day - 1 /\ k - today * Day >= start
          BY <1>1, <1>2, <2>1, <2>2, <3>4, <4>1, DayFacts
        <5>2. k = today * Day + (k - today * Day)
          BY <2>1
        <5>3. QED
          BY <1>1, <1>2, <2>2, <5>1, <5>2
      <4>2. CASE k >= today * Day + Day
        <5> DEFINE c == k - (today * Day + Day)
        <5>1. c \in 0 .. Day - 1 /\ c < last
          BY <1>1, <1>2, <2>1, <3>2, <3>4, <4>2, DayFacts
        <5>2. k = (today + 1) * Day + c /\ today + 1 \in Int
          BY <1>2, <2>1, DayFacts
        <5> HIDE DEF c
        <5>3. QED
          BY <1>1, <2>2, <5>1, <5>2
      <4>3. QED
        BY <2>1, <3>4, <4>1, <4>2, DayFacts
    <3>5. QED
      BY <3>3, <3>4
  <2>3. CASE ~(start > last /\ clock >= start)
    <3>1. day = today
      BY <2>3, <1>2
    <3>2. l = today * Day + last
      BY <3>1
    <3> HIDE DEF l, day
    <3>3. local < l /\ l < local + Day
      BY <1>1, <1>2, <1>3, <2>1, <2>3, <3>2, DayFacts
    <3>4. ASSUME NEW k \in Int, local <= k, k < l
          PROVE \E d \in Int, c \in 0 .. Day - 1 :
             k = d * Day + c /\ (IF start > last THEN c >= start \/ c < last ELSE start <= c /\ c < last)
      <4> DEFINE c == k - today * Day
      <4>1. c \in 0 .. Day - 1 /\ c < last /\ clock <= c
        BY <1>1, <1>2, <2>1, <3>2, <3>4, DayFacts
      <4>2. k = today * Day + c
        BY <2>1
      <4> HIDE DEF c
      <4>3. QED
        BY <1>1, <1>2, <1>3, <2>3, <4>1, <4>2
    <3>5. QED
      BY <3>3, <3>4
  <2>4. QED
    BY <2>2, <2>3
<1> HIDE DEF l, end, local
<1>6. end <= now + Day + Slack(Z, now - Hour, end + Hour)
  BY <1>2, <1>4, <1>5, ZonedFacts, DayFacts DEF Off, Slack
<1>7. ASSUME Slack(Z, now - Hour, end + Hour) = 0
      PROVE  end > now /\ ~InQuiet(Z, q, end) /\ \A u \in now .. end - 1 : InQuiet(Z, q, u)
  <2>1. end > now /\ end + Off(Z, end) = l
    BY <1>2, <1>4, <1>5, <1>7, ZonedFacts, DayFacts DEF Off, Slack
  <2>2. Clock(Z, end) = last
    <3>1. Local(Z, end) = day * Day + last
      BY <2>1 DEF Local, l
    <3> HIDE DEF day, last
    <3>2. QED
      BY <1>1, <1>4, <3>1, ZonedFacts, LocalIs
  <2>3. ~InQuiet(Z, q, end)
    BY <1>1, <2>2, DayFacts DEF InQuiet
  <2>4. ASSUME NEW u \in now .. end - 1 PROVE InQuiet(Z, q, u)
    <3>1. u \in Int /\ local <= Local(Z, u) /\ Local(Z, u) < l /\ Local(Z, u) \in Int
      BY <1>2, <1>4, <1>5, <1>7, <2>1, ZonedFacts, DayFacts DEF Off, Slack, Local
    <3>2. PICK d \in Int, c \in 0 .. Day - 1 :
            /\ Local(Z, u) = d * Day + c
            /\ IF start > last THEN c >= start \/ c < last ELSE start <= c /\ c < last
      BY <1>5, <3>1
    <3>3. Clock(Z, u) = c
      BY <3>1, <3>2, ZonedFacts, LocalIs
    <3>4. QED
      BY <3>2, <3>3 DEF InQuiet
  <2>5. QED
    BY <2>1, <2>3, <2>4
<1>8. QED
  BY <1>6, <1>7 DEF end

\* A multiple of the day changes no clock: (-k) % Day is the way from k to one.
LEMMA RoundUp ==
  ASSUME NEW k \in Int
  PROVE  /\ (-k) % Day \in 0 .. Day - 1
         /\ \E m \in Int : ((-k) % Day) + k = m * Day
<1>1. -k \in Int
  OBVIOUS
<1>2. (-k) % Day \in 0 .. Day - 1 /\ (-k) \div Day \in Int /\ -k = ((-k) \div Day) * Day + ((-k) % Day)
  BY <1>1, DayParts
<1> DEFINE n == (-k) \div Day
<1>3. n \in Int /\ n * Day \in Int /\ (-n) * Day = -(n * Day)
  BY <1>2, DayFacts
<1>4. ((-k) % Day) + k = (-n) * Day
  BY <1>2, <1>3, DayFacts
<1>5. QED
  BY <1>2, <1>3, <1>4

\* A broadcast reaches a recipient at the next moment that their clock shows its time.
LEMMA SlotMeans ==
  ASSUME Zoned, NEW s \in Int
  PROVE  SlotHonoured(s)
<1> DEFINE off   == TzOffset(Z, s)
           first == s + off
           days  == ((now - TzGrace - first) + Day - 1) \div Day
           later == s + days * Day
           next  == later + TzOffset(Z, later)
           slot  == recipientSlot(Z, s, now)
           from  == Max({s, now - TzGrace})
<1>1. slot = IF first >= now - TzGrace THEN first ELSE IF next < now - TzGrace THEN next + Day ELSE next
  BY DEF recipientSlot
<1>2. TzGrace \in Int /\ 0 <= TzGrace /\ TzGrace < Day
  BY DeliveryWindowAssumption
<1>3. \A u \in Int : /\ TzOffset(Z, u) \in 0 .. Day - 1
                     /\ \E m \in Int : TzOffset(Z, u) + Off(Z, u) = m * Day
  BY ZonedFacts, LocalTyped, RoundUp DEF TzOffset
<1>4. off \in 0 .. Day - 1 /\ first \in Int /\ s <= first /\ first < s + Day
  BY <1>3, DayFacts
<1>5. from \in Int /\ s <= from /\ now - TzGrace <= from /\ (from = s \/ from = now - TzGrace)
  <2>1. {s, now - TzGrace} \in SUBSET Int /\ {s, now - TzGrace} # {}
    BY <1>2, ZonedFacts
  <2>2. \E b \in Int : \A t \in {s, now - TzGrace} : t <= b
    BY <1>2, ZonedFacts
  <2>3. from \in {s, now - TzGrace} /\ \A t \in {s, now - TzGrace} : t <= from
    BY <2>1, <2>2, BoundedMax
  <2>4. QED
    BY <1>2, <2>3, ZonedFacts
<1> DEFINE x == (now - TzGrace - first) + Day - 1
<1>6. /\ days \in Int /\ days * Day \in Int /\ x \in Int
      /\ days * Day <= x /\ x < days * Day + Day
  <2>1. x \in Int
    BY <1>2, <1>4, ZonedFacts, DayFacts
  <2>2. days = x \div Day
    OBVIOUS
  <2> HIDE DEF x
  <2>3. QED
    BY <2>1, <2>2, DayParts, DayFacts
<1>7. later \in Int /\ next \in Int /\ later <= next /\ next < later + Day
  <2>1. later \in Int
    BY <1>6
  <2> HIDE DEF later
  <2>2. QED
    BY <1>3, <2>1, DayFacts
<1>8. first < now - TzGrace => 0 <= days /\ s <= later
  <2>1. days < 0 => days * Day <= -Day
    BY <1>6, DayFacts
  <2>2. 0 <= days => 0 <= days * Day
    BY <1>6, DayFacts
  <2> HIDE DEF days, first
  <2>3. QED
    BY <1>2, <1>4, <1>6, <2>1, <2>2, ZonedFacts, DayFacts
<1>9. first + days * Day \in Int /\ later = s + days * Day
  BY <1>4, <1>6
<1>10. slot \in Int
  BY ZonedFacts, SlotTyped
<1> HIDE DEF slot, from, off, days, later, next
<1>11. slot >= from
  BY <1>1, <1>2, <1>4, <1>5, <1>6, <1>7, <1>8, <1>9, ZonedFacts, DayFacts DEF first, x
<1>12. ASSUME Slack(Z, s, slot + Day) = 0
       PROVE  slot = Min({u \in from .. from + Day : Clock(Z, u) = s % Day})
  <2> DEFINE k == Off(Z, s)
  <2>1. \A u \in Int : s <= u /\ u <= slot + Day => Off(Z, u) = k
    BY <1>10, <1>12, ZonedFacts, DayFacts DEF Off, Slack
  <2>2. k \in Int
    BY ZonedFacts, LocalTyped
  <2> HIDE DEF k
  <2>3. PICK m \in Int : off + k = m * Day
    BY <1>3 DEF off, k
  <2>4. first < now - TzGrace => next = later + off
    <3>1. ASSUME first < now - TzGrace PROVE later <= slot + Day
      BY <1>1, <1>2, <1>4, <1>7, <1>10, <3>1, ZonedFacts, DayFacts
    <3>2. first < now - TzGrace => Off(Z, later) = k
      BY <1>7, <1>8, <2>1, <3>1
    <3>3. QED
      BY <3>2 DEF next, TzOffset, off, k
  \* The slot is the time of the schedule, some days later.
  <2>5. \E n \in Int : slot + k = s + n * Day /\ slot < from + Day
    <3>1. CASE first >= now - TzGrace
      <4>1. slot + k = s + m * Day /\ slot < from + Day
        BY <1>1, <1>4, <1>5, <2>2, <2>3, <3>1, DayFacts
      <4>2. QED
        BY <4>1
    <3>2. CASE first < now - TzGrace
      <4>1. next >= now - TzGrace
        BY <1>2, <1>4, <1>6, <1>7, <1>9, <2>4, <3>2, ZonedFacts, DayFacts DEF first, x
      <4>2. slot = later + off
        BY <1>1, <1>2, <1>4, <1>7, <2>4, <3>2, <4>1, ZonedFacts
      <4>3. m * Day + days * Day = (m + days) * Day /\ m + days \in Int /\ m * Day \in Int
        BY <1>6, <2>3, DayFacts
      <4>4. slot + k = s + (m + days) * Day
        BY <1>4, <1>6, <1>9, <2>2, <2>3, <4>2, <4>3
      <4>5. slot < from + Day
        BY <1>2, <1>4, <1>5, <1>6, <1>9, <3>2, <4>2, ZonedFacts, DayFacts DEF first, x
      <4>6. QED
        BY <4>3, <4>4, <4>5
    <3>3. QED
      BY <1>2, <1>4, <3>1, <3>2, ZonedFacts
  <2>6. PICK n \in Int : slot + k = s + n * Day /\ slot < from + Day
    BY <2>5
  <2>7. s \div Day \in Int /\ s % Day \in 0 .. Day - 1 /\ s = (s \div Day) * Day + (s % Day)
    BY DayParts
  <2> DEFINE d == s \div Day
             c == s % Day
  <2> HIDE DEF d, c
  <2>8. d \in Int /\ c \in 0 .. Day - 1 /\ s = d * Day + c
    BY <2>7 DEF d, c
  <2>9. d * Day + n * Day = (d + n) * Day /\ d + n \in Int /\ (d + n) * Day \in Int
    BY <2>6, <2>8, DayFacts
  <2>10. Clock(Z, slot) = c
    <3>1. Local(Z, slot) = (d + n) * Day + c
      <4>1. Off(Z, slot) = k
        BY <1>4, <1>5, <1>10, <1>11, <2>1, DayFacts
      <4>2. QED
        BY <1>10, <2>2, <2>6, <2>8, <2>9, <4>1, DayFacts DEF Local
    <3>2. QED
      BY <1>10, <2>8, <2>9, <3>1, ZonedFacts, LocalIs
  <2> DEFINE U == {u \in from .. from + Day : Clock(Z, u) = s % Day}
  <2>11. slot \in U
    BY <1>5, <1>10, <1>11, <2>6, <2>10, DayFacts DEF c
  <2>12. ASSUME NEW u \in U PROVE slot <= u
    <3>1. SUFFICES ASSUME u < slot PROVE FALSE
      BY <1>5, <1>10
    <3>2. u \in Int /\ s <= u /\ u <= slot + Day /\ slot < u + Day /\ Clock(Z, u) = c
      BY <1>5, <1>10, <2>6, <3>1, DayFacts DEF c
    <3>3. Local(Z, u) = u + k /\ Local(Z, u) = LocalDay(Z, u) * Day + c /\ LocalDay(Z, u) \in Int
      BY <2>1, <3>2, ZonedFacts, LocalTyped DEF Local
    <3> DEFINE e == LocalDay(Z, u)
    <3> HIDE DEF e
    <3>4. e \in Int /\ u + k = e * Day + c /\ e * Day \in Int
      BY <3>3, DayFacts DEF e
    <3>5. slot + k = (d + n) * Day + c
      BY <2>2, <2>6, <2>8, <2>9, DayFacts
    <3>6. (d + n) * Day > e * Day /\ (d + n) * Day < e * Day + Day
      BY <1>10, <2>2, <2>8, <2>9, <3>1, <3>2, <3>4, <3>5, DayFacts
    <3>7. e * Day + Day = (e + 1) * Day
      BY <3>4, DayFacts
    <3>8. d + n > e => (e + 1) * Day <= (d + n) * Day
      BY <2>9, <3>4, DayFacts
    <3>9. d + n <= e => (d + n) * Day <= e * Day
      BY <2>9, <3>4, DayFacts
    <3>10. QED
      BY <2>9, <3>4, <3>6, <3>7, <3>8, <3>9, DayFacts
  <2>13. Min(U) = slot
    <3>1. U \in SUBSET Int /\ \A u \in U : slot <= u
      BY <1>5, <2>12, DayFacts
    <3> HIDE DEF U
    <3>2. Min(U) \in U /\ Min(U) <= slot
      BY <1>10, <2>11, <3>1, BoundedMin
    <3>3. Min(U) \in Int /\ slot <= Min(U)
      BY <3>1, <3>2
    <3>4. QED
      BY <1>10, <3>2, <3>3
  <2>14. QED
    BY <2>13
<1>13. QED
  BY <1>11, <1>12 DEF SlotHonoured, slot, from

\* The sizes of the source: the grace is an hour (runner/delivery-window.ts:19), and
\* what an hour and the grace may do to a time is small against a day.
LEMMA SizedFacts ==
  /\ Grace \in Int /\ 0 <= Grace /\ Hour \in Int /\ 0 < Hour /\ Day \in Int
  /\ Hour <= Grace /\ Grace + 2 * Hour < Day
BY ContactPolicyAssumption, DeliveryWindowAssumption, ClockSizes DEF Some

\* The instant that is taken for a time of the local clock.
Utc(l) == l - Off(Z, l - Off(Z, l))

LEMMA UtcFacts ==
  ASSUME Zoned, NEW l \in Int
  PROVE  /\ Utc(l) \in Int
         /\ \A u \in Int : l - Off(Z, u) - Hour <= Utc(l) /\ Utc(l) <= l - Off(Z, u) + Hour
         /\ Local(Z, Utc(l)) \in Int /\ l - Hour <= Local(Z, Utc(l)) /\ Local(Z, Utc(l)) <= l + Hour
BY ZonedFacts DEF Utc, Off, Local

\* It is that very time where the clock does not change nearby.
LEMMA UtcSteady ==
  ASSUME Zoned, NEW l \in Int, NEW a \in Int, NEW b \in Int, NEW u \in a .. b, Slack(Z, a, b) = 0,
         Utc(l) \in a + Hour .. b - Hour \/ l - Off(Z, u) \in a + Hour .. b - Hour
  PROVE  Utc(l) = l - Off(Z, u) /\ Local(Z, Utc(l)) = l
BY ZonedFacts DEF Utc, Off, Local, Slack

\* A later time is not taken for an earlier instant, but for the hour.
LEMMA UtcOrder ==
  ASSUME Zoned, NEW l \in Int, NEW m \in Int, l <= m, NEW a \in Int, NEW b \in Int, a <= b
  PROVE  /\ Utc(l) <= Utc(m) + Hour
         /\ Slack(Z, a, b) # 0 => Utc(l) <= Utc(m) + Slack(Z, a, b)
BY ZonedFacts DEF Utc, Off, Slack

LEMMA SlackFacts ==
  ASSUME Zoned, NEW a \in Int, NEW b \in Int
  PROVE  /\ Slack(Z, a, b) \in 0 .. Hour
         /\ Slack(Z, a, b) # 0 =>
              /\ a <= Z.at /\ Z.at <= b
              /\ \A l, u \in Int : Utc(l) >= l - Off(Z, u) - Slack(Z, a, b)
         /\ Slack(Z, a, b) = 0 =>
              /\ \A u, v \in a .. b : Off(Z, u) = Off(Z, v)
              /\ \A c, d \in Int : a <= c /\ d <= b => Slack(Z, c, d) = 0
BY ZonedFacts DEF Utc, Off, Slack

\* Saturday and Sunday become the Monday after them.
LEMMA Monday ==
  ASSUME Zoned, NEW t \in Int
  PROVE  LET d == LocalDay(Z, t)  r == OffWeekend(Z, t) IN
         /\ r \in Int /\ r >= t
         /\ ~Weekend(d) => r = t
         /\ Weekend(d) => \/ ~Weekend(d + 1) /\ r = Utc(Local(Z, t) + Day)
                          \/ Weekend(d + 1) /\ ~Weekend(d + 2) /\ r = Utc(Local(Z, t) + 2 * Day)
<1> DEFINE d == LocalDay(Z, t)
           c == Clock(Z, t)
           r == OffWeekend(Z, t)
           l == Local(Z, t)
<1>1. /\ d \in Int /\ c \in 0 .. Day - 1 /\ l \in Int /\ l = d * Day + c /\ l = t + Off(Z, t)
      /\ r = IF Weekend(d) THEN UtcFromLocal(Z, d + 5 - (d % 7), c) ELSE t
  BY ZonedFacts, LocalTyped DEF OffWeekend, Local
<1> HIDE DEF d, c, r, l
<1>2. (d + 1) * Day = d * Day + Day /\ (d + 2) * Day = d * Day + 2 * Day /\ d * Day \in Int
  BY <1>1, DayFacts
<1>3. Weekend(d) => \/ d + 5 - (d % 7) = d + 1 /\ ~Weekend(d + 1)
                    \/ d + 5 - (d % 7) = d + 2 /\ Weekend(d + 1) /\ ~Weekend(d + 2)
  BY <1>1 DEF Weekend
<1>4. Weekend(d) => \/ ~Weekend(d + 1) /\ r = Utc(l + Day)
                    \/ Weekend(d + 1) /\ ~Weekend(d + 2) /\ r = Utc(l + 2 * Day)
  <2>1. UtcFromLocal(Z, d + 1, c) = Utc((d + 1) * Day + c) /\ UtcFromLocal(Z, d + 2, c) = Utc((d + 2) * Day + c)
    BY DEF UtcFromLocal, Utc
  <2>2. (d + 1) * Day + c = l + Day /\ (d + 2) * Day + c = l + 2 * Day
    BY <1>1, <1>2, DayFacts
  <2>3. QED
    BY <1>1, <1>3, <2>1, <2>2
<1>5. r \in Int
  BY <1>1, ZonedFacts, OffWeekendTyped DEF r
<1>6. Utc(l + Day) >= t /\ Utc(l + 2 * Day) >= t
  BY <1>1, ZonedFacts, SizedFacts DEF Utc, Off
<1>7. QED
  BY <1>1, <1>4, <1>5, <1>6 DEF d, r, l

\* The three shifts, where the clock does not change: to the next day that is no weekend.
LEMMA Workday ==
  ASSUME Zoned, NEW t \in Int
  PROVE  LET r == OffWeekend(Z, OffWeekend(Z, OffWeekend(Z, t)))
             d == LocalDay(Z, t) IN
         /\ r \in Int /\ r >= t
         /\ ~Weekend(d) => r = t
         /\ Slack(Z, t, r + Hour) = 0 => \E k \in 0 .. 2 :
              /\ r = t + k * Day /\ Local(Z, r) = Local(Z, t) + k * Day
              /\ LocalDay(Z, r) = d + k /\ ~Weekend(d + k)
              /\ \A i \in d .. d + k - 1 : Weekend(i)
<1> DEFINE d  == LocalDay(Z, t)
           r1 == OffWeekend(Z, t)
           r2 == OffWeekend(Z, r1)
           r  == OffWeekend(Z, r2)
<1>1. r1 \in Int /\ r1 >= t /\ (~Weekend(d) => r1 = t)
  BY Monday
<1>2. r2 \in Int /\ r2 >= r1 /\ (~Weekend(LocalDay(Z, r1)) => r2 = r1)
  <2> HIDE DEF r1
  <2>1. QED
    BY <1>1, Monday
<1>3. r \in Int /\ r >= r2 /\ (~Weekend(LocalDay(Z, r2)) => r = r2)
  <2> HIDE DEF r2
  <2>1. QED
    BY <1>2, Monday
<1>4. d \in Int /\ Clock(Z, t) \in 0 .. Day - 1 /\ Local(Z, t) = d * Day + Clock(Z, t) /\ Local(Z, t) \in Int
  BY ZonedFacts, LocalTyped
<1>5. ASSUME Slack(Z, t, r + Hour) = 0
      PROVE  \E k \in 0 .. 2 : /\ r = t + k * Day /\ Local(Z, r) = Local(Z, t) + k * Day
                               /\ LocalDay(Z, r) = d + k /\ ~Weekend(d + k)
                               /\ \A i \in d .. d + k - 1 : Weekend(i)
  <2>1. CASE ~Weekend(d)
    <3>1. r1 = t
      BY <1>1, <2>1
    <3>2. r2 = t
      BY <1>2, <2>1, <3>1
    <3>3. r = t
      BY <1>3, <2>1, <3>2
    <3> HIDE DEF r
    <3>4. r = t + 0 * Day /\ Local(Z, r) = Local(Z, t) + 0 * Day /\ LocalDay(Z, r) = d + 0 /\ d + 0 = d
      BY <1>4, <3>3, DayFacts
    <3>5. \A i \in d .. d + 0 - 1 : Weekend(i)
      BY <1>4
    <3> HIDE DEF d
    <3>6. 0 \in 0 .. 2 /\ ~Weekend(d + 0)
      BY <2>1, <3>4
    <3>7. QED
      BY <3>4, <3>5, <3>6
  <2>2. CASE Weekend(d)
    <3>1. PICK k \in 1 .. 2 : /\ r1 = Utc(Local(Z, t) + k * Day) /\ ~Weekend(d + k)
                              /\ \A i \in d .. d + k - 1 : Weekend(i)
      <4>1. \/ ~Weekend(d + 1) /\ r1 = Utc(Local(Z, t) + Day)
            \/ Weekend(d + 1) /\ ~Weekend(d + 2) /\ r1 = Utc(Local(Z, t) + 2 * Day)
        BY <2>2, Monday
      <4> HIDE DEF r1, d
      <4>2. CASE ~Weekend(d + 1) /\ r1 = Utc(Local(Z, t) + Day)
        <5>1. \A i \in d .. d + 1 - 1 : i = d
          BY <1>4
        <5>2. 1 * Day = Day /\ 1 \in 1 .. 2
          BY DayFacts
        <5>3. QED
          BY <2>2, <4>2, <5>1, <5>2
      <4>3. CASE Weekend(d + 1) /\ ~Weekend(d + 2) /\ r1 = Utc(Local(Z, t) + 2 * Day)
        <5>1. \A i \in d .. d + 2 - 1 : i = d \/ i = d + 1
          BY <1>4
        <5>2. 2 \in 1 .. 2
          OBVIOUS
        <5>3. QED
          BY <2>2, <4>3, <5>1, <5>2
      <4>4. QED
        BY <4>1, <4>2, <4>3
    <3> DEFINE l == Local(Z, t) + k * Day
    <3>2. k * Day \in Int /\ Day <= k * Day /\ l \in Int /\ (d + k) * Day = d * Day + k * Day
      BY <1>4, DayFacts
    <3>3. r1 = l - Off(Z, t) /\ Local(Z, r1) = l
      <4>1. r1 = Utc(l)
        BY <3>1
      <4> HIDE DEF l, r, r1, r2
      <4>2. t \in t .. r + Hour /\ Local(Z, t) = t + Off(Z, t)
        BY <1>1, <1>2, <1>3, ZonedFacts DEF Local
      <4>3. Utc(l) \in t + Hour .. (r + Hour) - Hour
        <5>1. Utc(l) >= l - Off(Z, t) - Hour
          BY <3>2, UtcFacts, ZonedFacts, LocalTyped
        <5>2. l - Off(Z, t) >= t + Day
          BY <1>4, <3>2, <4>2, DayFacts, ZonedFacts, LocalTyped DEF l
        <5>3. QED
          BY <1>1, <1>2, <1>3, <3>2, <4>1, <5>1, <5>2, ZonedFacts, SizedFacts, LocalTyped
      <4> DEFINE b == r + Hour
      <4>4. b \in Int /\ Slack(Z, t, b) = 0 /\ t \in t .. b /\ Utc(l) \in t + Hour .. b - Hour
        BY <1>3, <1>5, <4>2, <4>3, ZonedFacts
      <4> HIDE DEF b
      <4>5. Utc(l) = l - Off(Z, t) /\ Local(Z, Utc(l)) = l
        BY <3>2, <4>4, UtcSteady
      <4>6. QED
        BY <4>1, <4>5
    <3>4. LocalDay(Z, r1) = d + k
      <4>1. l = (d + k) * Day + Clock(Z, t)
        BY <1>4, <3>2, DayFacts
      <4> HIDE DEF l, r1
      <4>2. d + k \in Int /\ Local(Z, r1) = (d + k) * Day + Clock(Z, t)
        BY <1>4, <3>3, <4>1
      <4>3. QED
        BY <1>1, <1>4, <4>2, ZonedFacts, LocalIs
    <3>5. r = r1
      <4>1. r2 = r1
        BY <1>2, <3>1, <3>4
      <4>2. QED
        BY <1>3, <3>1, <3>4, <4>1
    <3>6. r = t + k * Day
      <4>1. Local(Z, t) = t + Off(Z, t) /\ Off(Z, t) \in Int
        BY ZonedFacts, LocalTyped DEF Local
      <4> HIDE DEF r, r1
      <4>2. QED
        BY <1>4, <3>2, <3>3, <3>5, <4>1
    <3>7. QED
      BY <3>1, <3>3, <3>4, <3>5, <3>6
  <2>3. QED
    BY <2>1, <2>2
<1>6. ~Weekend(d) => r = t
  BY <1>1, <1>2, <1>3
<1>7. r >= t
  BY <1>1, <1>2, <1>3
<1>8. QED
  BY <1>3, <1>5, <1>6, <1>7

\* The slot of a day, and its place on the line of local time.
LEMMA SlotFacts ==
  ASSUME Zoned, NEW w \in Window, w.slot # None, NEW d \in Int
  PROVE  /\ w.slot \in 0 .. Day - 1 /\ d * Day + w.slot \in Int
         /\ SlotOf(Z, w, d) = Utc(d * Day + w.slot) /\ SlotOf(Z, w, d) \in Int
<1>1. w.slot \in 0 .. Day - 1
  BY DeliveryWindowAssumption DEF Window, Clocks
<1>2. d * Day + w.slot \in Int
  BY <1>1, DayFacts
<1>3. QED
  BY <1>1, <1>2, UtcFacts DEF SlotOf, UtcFromLocal, Utc

\* Where the clock does not change nearby, a slot that is close to t is the one that
\* the clock of that day shows.
LEMMA SlotSteady ==
  ASSUME Zoned, NEW w \in Window, w.slot # None, NEW d \in Int, NEW a \in Int, NEW b \in Int,
         NEW u \in a .. b, Slack(Z, a, b) = 0,
         \/ SlotOf(Z, w, d) \in a + Hour .. b - Hour
         \/ (d * Day + w.slot) - Off(Z, u) \in a + Hour .. b - Hour
  PROVE  /\ SlotOf(Z, w, d) = (d * Day + w.slot) - Off(Z, u)
         /\ LocalDay(Z, SlotOf(Z, w, d)) = d
<1> DEFINE l == d * Day + w.slot
           s == SlotOf(Z, w, d)
<1>1. w.slot \in 0 .. Day - 1 /\ l \in Int /\ s = Utc(l) /\ s \in Int
  BY SlotFacts
<1> HIDE DEF s
<1>2. s = l - Off(Z, u) /\ Local(Z, s) = l
  <2> HIDE DEF l
  <2>1. Utc(l) \in a + Hour .. b - Hour \/ l - Off(Z, u) \in a + Hour .. b - Hour
    BY <1>1 DEF l, s
  <2>2. QED
    BY <1>1, <2>1, UtcSteady
<1>3. LocalDay(Z, s) = d
  BY <1>1, <1>2, ZonedFacts, LocalIs
<1>4. QED
  BY <1>2, <1>3 DEF s

\* The start of the day after a time is after it.
LEMMA NextDayAhead ==
  ASSUME Zoned, NEW u \in Int, NEW d \in Int, LocalDay(Z, u) < d
  PROVE  /\ startOfLocalDay(Z, d) \in Int /\ d * Day \in Int
         /\ Local(Z, u) < d * Day /\ Utc(d * Day) <= startOfLocalDay(Z, d)
         /\ Slack(Z, u - Hour, u + Hour) = 0 => u < startOfLocalDay(Z, d)
<1>1. /\ Local(Z, u) = LocalDay(Z, u) * Day + Clock(Z, u) /\ Clock(Z, u) \in 0 .. Day - 1
      /\ LocalDay(Z, u) \in Int /\ Local(Z, u) \in Int /\ Local(Z, u) = u + Off(Z, u)
  BY ZonedFacts, LocalTyped DEF Local
<1> DEFINE e == LocalDay(Z, u)
           l == d * Day
<1>2. l \in Int
  BY DayFacts
<1>3. Local(Z, u) < l
  <2> HIDE DEF e
  <2>1. e \in Int /\ (e + 1) * Day <= d * Day /\ (e + 1) * Day = e * Day + Day
    BY <1>1, DayFacts DEF e
  <2>2. QED
    BY <1>1, <2>1, DayFacts DEF e
<1>4. startOfLocalDay(Z, d) \in Int /\ startOfLocalDay(Z, d) >= Utc(l)
  <2>1. UtcFromLocal(Z, d, 0) = Utc(l)
    BY <1>2 DEF UtcFromLocal, Utc
  <2>2. QED
    BY <2>1, ZonedFacts, DayStarts
<1> HIDE DEF l
<1>5. Slack(Z, u - Hour, u + Hour) = 0 => u < Utc(l)
  BY <1>1, <1>2, <1>3, ZonedFacts DEF Utc, Off, Slack
<1>6. QED
  BY <1>2, <1>3, <1>4, <1>5, UtcFacts DEF l

\* When computeDeliveryTime makes a time of its window, and where the clock does not change from a
\* day before t to a day after that.
Meets(w, t, at) ==
  /\ at >= t /\ Open(Z, w, at)
  /\ Open(Z, w, t) => at = t
  /\ \A d \in {i \in LocalDay(Z, t) .. LocalDay(Z, at) : ~(w.weekdays /\ Weekend(i))} :
       IF w.slot = None THEN at <= startOfLocalDay(Z, d + 1)
       ELSE SlotOf(Z, w, d) >= t => at <= SlotOf(Z, w, d) + Grace
  /\ w.slot # None /\ at # t => Within(at, SlotOf(Z, w, LocalDay(Z, at)))

LEMMA AnyTimeSteady ==
  ASSUME Zoned, NEW w \in Window, w.slot = None, NEW t \in Int,
         Slack(Z, t - Day, computeDeliveryTime(Z, w, t) + Day) = 0
  PROVE  Meets(w, t, computeDeliveryTime(Z, w, t))
<1> DEFINE at == computeDeliveryTime(Z, w, t)
           day == LocalDay(Z, t)
<1>1. at = IF w.weekdays THEN OffWeekend(Z, OffWeekend(Z, OffWeekend(Z, t))) ELSE t
  BY DEF computeDeliveryTime
<1>2. at \in Int /\ day \in Int /\ LocalDay(Z, at) \in Int
  BY ZonedFacts, DeliveryTyped, LocalTyped
<1> HIDE DEF at
<1>3. at >= t
  BY <1>1, Workday
<1>4. Slack(Z, t, at + Hour) = 0 /\ Slack(Z, at - Hour, at + Hour) = 0
  BY <1>2, <1>3, ZonedFacts, SizedFacts DEF Slack, at
<1>5. /\ w.weekdays => ~Weekend(LocalDay(Z, at))
      /\ w.weekdays /\ ~Weekend(day) => at = t
      /\ \A d \in day .. LocalDay(Z, at) : ~(w.weekdays /\ Weekend(d)) => d = LocalDay(Z, at)
  <2>1. CASE w.weekdays
    <3>1. at = OffWeekend(Z, OffWeekend(Z, OffWeekend(Z, t)))
      BY <1>1, <2>1
    <3>2. PICK k \in 0 .. 2 : /\ LocalDay(Z, at) = day + k /\ ~Weekend(day + k)
                              /\ \A i \in day .. day + k - 1 : Weekend(i)
      BY <1>4, <3>1, Workday
    <3>3. ~Weekend(day) => at = t
      BY <3>1, Workday
    <3> HIDE DEF day
    <3>4. QED
      BY <1>2, <2>1, <3>2, <3>3
  <2>2. CASE ~w.weekdays
    BY <1>1, <1>2, <2>2
  <2>3. QED
    BY <2>1, <2>2 DEF Window
<1>6. at <= startOfLocalDay(Z, LocalDay(Z, at) + 1)
  <2>1. LocalDay(Z, at) < LocalDay(Z, at) + 1 /\ LocalDay(Z, at) + 1 \in Int
    BY <1>2
  <2>2. at < startOfLocalDay(Z, LocalDay(Z, at) + 1) /\ startOfLocalDay(Z, LocalDay(Z, at) + 1) \in Int
    BY <1>2, <1>4, <2>1, NextDayAhead
  <2>3. QED
    BY <1>2, <2>2
<1>7. Open(Z, w, at)
  BY <1>5 DEF Open
<1>8. Open(Z, w, t) => at = t
  BY <1>1, <1>5 DEF Open
<1>9. QED
  BY <1>3, <1>5, <1>6, <1>7, <1>8 DEF Meets, at

LEMMA SlotTimeSteady ==
  ASSUME Zoned, NEW w \in Window, w.slot # None, NEW t \in Int,
         Slack(Z, t - Day, computeDeliveryTime(Z, w, t) + Day) = 0
  PROVE  Meets(w, t, computeDeliveryTime(Z, w, t))
<1> DEFINE at  == computeDeliveryTime(Z, w, t)
           day == LocalDay(Z, t)
           local == Local(Z, t)
           l  == day * Day + w.slot
           sm == SlotOf(Z, w, day - 1)
           s0 == SlotOf(Z, w, day)
           s1 == SlotOf(Z, w, day + 1)
           n  == NextSlot(Z, w, t)
           a  == t - Day
           b  == at + Day
           k0 == Off(Z, t)
<1>1. /\ day \in Int /\ local \in Int /\ k0 \in Int /\ local = t + k0
      /\ \E c \in 0 .. Day - 1 : local = day * Day + c
      /\ w.slot \in 0 .. Day - 1 /\ day * Day \in Int
  <2>1. /\ day \in Int /\ local \in Int /\ k0 \in Int
        /\ Clock(Z, t) \in 0 .. Day - 1 /\ local = day * Day + Clock(Z, t)
    BY ZonedFacts, LocalTyped
  <2>2. local = t + k0
    BY DEF Local
  <2>3. w.slot \in 0 .. Day - 1 /\ day * Day \in Int
    BY <2>1, SlotFacts, DayFacts
  <2> HIDE DEF day, local, k0
  <2>4. QED
    BY <2>1, <2>2, <2>3
<1>2. /\ l \in Int /\ local - Day < l /\ l < local + Day
      /\ (day - 1) * Day + w.slot = l - Day /\ (day + 1) * Day + w.slot = l + Day
  <2> HIDE DEF day, local
  <2>1. (day - 1) * Day = day * Day - Day /\ (day + 1) * Day = day * Day + Day
    BY <1>1, DayFacts
  <2>2. QED
    BY <1>1, <2>1, DayFacts
<1>3. sm = Utc(l - Day) /\ s0 = Utc(l) /\ s1 = Utc(l + Day)
  <2>1. day - 1 \in Int /\ day + 1 \in Int
    BY <1>1
  <2> HIDE DEF day, l
  <2>2. QED
    BY <1>1, <1>2, <2>1, SlotFacts DEF l
<1>4. sm \in Int /\ s0 \in Int /\ s1 \in Int
  BY <1>2, <1>3, UtcFacts, DayFacts
<1>5. /\ FromYesterday(Z, w, t) <=> Within(t, sm) /\ (w.weekdays => ~Weekend(LocalDay(Z, sm)))
      /\ n = CASE t < s0 -> s0 [] Within(t, s0) -> t [] t > s0 + Grace -> s1
      /\ at = IF FromYesterday(Z, w, t) THEN t
              ELSE IF w.weekdays THEN OffWeekend(Z, OffWeekend(Z, OffWeekend(Z, n))) ELSE n
  <2>1. FromYesterday(Z, w, t) <=> Within(t, sm) /\ (w.weekdays => ~Weekend(LocalDay(Z, sm)))
    BY DEF FromYesterday, SlotOf
  <2>2. n = CASE t < s0 -> s0 [] Within(t, s0) -> t [] t > s0 + Grace -> s1
    BY DEF NextSlot, SlotOf
  <2>3. at = IF FromYesterday(Z, w, t) THEN t
             ELSE IF w.weekdays THEN OffWeekend(Z, OffWeekend(Z, OffWeekend(Z, n))) ELSE n
    BY DEF computeDeliveryTime
  <2>4. QED
    BY <2>1, <2>2, <2>3
<1>6. at \in Int /\ Slack(Z, a, b) = 0
  BY ZonedFacts, DeliveryTyped
<1> HIDE DEF at, day, local, sm, s0, s1, n, l, k0
<1>7. /\ t < s0 => n = s0
      /\ s0 <= t /\ t <= s0 + Grace => n = t
      /\ s0 + Grace < t => n = s1
      /\ n \in Int
  BY <1>4, <1>5, SizedFacts DEF Within
\* The slot of yesterday, if it is within the grace, is that of its day.
<1>8. ASSUME Within(t, sm), at >= t PROVE LocalDay(Z, sm) = day - 1
  <2>1. sm \in a + Hour .. b - Hour /\ t \in a .. b /\ a \in Int /\ b \in Int
    BY <1>4, <1>6, <1>8, SizedFacts DEF Within
  <2>2. day - 1 \in Int
    BY <1>1
  <2> HIDE DEF a, b
  <2>3. QED
    BY <1>6, <2>1, <2>2, SlotSteady DEF sm
<1>9. CASE FromYesterday(Z, w, t)
  <2>1. at = t /\ Within(t, sm) /\ (w.weekdays => ~Weekend(LocalDay(Z, sm)))
    BY <1>5, <1>9
  <2>2. LocalDay(Z, sm) = day - 1
    BY <1>8, <2>1, <1>6
  <2>3. Open(Z, w, at)
    BY <2>1, <2>2 DEF Open, sm, day
  <2>4. \A d \in day .. LocalDay(Z, at) : SlotOf(Z, w, d) \in Int
    BY <1>1, SlotFacts
  <2>5. \A d \in day .. LocalDay(Z, at) : SlotOf(Z, w, d) >= t => at <= SlotOf(Z, w, d) + Grace
    BY <2>1, <2>4, SizedFacts
  <2>6. QED
    BY <1>6, <2>1, <2>3, <2>5 DEF Meets, at, day
<1>10. CASE ~FromYesterday(Z, w, t)
  <2>1. at = IF w.weekdays THEN OffWeekend(Z, OffWeekend(Z, OffWeekend(Z, n))) ELSE n
    BY <1>5, <1>10
  <2>2. at >= n
    BY <1>7, <2>1, Workday
  \* What the next slot is, on which day.
  <2>3. /\ t < s0 => s0 = l - k0 /\ LocalDay(Z, s0) = day
        /\ Within(t, s0) => s0 = l - k0
        /\ s0 + Grace < t => s1 = l + Day - k0 /\ LocalDay(Z, s1) = day + 1 /\ t < s1
    <3>1. a \in Int /\ b \in Int /\ (at >= t => t \in a .. b)
      BY <1>6, SizedFacts
    <3>2. l - k0 > t - Day /\ l + Day - k0 > t
      BY <1>1, <1>2, DayFacts
    <3>3. /\ l - k0 - Hour <= s0 /\ s0 <= l - k0 + Hour
          /\ l + Day - k0 - Hour <= s1 /\ s1 <= l + Day - k0 + Hour
      <4>1. /\ l - k0 - Hour <= Utc(l) /\ Utc(l) <= l - k0 + Hour
        BY <1>2, UtcFacts DEF k0
      <4> DEFINE m == l + Day
      <4>2. m \in Int
        BY <1>2, DayFacts
      <4> HIDE DEF m
      <4>3. m - k0 - Hour <= Utc(m) /\ Utc(m) <= m - k0 + Hour
        BY <4>2, UtcFacts DEF k0
      <4>4. QED
        <5>1. l + Day - k0 - Hour <= s1 /\ s1 <= l + Day - k0 + Hour
          BY <1>1, <1>2, <1>3, <1>4, <4>2, <4>3, SizedFacts DEF m
        <5>2. QED
          BY <1>3, <4>1, <5>1
    <3>4. ASSUME t < s0 PROVE s0 = l - k0 /\ LocalDay(Z, s0) = day
      <4>1. t \in a .. b /\ s0 \in a + Hour .. b - Hour
        BY <1>4, <1>6, <1>7, <2>2, <3>1, <3>4, SizedFacts
      <4> HIDE DEF a, b
      <4>2. QED
        BY <1>1, <1>6, <3>1, <4>1, SlotSteady DEF s0, l, k0
    <3>5. ASSUME Within(t, s0) PROVE s0 = l - k0
      <4>1. t \in a .. b /\ s0 \in a + Hour .. b - Hour
        BY <1>4, <1>6, <1>7, <2>2, <3>1, <3>5, SizedFacts DEF Within
      <4> HIDE DEF a, b
      <4>2. QED
        BY <1>1, <1>6, <3>1, <4>1, SlotSteady DEF s0, l, k0
    <3>6. ASSUME s0 + Grace < t PROVE s1 = l + Day - k0 /\ LocalDay(Z, s1) = day + 1 /\ t < s1
      <4>1. s1 >= t - Hour + 1 /\ at >= s1
        BY <1>1, <1>2, <1>4, <1>6, <1>7, <2>2, <3>2, <3>3, <3>6, SizedFacts
      <4>2. Slack(Z, a, b) = 0 /\ a \in Int /\ b \in Int /\ s1 \in a + Hour .. b - Hour
        BY <1>4, <1>6, <3>1, <4>1, SizedFacts
      \* It cannot be before t: the clock would have changed in between.
      <4>3. at >= t
        <5>1. SUFFICES ASSUME at < t PROVE FALSE
          BY <1>6
        <5> DEFINE m == l + Day
        <5>2. m \in Int /\ s1 = Utc(m) /\ m > local
          BY <1>2, <1>3, <1>1, DayFacts DEF m
        <5> HIDE DEF m
        <5>3. at < t /\ s1 <= at /\ t <= b /\ a <= s1 - Hour /\ s1 + Hour <= b
          BY <1>6, <4>1, <4>2, <5>1, SizedFacts
        <5>4. Utc(m) > t
          BY <1>1, <1>6, <5>2, <5>3, <4>2, ZonedFacts DEF Utc, Off, Slack, k0
        <5>5. QED
          BY <1>4, <1>6, <5>2, <5>3, <5>4
      <4>4. t \in a .. b /\ day + 1 \in Int
        BY <1>1, <3>1, <4>3
      <4> HIDE DEF a, b
      <4>5. s1 = ((day + 1) * Day + w.slot) - Off(Z, t) /\ LocalDay(Z, s1) = day + 1
        BY <4>2, <4>4, SlotSteady DEF s1
      <4>6. QED
        BY <1>1, <1>2, <3>2, <4>5, DayFacts DEF k0
    <3>7. QED
      BY <3>4, <3>5, <3>6
  <2>4. n >= t
    BY <1>4, <1>7, <2>3, SizedFacts DEF Within
  <2>5. at >= t
    BY <1>6, <1>7, <2>2, <2>4
  <2>6. PICK e \in {day, day + 1} : /\ LocalDay(Z, n) = e
                                    /\ e * Day + w.slot - k0 <= n /\ n <= e * Day + w.slot - k0 + Grace
                                    /\ e = day + 1 => s0 + Grace < t
    <3>1. CASE t < s0
      BY <1>1, <1>4, <1>7, <2>3, <3>1, SizedFacts DEF l
    <3>2. CASE Within(t, s0)
      BY <1>1, <1>4, <1>7, <2>3, <3>2, SizedFacts DEF l, Within, day
    <3>3. CASE s0 + Grace < t
      <4>1. (day + 1) * Day + w.slot - k0 = n
        BY <1>1, <1>2, <1>7, <2>3, <3>3, DayFacts
      <4>2. QED
        BY <1>7, <2>3, <3>3, <4>1, SizedFacts
    <3>4. QED
      BY <1>4, <3>1, <3>2, <3>3, SizedFacts DEF Within
  <2>7. PICK k \in 0 .. 2 : /\ at = n + k * Day /\ LocalDay(Z, at) = e + k
                            /\ w.weekdays => ~Weekend(e + k) /\ \A i \in e .. e + k - 1 : Weekend(i)
                            /\ ~w.weekdays => k = 0
    <3>1. CASE w.weekdays
      <4>1. Slack(Z, n, at + Hour) = 0
        BY <1>6, <1>7, <2>2, <2>4, ZonedFacts, SizedFacts DEF Slack
      <4>2. QED
        BY <1>7, <2>1, <2>6, <3>1, <4>1, Workday
    <3>2. CASE ~w.weekdays
      <4>1. at = n + 0 * Day /\ e + 0 = e /\ 0 \in 0 .. 2
        BY <1>1, <1>7, <2>1, <2>6, <3>2, DayFacts
      <4>2. QED
        BY <2>1, <2>6, <3>2, <4>1
    <3>3. QED
      BY <3>1, <3>2
  <2> DEFINE f == e + k
             s == SlotOf(Z, w, f)
  <2>8. f \in Int /\ s \in Int /\ s <= at /\ at <= s + Grace
    <3>1. f \in Int /\ (e + k) * Day = e * Day + k * Day /\ e * Day \in Int /\ k * Day \in Int
      BY <1>1, DayFacts
    <3>2. f * Day + w.slot - k0 <= at /\ at <= f * Day + w.slot - k0 + Grace
      BY <1>1, <1>7, <2>6, <2>7, <3>1, SizedFacts
    <3>3. t \in a .. b /\ a \in Int /\ b \in Int
      BY <1>6, <2>5, SizedFacts
    <3> HIDE DEF f
    <3>4. f * Day \in Int
      BY <3>1, DayFacts
    <3>5. (f * Day + w.slot) - Off(Z, t) \in a + Hour .. b - Hour
      BY <1>1, <1>6, <2>5, <3>2, <3>4, SizedFacts DEF k0
    <3> HIDE DEF a, b
    <3>6. s = (f * Day + w.slot) - Off(Z, t)
      <4> DEFINE lf == f * Day + w.slot
      <4>1. lf \in Int /\ s = Utc(lf) /\ lf - Off(Z, t) \in a + Hour .. b - Hour
        BY <3>1, <3>5, SlotFacts
      <4> HIDE DEF lf, s
      <4>2. Utc(lf) = lf - Off(Z, t)
        BY <1>6, <3>3, <4>1, UtcSteady
      <4>3. QED
        BY <4>1, <4>2 DEF lf
    <3>7. QED
      BY <1>1, <3>1, <3>2, <3>4, <3>6, SlotFacts DEF k0
  <2> HIDE DEF f, s
  <2>9. Open(Z, w, at)
    <3>1. Within(at, SlotOf(Z, w, f)) /\ (w.weekdays => ~Weekend(f)) /\ f = LocalDay(Z, at)
      BY <2>7, <2>8 DEF f, s, Within
    <3>2. QED
      BY <3>1 DEF Open
  <2>10. ASSUME Open(Z, w, t) PROVE at = t
    <3>1. PICK d \in {day - 1, day} : Within(t, SlotOf(Z, w, d)) /\ (w.weekdays => ~Weekend(d))
      BY <2>10 DEF Open, day
    <3>2. d = day
      <4>1. ASSUME d = day - 1 PROVE FALSE
        BY <1>5, <1>8, <1>10, <2>5, <3>1, <4>1 DEF sm
      <4>2. QED
        BY <3>1, <4>1
    <3>3. n = t
      BY <1>4, <1>7, <3>1, <3>2 DEF Within, s0
    <3>4. w.weekdays => ~Weekend(LocalDay(Z, n))
      BY <3>1, <3>2, <3>3 DEF day
    <3>5. QED
      BY <2>1, <1>7, <3>3, <3>4, Workday
  <2>11. ASSUME NEW d \in day .. LocalDay(Z, at), ~(w.weekdays /\ Weekend(d)), SlotOf(Z, w, d) >= t
         PROVE  at <= SlotOf(Z, w, d) + Grace
    <3>1. d = f
      <4>1. d \in Int /\ d <= f /\ (d = day \/ d >= e)
        BY <1>1, <2>6, <2>7, <2>8, <2>11 DEF f
      <4>2. ASSUME e <= d, d < f PROVE FALSE
        <5>1. CASE w.weekdays
          BY <1>1, <2>6, <2>7, <2>11, <4>1, <4>2, <5>1 DEF f
        <5>2. CASE ~w.weekdays
          BY <1>1, <2>6, <2>7, <4>1, <4>2, <5>2 DEF f
        <5>3. QED
          BY <5>1, <5>2
      <4>3. ASSUME d < e PROVE FALSE
        <5>1. d = day /\ e = day + 1
          BY <1>1, <2>6, <4>1, <4>3
        <5>2. QED
          BY <1>4, <2>6, <2>11, <5>1, SizedFacts DEF s0
      <4>4. QED
        BY <1>1, <2>6, <2>8, <4>1, <4>2, <4>3
    <3>2. QED
      BY <2>8, <3>1 DEF s
  <2>12. Within(at, SlotOf(Z, w, LocalDay(Z, at)))
    BY <2>7, <2>8 DEF f, s, Within
  <2>13. QED
    BY <2>5, <2>9, <2>10, <2>11, <2>12 DEF Meets, at, day
<1>11. QED
  BY <1>9, <1>10

\* Weekends where the clock does change: the shifts end on the Monday or the day after.
LEMMA WorkdayRough ==
  ASSUME Zoned, NEW t \in Int, NEW d \in Int,
         LET r == OffWeekend(Z, OffWeekend(Z, OffWeekend(Z, t)))
         IN  d \in LocalDay(Z, t) .. LocalDay(Z, r) /\ ~Weekend(d)
  PROVE  LET r == OffWeekend(Z, OffWeekend(Z, OffWeekend(Z, t)))
         IN  r = t \/ \E m \in Int : m < (d + 1) * Day /\ r = Utc(m)
<1> DEFINE r1 == OffWeekend(Z, t)
           r2 == OffWeekend(Z, r1)
           r  == OffWeekend(Z, r2)
           day == LocalDay(Z, t)
\* The time u was shifted to Monday x.
           From(x, u) == \E m \in Int : x * Day <= m /\ m < (x + 1) * Day /\ u = Utc(m)
<1>1. /\ day \in Int /\ Local(Z, t) \in Int
      /\ day * Day <= Local(Z, t) /\ Local(Z, t) < day * Day + Day /\ day * Day \in Int
  BY ZonedFacts, LocalTyped, DayFacts
<1>2. r1 \in Int /\ r2 \in Int
  <2>1. r1 \in Int
    BY Monday
  <2> HIDE DEF r1
  <2>2. QED
    BY <2>1, Monday
<1>3. CASE ~Weekend(day)
  <2>1. r1 = t
    BY <1>3, Monday
  <2>2. r2 = t
    BY <1>3, <2>1, Monday
  <2>3. r = t
    BY <1>3, <2>2, Monday
  <2>4. QED
    BY <2>3
<1>4. CASE Weekend(day)
  <2>1. PICK x \in Int : /\ ~Weekend(x) /\ Weekend(x - 1) /\ From(x, r1)
                         /\ \A i \in day .. x - 1 : Weekend(i)
    <3>1. CASE ~Weekend(day + 1) /\ r1 = Utc(Local(Z, t) + Day)
      <4> DEFINE m == Local(Z, t) + Day
      <4>1. /\ (day + 1) * Day = day * Day + Day /\ (day + 1 + 1) * Day = day * Day + 2 * Day
            /\ m \in Int /\ day + 1 \in Int /\ day + 1 - 1 = day
        BY <1>1, DayFacts
      <4>2. (day + 1) * Day <= m /\ m < (day + 1 + 1) * Day
        BY <1>1, <4>1, DayFacts
      <4>3. \A i \in day .. day + 1 - 1 : i = day
        BY <1>1
      <4> HIDE DEF m, r1, day, From
      <4>4. From(day + 1, r1)
        BY <3>1, <4>1, <4>2 DEF m, From
      <4>5. ~Weekend(day + 1) /\ Weekend(day + 1 - 1) /\ \A i \in day .. day + 1 - 1 : Weekend(i)
        BY <1>4, <3>1, <4>1, <4>3
      <4> DEFINE x == day + 1
      <4>6. x \in Int /\ ~Weekend(x) /\ From(x, r1)
        BY <4>1, <4>4, <4>5
      <4>7. Weekend(x - 1) /\ \A i \in day .. x - 1 : Weekend(i)
        BY <1>1, <4>5
      <4> HIDE DEF x
      <4>8. QED
        BY <4>6, <4>7
    <3>2. CASE Weekend(day + 1) /\ ~Weekend(day + 2) /\ r1 = Utc(Local(Z, t) + 2 * Day)
      <4> DEFINE m == Local(Z, t) + 2 * Day
      <4>1. /\ (day + 2) * Day = day * Day + 2 * Day /\ (day + 2 + 1) * Day = day * Day + 3 * Day
            /\ m \in Int /\ day + 2 \in Int /\ day + 2 - 1 = day + 1
        BY <1>1, DayFacts
      <4>2. (day + 2) * Day <= m /\ m < (day + 2 + 1) * Day
        BY <1>1, <4>1, DayFacts
      <4>3. \A i \in day .. day + 2 - 1 : i = day \/ i = day + 1
        BY <1>1
      <4> HIDE DEF m, r1, day, From
      <4>4. From(day + 2, r1)
        BY <3>2, <4>1, <4>2 DEF m, From
      <4>5. ~Weekend(day + 2) /\ Weekend(day + 2 - 1) /\ \A i \in day .. day + 2 - 1 : Weekend(i)
        BY <1>4, <3>2, <4>1, <4>3
      <4> DEFINE x == day + 2
      <4>6. x \in Int /\ ~Weekend(x) /\ From(x, r1)
        BY <4>1, <4>4, <4>5
      <4>7. Weekend(x - 1) /\ \A i \in day .. x - 1 : Weekend(i)
        BY <1>1, <4>5
      <4> HIDE DEF x
      <4>8. QED
        BY <4>6, <4>7
    <3>3. QED
      BY <1>4, <3>1, <3>2, Monday
  \* A second shift is from the Sunday to the same Monday, if the clock went back over midnight.
  <2>2. ASSUME NEW u \in Int, From(x, u) PROVE From(x, OffWeekend(Z, u))
    <3>1. PICK m \in Int : x * Day <= m /\ m < (x + 1) * Day /\ u = Utc(m)
      BY <2>2
    <3> DEFINE v == LocalDay(Z, u)
               p == Local(Z, u)
    <3>2. /\ v \in Int /\ p \in Int /\ v * Day \in Int /\ v * Day <= p /\ p < v * Day + Day
          /\ m - Hour <= p /\ p <= m + Hour
      <4>1. m - Hour <= p /\ p <= m + Hour
        BY <3>1, UtcFacts
      <4>2. v \in Int /\ p \in Int /\ Clock(Z, u) \in 0 .. Day - 1 /\ p = v * Day + Clock(Z, u)
        BY ZonedFacts, LocalTyped
      <4> HIDE DEF v, p
      <4>3. v * Day \in Int
        BY <4>2, DayFacts
      <4>4. QED
        BY <4>1, <4>2, <4>3, DayFacts
    <3>3. /\ (x + 1) * Day = x * Day + Day /\ (x - 1) * Day = x * Day - Day /\ x * Day \in Int
          /\ (v + 1) * Day = v * Day + Day
      BY <3>2, DayFacts
    <3> HIDE DEF v, p
    <3>4. v = x - 1 \/ v = x \/ v = x + 1
      <4>1. v >= x - 1
        <5>1. v < x - 1 => (v + 1) * Day <= (x - 1) * Day
          BY <3>2, DayFacts
        <5>2. QED
          BY <3>1, <3>2, <3>3, <5>1, SizedFacts
      <4>2. v <= x + 1
        <5>1. v > x + 1 => (x + 2) * Day <= v * Day
          BY <3>2, DayFacts
        <5>2. (x + 2) * Day = x * Day + 2 * Day
          BY DayFacts
        <5>3. QED
          BY <3>1, <3>2, <3>3, <5>1, <5>2, SizedFacts
      <4>3. QED
        BY <3>2, <4>1, <4>2
    <3>5. CASE v = x - 1
      <4>1. OffWeekend(Z, u) = Utc(p + Day)
        <5>1. v + 1 = x
          BY <3>2, <3>5
        <5>2. Weekend(v) /\ ~Weekend(v + 1)
          BY <2>1, <3>5, <5>1
        <5>3. QED
          BY <5>2, Monday DEF v, p
      <4>2. p + Day \in Int /\ x * Day <= p + Day /\ p + Day < (x + 1) * Day
        BY <3>2, <3>3, <3>5, DayFacts
      <4>3. QED
        BY <4>1, <4>2
    <3>6. CASE v = x \/ v = x + 1
      <4>1. ~Weekend(v)
        BY <2>1, <3>6 DEF Weekend
      <4>2. OffWeekend(Z, u) = u
        BY <4>1, Monday DEF v
      <4>3. QED
        BY <2>2, <4>2
    <3>7. QED
      BY <3>4, <3>5, <3>6
  <2>3. From(x, r)
    <3>1. From(x, r1)
      BY <2>1
    <3> HIDE DEF From, r1
    <3>2. From(x, r2)
      BY <1>2, <2>2, <3>1
    <3> HIDE DEF r2
    <3>3. QED
      BY <1>2, <2>2, <3>2
  <2>4. x <= d
    BY <1>1, <2>1
  <2>5. (x + 1) * Day <= (d + 1) * Day /\ (x + 1) * Day \in Int /\ (d + 1) * Day \in Int
    BY <2>4, DayFacts
  <2>6. QED
    <3> HIDE DEF r
    <3>1. PICK m \in Int : m < (x + 1) * Day /\ r = Utc(m)
      BY <2>3
    <3>2. m < (d + 1) * Day
      BY <2>5, <3>1
    <3>3. QED
      BY <3>1, <3>2 DEF r
<1>5. QED
  BY <1>3, <1>4

\* What is left of WindowHonoured where the clock does change.
LEMMA AnyTimeRough ==
  ASSUME Zoned, NEW w \in Window, w.slot = None, NEW t \in Int, NEW e \in 0 .. Hour,
         e = Slack(Z, t - Day, computeDeliveryTime(Z, w, t) + Day), e # 0
  PROVE  LET at == computeDeliveryTime(Z, w, t) IN
         /\ at >= t - e
         /\ ~w.weekdays => \E u \in at - e .. at + e : Open(Z, w, u)
         /\ \A d \in LocalDay(Z, t) .. LocalDay(Z, at) :
              ~(w.weekdays /\ Weekend(d)) => at <= startOfLocalDay(Z, d + 1) + e
<1> DEFINE at == computeDeliveryTime(Z, w, t)
<1>1. at = IF w.weekdays THEN OffWeekend(Z, OffWeekend(Z, OffWeekend(Z, t))) ELSE t
  BY DEF computeDeliveryTime
<1>2. at \in Int /\ e \in Int /\ 0 <= e /\ e <= Hour /\ Hour \in Int /\ LocalDay(Z, at) \in Int /\ LocalDay(Z, t) \in Int
  BY ZonedFacts, DeliveryTyped, LocalTyped
<1>3. at >= t
  BY <1>1, Workday
<1>4. ~w.weekdays => \E u \in at - e .. at + e : Open(Z, w, u)
  <2> HIDE DEF at
  <2>1. at \in at - e .. at + e
    BY <1>2
  <2>2. QED
    BY <2>1 DEF Open
<1>5. ASSUME NEW d \in LocalDay(Z, t) .. LocalDay(Z, at), ~(w.weekdays /\ Weekend(d))
      PROVE  at <= startOfLocalDay(Z, d + 1) + e
  <2> DEFINE start == startOfLocalDay(Z, d + 1)
             l == (d + 1) * Day
             a == t - Day
             b == at + Day
  <2>1. d \in Int /\ d + 1 \in Int /\ LocalDay(Z, t) < d + 1
    BY <1>2, <1>5
  <2>2. start \in Int /\ l \in Int /\ Local(Z, t) < l /\ Utc(l) <= start
    <3> HIDE DEF at
    <3>1. QED
      BY <2>1, NextDayAhead
  <2>3. a \in Int /\ b \in Int /\ a <= b /\ e = Slack(Z, a, b)
    BY <1>2, <1>3, SizedFacts
  <2>4. at = t \/ \E m \in Int : m < l /\ at = Utc(m)
    <3>1. CASE w.weekdays
      BY <1>1, <1>5, <2>1, <3>1, WorkdayRough
    <3>2. CASE ~w.weekdays
      BY <1>1, <3>2
    <3>3. QED
      BY <3>1, <3>2
  <2> HIDE DEF at, start, l, a, b
  <2>5. CASE at = t
    <3>1. Utc(l) >= l - Off(Z, t) - e
      BY <2>2, <2>3, SlackFacts
    <3>2. Local(Z, t) = t + Off(Z, t) /\ Off(Z, t) \in Int /\ Utc(l) \in Int
      BY <2>2, ZonedFacts, LocalTyped, UtcFacts DEF Local
    <3>3. at <= start + e
      BY <1>2, <2>2, <2>5, <3>1, <3>2
    <3>4. QED
      BY <3>3 DEF at, start
  <2>6. CASE \E m \in Int : m < l /\ at = Utc(m)
    <3>1. PICK m \in Int : m < l /\ at = Utc(m)
      BY <2>6
    <3>2. m <= l /\ Utc(l) \in Int
      BY <2>2, <3>1, UtcFacts
    <3>3. at <= Utc(l) + e
      BY <2>2, <2>3, <3>1, <3>2, UtcOrder
    <3>4. at <= start + e
      BY <1>2, <2>2, <3>2, <3>3
    <3>5. QED
      BY <3>4 DEF at, start
  <2>7. QED
    BY <2>4, <2>5, <2>6
<1>6. QED
  BY <1>2, <1>3, <1>4, <1>5

LEMMA SlotTimeRough ==
  ASSUME Zoned, NEW w \in Window, w.slot # None, NEW t \in Int, NEW e \in 0 .. Hour,
         e = Slack(Z, t - Day, computeDeliveryTime(Z, w, t) + Day), e # 0
  PROVE  LET at == computeDeliveryTime(Z, w, t) IN
         /\ at >= t - e
         /\ ~w.weekdays => /\ \E u \in at - e .. at + e : Open(Z, w, u)
                           /\ \A d \in LocalDay(Z, t) .. LocalDay(Z, at) :
                                SlotOf(Z, w, d) >= t - e => at <= SlotOf(Z, w, d) + Grace + e
<1> DEFINE at  == computeDeliveryTime(Z, w, t)
           day == LocalDay(Z, t)
           local == Local(Z, t)
           l  == day * Day + w.slot
           sm == SlotOf(Z, w, day - 1)
           s0 == SlotOf(Z, w, day)
           s1 == SlotOf(Z, w, day + 1)
           n  == NextSlot(Z, w, t)
           a  == t - Day
           b  == at + Day
           k0 == Off(Z, t)
           c  == Clock(Z, t)
<1>1. /\ day \in Int /\ local \in Int /\ k0 \in Int /\ local = t + k0
      /\ c \in 0 .. Day - 1 /\ local = day * Day + c
      /\ w.slot \in 0 .. Day - 1 /\ day * Day \in Int
  <2>1. /\ day \in Int /\ local \in Int /\ k0 \in Int
        /\ Clock(Z, t) \in 0 .. Day - 1 /\ local = day * Day + Clock(Z, t)
    BY ZonedFacts, LocalTyped
  <2>2. local = t + k0
    BY DEF Local
  <2>3. w.slot \in 0 .. Day - 1 /\ day * Day \in Int
    BY <2>1, SlotFacts, DayFacts
  <2> HIDE DEF day, local, k0
  <2>4. QED
    BY <2>1, <2>2, <2>3
<1>2. /\ l \in Int /\ local - Day < l /\ l < local + Day
      /\ (day + 1) * Day + w.slot = l + Day /\ (day + 1) * Day = day * Day + Day
  <2> HIDE DEF day, local, c
  <2>1. (day + 1) * Day = day * Day + Day
    BY <1>1, DayFacts
  <2>2. QED
    BY <1>1, <2>1, DayFacts
<1>3. s0 = Utc(l) /\ s1 = Utc(l + Day)
  <2>1. day + 1 \in Int
    BY <1>1
  <2> HIDE DEF day, l
  <2>2. QED
    BY <1>1, <1>2, <2>1, SlotFacts DEF l
<1>4. s0 \in Int /\ s1 \in Int
  BY <1>2, <1>3, UtcFacts, DayFacts
<1>5. /\ FromYesterday(Z, w, t) => Within(t, sm)
      /\ n = CASE t < s0 -> s0 [] Within(t, s0) -> t [] t > s0 + Grace -> s1
      /\ at = IF FromYesterday(Z, w, t) THEN t
              ELSE IF w.weekdays THEN OffWeekend(Z, OffWeekend(Z, OffWeekend(Z, n))) ELSE n
  <2>1. FromYesterday(Z, w, t) => Within(t, sm)
    BY DEF FromYesterday, SlotOf
  <2>2. n = CASE t < s0 -> s0 [] Within(t, s0) -> t [] t > s0 + Grace -> s1
    BY DEF NextSlot, SlotOf
  <2>3. at = IF FromYesterday(Z, w, t) THEN t
             ELSE IF w.weekdays THEN OffWeekend(Z, OffWeekend(Z, OffWeekend(Z, n))) ELSE n
    BY DEF computeDeliveryTime
  <2>4. QED
    BY <2>1, <2>2, <2>3
<1>6. /\ at \in Int /\ e = Slack(Z, a, b) /\ a \in Int /\ b \in Int
      /\ e \in Int /\ 0 < e /\ e <= Hour
  BY ZonedFacts, DeliveryTyped, SizedFacts
<1> HIDE DEF at, day, local, sm, s0, s1, n, l, k0, c
<1>7. /\ t < s0 => n = s0
      /\ s0 <= t /\ t <= s0 + Grace => n = t
      /\ s0 + Grace < t => n = s1
      /\ n \in Int
  BY <1>4, <1>5, SizedFacts DEF Within
<1>8. at = t \/ at >= n
  <2>1. n \in Int /\ OffWeekend(Z, OffWeekend(Z, OffWeekend(Z, n))) >= n
    BY <1>7, Workday
  <2>2. at = t \/ at = n \/ at = OffWeekend(Z, OffWeekend(Z, OffWeekend(Z, n)))
    BY <1>5
  <2>3. QED
    BY <2>1, <2>2
<1>9. a <= Z.at /\ Z.at <= b
  BY <1>6, SlackFacts
<1>10. s1 >= t - e
  <2> DEFINE m == l + Day
  <2>1. m \in Int /\ s1 = Utc(m) /\ m > local
    BY <1>1, <1>2, <1>3, DayFacts
  <2> HIDE DEF m
  <2>2. Utc(m) >= m - k0 - e
    BY <1>6, <2>1, SlackFacts DEF k0
  <2>3. QED
    BY <1>1, <1>4, <1>6, <2>1, <2>2
<1>11. at >= t - e
  BY <1>4, <1>6, <1>7, <1>8, <1>10, SizedFacts
<1> DEFINE Keeps == /\ \E u \in at - e .. at + e : Open(Z, w, u)
                   /\ \A d \in day .. LocalDay(Z, at) :
                        SlotOf(Z, w, d) >= t - e => at <= SlotOf(Z, w, d) + Grace + e
<1>12. \A d \in day .. LocalDay(Z, at) : d \in Int /\ day <= d /\ SlotOf(Z, w, d) \in Int
  BY <1>1, SlotFacts
<1>13. ASSUME at = t, Open(Z, w, at) PROVE Keeps
  <2>1. at \in at - e .. at + e
    BY <1>6
  <2>2. \A d \in day .. LocalDay(Z, at) :
          SlotOf(Z, w, d) >= t - e => at <= SlotOf(Z, w, d) + Grace + e
    BY <1>6, <1>12, <1>13, SizedFacts
  <2>3. QED
    BY <1>13, <2>1, <2>2
\* A slot of a later day is not much earlier.
<1>14. ASSUME NEW f \in Int, NEW d \in Int, f <= d
       PROVE  SlotOf(Z, w, f) <= SlotOf(Z, w, d) + e
  <2> DEFINE p == f * Day + w.slot
             q == d * Day + w.slot
  <2>1. p \in Int /\ q \in Int /\ SlotOf(Z, w, f) = Utc(p) /\ SlotOf(Z, w, d) = Utc(q)
    BY <1>14, SlotFacts
  <2>2. f * Day <= d * Day /\ f * Day \in Int /\ d * Day \in Int
    BY <1>14, DayFacts
  <2>3. p <= q
    BY <1>1, <2>2
  <2> HIDE DEF p, q
  <2>4. a <= b
    BY <1>6, <1>9, ZonedFacts
  <2>5. QED
    BY <1>6, <2>1, <2>3, <2>4, UtcOrder
<1>15. ASSUME ~w.weekdays, FromYesterday(Z, w, t) PROVE Keeps
  <2>1. at = t /\ Within(at, sm)
    BY <1>5, <1>15
  <2>2. Open(Z, w, at)
    BY <1>15, <2>1 DEF Open, sm, day
  <2>3. QED
    BY <1>13, <2>1, <2>2
<1>16. ASSUME ~w.weekdays, ~FromYesterday(Z, w, t) PROVE Keeps
  <2>1. at = n
    BY <1>5, <1>16
  <2>2. CASE Within(t, s0)
    <3>1. at = t
      BY <1>4, <1>7, <2>1, <2>2, SizedFacts DEF Within
    <3>2. Open(Z, w, at)
      BY <1>16, <2>2, <3>1 DEF Open, s0, day
    <3>3. QED
      BY <1>13, <3>1, <3>2
  <2>3. CASE t < s0
    <3>1. at = s0 /\ Within(at, s0)
      BY <1>4, <1>7, <2>1, <2>3, SizedFacts DEF Within
    <3>2. LocalDay(Z, at) = day \/ LocalDay(Z, at) = day + 1
      <4> DEFINE v == LocalDay(Z, at)
                 p == Local(Z, at)
      <4>1. /\ v \in Int /\ p \in Int /\ v * Day \in Int /\ v * Day <= p /\ p < v * Day + Day
        BY <1>6, ZonedFacts, LocalTyped, DayFacts
      <4>2. p >= day * Day
        BY <1>1, <1>2, <1>3, <1>6, <2>3, <3>1, ZonedFacts, DayFacts DEF Utc, Off, Local, k0, l
      <4>3. p < day * Day + 2 * Day
        <5>1. p <= l + Hour
          BY <1>2, <1>3, <3>1, UtcFacts
        <5>2. QED
          BY <1>1, <1>2, <4>1, <5>1, SizedFacts DEF l
      <4> HIDE DEF v, p
      <4>4. (v + 1) * Day = v * Day + Day /\ (day + 2) * Day = day * Day + 2 * Day
        BY <1>1, <4>1, DayFacts
      <4>5. v < day => (v + 1) * Day <= day * Day
        BY <1>1, <4>1, DayFacts
      <4>6. v > day + 1 => (day + 2) * Day <= v * Day
        BY <1>1, <4>1, DayFacts
      <4>7. v = day \/ v = day + 1
        BY <1>1, <4>1, <4>2, <4>3, <4>4, <4>5, <4>6, DayFacts
      <4>8. QED
        BY <4>7 DEF v
    <3>3. Open(Z, w, at)
      <4>1. day \in {LocalDay(Z, at) - 1, LocalDay(Z, at)}
        BY <1>1, <3>2
      <4>2. QED
        BY <1>16, <3>1, <4>1 DEF Open, s0
    <3>4. at \in at - e .. at + e
      BY <1>6
    <3>5. ASSUME NEW d \in day .. LocalDay(Z, at) PROVE at <= SlotOf(Z, w, d) + Grace + e
      <4>1. d \in Int /\ day <= d /\ SlotOf(Z, w, d) \in Int
        BY <1>12
      <4>2. at <= SlotOf(Z, w, d) + e
        BY <1>1, <1>14, <3>1, <4>1 DEF s0
      <4>3. QED
        BY <1>6, <4>1, <4>2, SizedFacts
    <3>6. QED
      BY <3>3, <3>4, <3>5
  <2>4. CASE s0 + Grace < t
    <3>1. at = s1
      BY <1>7, <2>1, <2>4
    <3>2. \E u \in at - e .. at + e : Open(Z, w, u)
      <4> DEFINE m == l + Day
                 u == IF Local(Z, s1) < (day + 1) * Day THEN Z.at ELSE s1
      <4>1. m \in Int /\ s1 = Utc(m) /\ (day + 1) * Day <= m /\ m < (day + 1) * Day + Day /\ (day + 1) * Day \in Int
        BY <1>1, <1>2, <1>3, DayFacts DEF l
      <4>2. /\ u \in Int /\ s1 <= u /\ u <= s1 + e
            /\ (day + 1) * Day <= Local(Z, u) /\ Local(Z, u) <= m + Hour /\ Local(Z, u) \in Int
        <5> DEFINE x == (day + 1) * Day
        <5>1. u = IF Local(Z, s1) < x THEN Z.at ELSE s1
          OBVIOUS
        <5> HIDE DEF m, x, u
        <5>2. e = Z.by \/ e = -Z.by
          BY <1>6, ZonedFacts DEF Slack
        <5>3. QED
          BY <1>4, <1>6, <4>1, <5>1, <5>2, ZonedFacts DEF Utc, Off, Local, x
      <4>3. LocalDay(Z, u) = day + 1 \/ LocalDay(Z, u) = day + 2
        <5> HIDE DEF u
        <5> DEFINE v == LocalDay(Z, u)
                   p == Local(Z, u)
        <5>1. /\ v \in Int /\ p \in Int /\ v * Day \in Int /\ v * Day <= p /\ p < v * Day + Day
          BY <4>2, ZonedFacts, LocalTyped, DayFacts
        <5>2. p >= (day + 1) * Day /\ p < (day + 1) * Day + 2 * Day
          BY <4>1, <4>2, SizedFacts
        <5> HIDE DEF v, p
        <5>3. (v + 1) * Day = v * Day + Day /\ (day + 3) * Day = (day + 1) * Day + 2 * Day
          BY <1>1, <5>1, DayFacts
        <5>4. v < day + 1 => (v + 1) * Day <= (day + 1) * Day
          BY <1>1, <5>1, DayFacts
        <5>5. v > day + 2 => (day + 3) * Day <= v * Day
          BY <1>1, <5>1, DayFacts
        <5>6. v = day + 1 \/ v = day + 2
          BY <1>1, <4>1, <5>1, <5>2, <5>3, <5>4, <5>5, DayFacts
        <5>7. QED
          BY <5>6 DEF v
      <4> HIDE DEF u, m
      <4>4. Within(u, s1)
        BY <1>4, <1>6, <4>2, SizedFacts DEF Within
      <4>5. day + 1 \in {LocalDay(Z, u) - 1, LocalDay(Z, u)}
        BY <1>1, <4>3
      <4>6. Open(Z, w, u)
        BY <1>16, <4>4, <4>5 DEF Open, s1
      <4>7. u \in at - e .. at + e
        BY <1>4, <1>6, <3>1, <4>2
      <4>8. QED
        BY <4>6, <4>7
    <3>3. ASSUME NEW d \in day .. LocalDay(Z, at), SlotOf(Z, w, d) >= t - e
          PROVE  at <= SlotOf(Z, w, d) + Grace + e
      <4>1. d \in Int /\ day <= d /\ SlotOf(Z, w, d) \in Int
        BY <1>12
      <4>2. d # day
        BY <1>4, <1>6, <2>4, <3>3, SizedFacts DEF s0
      <4>3. at <= SlotOf(Z, w, d) + e
        BY <1>1, <1>14, <3>1, <4>1, <4>2 DEF s1
      <4>4. QED
        BY <1>6, <4>1, <4>3, SizedFacts
    <3>4. QED
      BY <3>2, <3>3
  <2>5. QED
    BY <1>4, <2>2, <2>3, <2>4, SizedFacts DEF Within
<1>17. QED
  BY <1>11, <1>15, <1>16 DEF at, day

\* A flow mail goes out while its window is open, and no slot is passed over.
LEMMA WindowMeans ==
  ASSUME Zoned, NEW w \in Window
  PROVE  WindowHonoured(w)
<1> DEFINE at == computeDeliveryTime(Z, w, now)
           e  == Slack(Z, now - Day, at + Day)
<1>1. at \in Int /\ now \in Int /\ e \in 0 .. Hour /\ e \in Int /\ Hour \in Int
  <2>1. at \in Int /\ now - Day \in Int /\ at + Day \in Int
    BY ZonedFacts, DeliveryTyped, DayFacts
  <2> HIDE DEF at
  <2>2. QED
    BY <2>1, ZonedFacts, SlackFacts
<1>2. CASE e = 0
  <2>1. Meets(w, now, at)
    BY <1>1, <1>2, AnyTimeSteady, SlotTimeSteady
  <2>2. /\ at >= now - e /\ at \in at - e .. at + e
        /\ \A x \in Int : x + e = x /\ x - e = x
    BY <1>1, <1>2, <2>1 DEF Meets
  <2>3. at = now <=> Open(Z, w, now)
    BY <2>1 DEF Meets
  <2> DEFINE days == {i \in LocalDay(Z, now) .. LocalDay(Z, at) : ~(w.weekdays /\ Weekend(i))}
  <2>4. ASSUME NEW d \in days
        PROVE  IF w.slot = None THEN at <= startOfLocalDay(Z, d + 1) + e
               ELSE SlotOf(Z, w, d) >= now - e => at <= SlotOf(Z, w, d) + Grace + e
    <3>1. d \in Int
      BY <1>1, ZonedFacts, LocalTyped
    <3>2. w.slot = None => startOfLocalDay(Z, d + 1) \in Int
      BY <3>1, ZonedFacts, DayStarts
    <3>3. w.slot # None => SlotOf(Z, w, d) \in Int /\ SlotOf(Z, w, d) + Grace \in Int
      BY <3>1, SlotFacts, SizedFacts
    <3>4. IF w.slot = None THEN at <= startOfLocalDay(Z, d + 1)
          ELSE SlotOf(Z, w, d) >= now => at <= SlotOf(Z, w, d) + Grace
      BY <2>1 DEF Meets
    <3> HIDE DEF at, e, days
    <3>5. QED
      BY <1>1, <2>2, <3>2, <3>3, <3>4
  <2>5. \E u \in at - e .. at + e : Open(Z, w, u)
    BY <2>1, <2>2 DEF Meets
  <2> HIDE DEF at, e
  <2>6. QED
    BY <2>2, <2>3, <2>4, <2>5 DEF WindowHonoured, at, e
<1>3. CASE e # 0
  <2>1. CASE w.slot = None
    <3>1. /\ at >= now - e
          /\ ~w.weekdays => \E u \in at - e .. at + e : Open(Z, w, u)
          /\ \A d \in LocalDay(Z, now) .. LocalDay(Z, at) :
               ~(w.weekdays /\ Weekend(d)) => at <= startOfLocalDay(Z, d + 1) + e
      BY <1>1, <1>3, <2>1, AnyTimeRough
    <3> HIDE DEF at, e
    <3>2. QED
      BY <1>3, <2>1, <3>1 DEF WindowHonoured, at, e
  <2>2. CASE w.slot # None
    <3>1. /\ at >= now - e
          /\ ~w.weekdays => /\ \E u \in at - e .. at + e : Open(Z, w, u)
                            /\ \A d \in LocalDay(Z, now) .. LocalDay(Z, at) :
                                 SlotOf(Z, w, d) >= now - e => at <= SlotOf(Z, w, d) + Grace + e
      BY <1>1, <1>3, <2>2, SlotTimeRough
    <3> HIDE DEF at, e
    <3>2. QED
      BY <1>3, <2>2, <3>1 DEF WindowHonoured, at, e
  <2>3. QED
    BY <2>1, <2>2
<1>4. QED
  BY <1>2, <1>3

\* A time that the window allows is the time of delivery.
LEMMA OpenStays ==
  ASSUME Zoned, NEW w \in Window, NEW t \in Int, Slack(Z, t - Day, t + Day) = 0, Open(Z, w, t)
  PROVE  computeDeliveryTime(Z, w, t) = t
<1> DEFINE day == LocalDay(Z, t)
           sm  == SlotOf(Z, w, day - 1)
           s0  == SlotOf(Z, w, day)
           Three(u) == OffWeekend(Z, OffWeekend(Z, OffWeekend(Z, u)))
<1>1. day \in Int /\ day - 1 \in Int
  BY ZonedFacts, LocalTyped
<1>2. ~Weekend(day) => Three(t) = t
  BY Workday
<1>3. CASE w.slot = None
  BY <1>2, <1>3 DEF computeDeliveryTime, Open
<1>4. CASE w.slot # None
  <2>1. sm \in Int /\ s0 \in Int
    BY <1>1, <1>4, SlotFacts
  <2>2. FromYesterday(Z, w, t) <=> Within(t, sm) /\ (w.weekdays => ~Weekend(LocalDay(Z, sm)))
    BY DEF FromYesterday, SlotOf
  <2>3. computeDeliveryTime(Z, w, t) =
          IF FromYesterday(Z, w, t) THEN t
          ELSE IF w.weekdays THEN Three(NextSlot(Z, w, t)) ELSE NextSlot(Z, w, t)
    BY <1>4 DEF computeDeliveryTime
  <2>4. PICK d \in {day - 1, day} : Within(t, SlotOf(Z, w, d)) /\ (w.weekdays => ~Weekend(d))
    BY <1>4 DEF Open
  <2>5. CASE d = day - 1
    <3> DEFINE a == t - Day
               b == t + Day
    <3>1. a \in Int /\ b \in Int /\ t \in a .. b /\ sm \in a + Hour .. b - Hour
      BY <2>1, <2>4, <2>5, SizedFacts DEF Within
    <3>2. Slack(Z, a, b) = 0
      OBVIOUS
    <3> HIDE DEF a, b
    <3>3. LocalDay(Z, sm) = day - 1
      BY <1>1, <1>4, <3>1, <3>2, SlotSteady
    <3>4. FromYesterday(Z, w, t)
      BY <2>2, <2>4, <2>5, <3>3
    <3>5. QED
      BY <2>3, <3>4
  <2>6. CASE d = day
    <3>1. NextSlot(Z, w, t) = t
      <4>1. NextSlot(Z, w, t) =
              CASE t < s0 -> s0 [] Within(t, s0) -> t [] t > s0 + Grace -> SlotOf(Z, w, day + 1)
        BY DEF NextSlot, SlotOf
      <4>2. Within(t, s0)
        BY <2>4, <2>6
      <4> HIDE DEF s0
      <4>3. QED
        BY <2>1, <4>1, <4>2, SizedFacts DEF Within
    <3>2. w.weekdays => Three(t) = t
      BY <1>2, <2>4, <2>6
    <3> HIDE DEF Three
    <3>3. QED
      BY <2>3, <3>1, <3>2
  <2>7. QED
    BY <2>4, <2>5, <2>6
<1>5. QED
  BY <1>3, <1>4

\* No time of delivery is before its time, but for the hour where the clock changes.
LEMMA NoSlip ==
  ASSUME Zoned, NEW w \in Window, NEW t \in Int
  PROVE  LET at == computeDeliveryTime(Z, w, t) IN
         /\ at \in Int
         /\ at >= t \/ (Z.by # 0 /\ t - 2 * Hour <= Z.at /\ Z.at <= t + Hour /\ at >= t - Hour)
<1> DEFINE at  == computeDeliveryTime(Z, w, t)
           day == LocalDay(Z, t)
           n   == IF w.slot = None THEN t ELSE NextSlot(Z, w, t)
           Three(u) == OffWeekend(Z, OffWeekend(Z, OffWeekend(Z, u)))
           Late(u) == u >= t \/ (Z.by # 0 /\ t - 2 * Hour <= Z.at /\ Z.at <= t + Hour /\ u >= t - Hour)
<1>1. at \in Int
  BY ZonedFacts, DeliveryTyped
<1>2. at = t \/ at = n \/ at = Three(n)
  BY DEF computeDeliveryTime
<1>3. n \in Int /\ Late(n)
  <2>1. CASE w.slot = None
    BY <2>1
  <2>2. CASE w.slot # None
    <3> DEFINE l  == day * Day + w.slot
               m  == (day + 1) * Day + w.slot
               s0 == SlotOf(Z, w, day)
               s1 == SlotOf(Z, w, day + 1)
    <3>1. day \in Int /\ day + 1 \in Int /\ (day + 1) * Day = day * Day + Day /\ day * Day \in Int
      BY ZonedFacts, LocalTyped, DayFacts
    <3>2. m \in Int /\ s1 = Utc(m) /\ s0 \in Int /\ s1 \in Int /\ w.slot \in 0 .. Day - 1
      BY <2>2, <3>1, SlotFacts
    <3>3. Local(Z, t) < m /\ Local(Z, t) \in Int
      BY <3>1, <3>2, ZonedFacts, LocalTyped, DayFacts
    <3>4. n = CASE t < s0 -> s0 [] Within(t, s0) -> t [] t > s0 + Grace -> s1
      BY <2>2 DEF NextSlot, SlotOf
    <3> HIDE DEF n, s0, s1, m
    <3>5. (t < s0 /\ n = s0) \/ n = t \/ n = s1
      BY <3>2, <3>4, SizedFacts DEF Within
    <3>6. Late(s1)
      BY <3>2, <3>3, ZonedFacts DEF Utc, Off, Local
    <3>7. QED
      BY <3>2, <3>5, <3>6
  <2>3. QED
    BY <2>1, <2>2
<1> HIDE DEF n
<1>4. Three(n) \in Int /\ Three(n) >= n
  BY <1>3, Workday
<1> HIDE DEF Three, at
<1>5. Late(at)
  BY <1>1, <1>2, <1>3, <1>4, ZonedFacts
<1>6. QED
  BY <1>1, <1>5 DEF at

-----------------------------------------------------------------------------
(* The passes of programSendTime.                                          *)

\* There is a function of the passes, since each has the one before it.
Passes(w, dates, t, f) ==
  f = [n \in 0 .. MaxPasses |->
         IF n = 0 THEN [at |-> t, again |-> TRUE]
         ELSE IF f[n - 1].again THEN SendPass(Z, w, dates, f[n - 1].at) ELSE f[n - 1]]

LEMMA PassesExist ==
  ASSUME NEW w, NEW dates, NEW t
  PROVE  \E f : Passes(w, dates, t, f)
<1> DEFINE Onward(p) == IF p.again THEN SendPass(Z, w, dates, p.at) ELSE p
           Upto(n, f) == f = [i \in 0 .. n |-> IF i = 0 THEN [at |-> t, again |-> TRUE] ELSE Onward(f[i - 1])]
           Without == {n \in Nat : ~\E f : Upto(n, f)}
<1>1. ASSUME Without # {} PROVE FALSE
  <2>1. PICK n \in Without : \A i \in Without : n <= i
    BY <1>1, LeastNat
  <2>2. n # 0
    <3> DEFINE g == [i \in 0 .. 0 |-> [at |-> t, again |-> TRUE]]
    <3>1. Upto(0, g)
      OBVIOUS
    <3>2. QED
      BY <3>1
  <2>3. n \in Nat /\ n - 1 \in Nat /\ n - 1 \notin Without
    BY <2>1, <2>2
  <2>4. PICK f : Upto(n - 1, f)
    BY <2>3
  <2> DEFINE g == [i \in 0 .. n |-> IF i = 0 THEN [at |-> t, again |-> TRUE] ELSE Onward(f[i - 1])]
  <2> HIDE DEF Onward
  <2>5. \A i \in 0 .. n - 1 : f[i] = IF i = 0 THEN [at |-> t, again |-> TRUE] ELSE Onward(f[i - 1])
    BY <2>4
  <2>6. \A i \in 0 .. n : g[i] = IF i = 0 THEN [at |-> t, again |-> TRUE] ELSE Onward(f[i - 1])
    OBVIOUS
  <2>7. \A i \in 0 .. n : i # 0 => i - 1 \in 0 .. n - 1 /\ i - 1 \in 0 .. n /\ g[i - 1] = f[i - 1]
    <3>1. \A i \in 0 .. n : i # 0 => i - 1 \in 0 .. n - 1 /\ i - 1 \in 0 .. n
      BY <2>3
    <3>2. \A i \in 0 .. n - 1 : g[i] = f[i]
      <4>1. \A i \in 0 .. n - 1 : i \in 0 .. n
        BY <2>3
      <4>2. QED
        BY <2>5, <2>6, <4>1
    <3> HIDE DEF g
    <3>3. QED
      BY <3>1, <3>2
  <2>8. Upto(n, g)
    BY <2>6, <2>7
  <2>9. QED
    BY <2>1, <2>8
<1>2. MaxPasses \in Nat
  BY DeliveryWindowAssumption
<1>3. \E f : Upto(MaxPasses, f)
  BY <1>1, <1>2
<1>4. QED
  BY <1>3 DEF Passes

\* f is what the passes yield.
Chain(w, dates, f) ==
  \A n \in 1 .. MaxPasses : f[n] = IF f[n - 1].again THEN SendPass(Z, w, dates, f[n - 1].at) ELSE f[n - 1]

LEMMA PassFacts ==
  ASSUME NEW w, NEW dates, NEW t
  PROVE  \E f : /\ f[0] = [at |-> t, again |-> TRUE] /\ Chain(w, dates, f)
                /\ programSendTime(Z, w, dates, t) = f[MaxPasses].at
<1> DEFINE pass[n \in 0 .. MaxPasses] ==
             IF n = 0 THEN [at |-> t, again |-> TRUE]
             ELSE IF pass[n - 1].again THEN SendPass(Z, w, dates, pass[n - 1].at)
             ELSE pass[n - 1]
<1>1. programSendTime(Z, w, dates, t) = pass[MaxPasses].at
  BY DEF programSendTime
<1>2. pass = CHOOSE f : Passes(w, dates, t, f)
  BY DEF Passes
<1> HIDE DEF pass
<1>3. Passes(w, dates, t, pass)
  BY <1>2, PassesExist
<1>4. MaxPasses \in Nat
  BY DeliveryWindowAssumption
<1>5. \A n \in 0 .. MaxPasses :
        pass[n] = IF n = 0 THEN [at |-> t, again |-> TRUE]
                  ELSE IF pass[n - 1].again THEN SendPass(Z, w, dates, pass[n - 1].at) ELSE pass[n - 1]
  BY <1>3 DEF Passes
<1>6. pass[0] = [at |-> t, again |-> TRUE]
  <2>1. 0 \in 0 .. MaxPasses
    BY <1>4
  <2>2. pass[0] = IF 0 = 0 THEN [at |-> t, again |-> TRUE]
                  ELSE IF pass[0 - 1].again THEN SendPass(Z, w, dates, pass[0 - 1].at) ELSE pass[0 - 1]
    BY <1>5, <2>1
  <2>3. QED
    BY <2>2
<1>7. \A n \in 1 .. MaxPasses :
        pass[n] = IF pass[n - 1].again THEN SendPass(Z, w, dates, pass[n - 1].at) ELSE pass[n - 1]
  <2>1. ASSUME NEW n \in 1 .. MaxPasses PROVE n \in 0 .. MaxPasses /\ n # 0
    BY <1>4
  <2>2. QED
    BY <1>5, <2>1
<1>8. Chain(w, dates, pass)
  BY <1>7 DEF Chain
<1>9. QED
  BY <1>1, <1>6, <1>8

\* A blackout of today and tomorrow, or of one of them, ends on a day from which none is left.
LEMMA ShortBlackout ==
  ASSUME Zoned, NEW x \in Int, NEW dates \in SUBSET {x, x + 1}, NEW t \in Int, OnBlackout(Z, dates, t)
  PROVE  \E d \in Int : /\ LocalDay(Z, t) < d /\ x <= LocalDay(Z, t) /\ \A i \in Int : d <= i => i \notin dates
                        /\ blackoutEnd(Z, dates, t) = startOfLocalDay(Z, d)
                        /\ blackoutEnd(Z, dates, t) \in Int
<1> DEFINE day  == LocalDay(Z, t)
           free == {d \in day .. Max(dates) + 1 : d \notin dates}
           top  == Max(dates)
           d    == Min(free)
<1>1. day \in Int /\ day \in dates /\ (day = x \/ day = x + 1)
  BY ZonedFacts, LocalTyped DEF OnBlackout
<1>2. top \in dates /\ \A i \in dates : i <= top
  <2>1. dates \in SUBSET Int /\ dates # {} /\ \A i \in dates : i <= x + 1
    BY <1>1
  <2>2. QED
    BY <2>1, BoundedMax
<1> HIDE DEF top
<1>3. top \in Int /\ day <= top /\ top <= x + 1 /\ x <= day
  BY <1>1, <1>2
<1>4. free = {i \in day .. top + 1 : i \notin dates}
  BY DEF top
<1> HIDE DEF free, day
<1>5. d \in free /\ \A i \in free : d <= i
  <2>1. top + 1 \in free
    BY <1>1, <1>2, <1>3, <1>4
  <2>2. free \in SUBSET Int /\ free # {} /\ \A i \in free : day <= i
    BY <1>1, <1>3, <1>4, <2>1
  <2>3. QED
    BY <1>1, <2>2, BoundedMin
<1> HIDE DEF d
<1>6. d \in Int /\ day < d /\ d <= top + 1
  BY <1>1, <1>3, <1>4, <1>5
<1>7. ASSUME NEW i \in Int, d <= i PROVE i \notin dates
  <2>1. i = x + 1 => d = x + 1
    BY <1>1, <1>3, <1>6, <1>7
  <2>2. d \notin dates
    BY <1>4, <1>5
  <2>3. i # x
    BY <1>1, <1>3, <1>6, <1>7
  <2>4. QED
    BY <2>1, <2>2, <2>3
<1>8. blackoutEnd(Z, dates, t) = startOfLocalDay(Z, d)
  BY DEF blackoutEnd, d, free, day
<1>9. startOfLocalDay(Z, d) \in Int
  BY <1>6, ZonedFacts, DayStarts
<1>10. QED
  BY <1>3, <1>6, <1>7, <1>8, <1>9 DEF day

LEMMA ProgramWindow ==
  ASSUME Zoned, NEW w \in Window, NEW t \in Int
  PROVE  programDeliveryWindow(Z, w, t) \in Window
<1> DEFINE i == LocalDay(Z, t) * Day + w.session
<1>1. CASE w.session = None
  BY <1>1 DEF programDeliveryWindow
<1>2. CASE w.session # None
  <2>1. w.session \in Int /\ LocalDay(Z, t) \in Int
    BY <1>2, ZonedFacts, LocalTyped, DeliveryWindowAssumption DEF Window, Clocks
  <2>2. i \in Int
    BY <2>1, DayFacts
  <2> HIDE DEF i
  <2>3. Clock(Z, i) \in Clocks
    BY <2>2, ZonedFacts, LocalTyped DEF Clocks
  <2>4. [w EXCEPT !.slot = Clock(Z, i)] \in Window
    BY <2>3 DEF Window
  <2>5. QED
    BY <1>2, <2>4 DEF programDeliveryWindow, i
<1>3. QED
  BY <1>1, <1>2

\* One pass: it ends at the time of delivery, or goes on at the end of a blackout after that.
LEMMA OnePass ==
  ASSUME Zoned, NEW w \in Window, NEW x \in Int, NEW dates \in SUBSET {x, x + 1}, NEW t \in Int
  PROVE  LET p  == SendPass(Z, w, dates, t)
             at == computeDeliveryTime(Z, programDeliveryWindow(Z, w, t), t)
         IN  /\ at \in Int /\ p.at \in Int /\ at <= p.at /\ p.again \in BOOLEAN
             /\ at >= t \/ (Z.by # 0 /\ t - 2 * Hour <= Z.at /\ Z.at <= t + Hour /\ at >= t - Hour)
             /\ p.again => OnBlackout(Z, dates, at) /\ p.at = blackoutEnd(Z, dates, at)
             /\ ~p.again => p.at = at /\ (OnBlackout(Z, dates, at) => blackoutEnd(Z, dates, at) <= at)
<1> DEFINE p  == SendPass(Z, w, dates, t)
           v  == programDeliveryWindow(Z, w, t)
           at == computeDeliveryTime(Z, v, t)
           bl == OnBlackout(Z, dates, at)
           end == blackoutEnd(Z, dates, at)
<1>1. v \in Window
  BY ProgramWindow
<1> HIDE DEF v
<1>2. at \in Int /\ (at >= t \/ (Z.by # 0 /\ t - 2 * Hour <= Z.at /\ Z.at <= t + Hour /\ at >= t - Hour))
  BY <1>1, NoSlip
<1>3. p = IF bl /\ end > at THEN [at |-> end, again |-> TRUE] ELSE [at |-> at, again |-> FALSE]
  BY DEF SendPass, v
<1> HIDE DEF at
<1>4. bl => end \in Int
  BY <1>2, ShortBlackout
<1> HIDE DEF bl, end, p
<1>5. /\ p.at \in Int /\ at <= p.at /\ p.again \in BOOLEAN
      /\ p.again => bl /\ p.at = end
      /\ ~p.again => p.at = at /\ (bl => end <= at)
  BY <1>2, <1>3, <1>4
<1>6. QED
  BY <1>2, <1>5 DEF p, at, bl, end, v

\* What follows of the passes: the last is the first that is final,
LEMMA FinalPass ==
  ASSUME NEW w, NEW dates, NEW f, NEW i \in 0 .. MaxPasses, ~f[i].again, Chain(w, dates, f)
  PROVE  f[MaxPasses] = f[i]
<1> DEFINE Other == {n \in i .. MaxPasses : f[n] # f[i]}
<1>1. MaxPasses \in Nat /\ i \in Nat
  BY DeliveryWindowAssumption
<1>2. ASSUME Other # {} PROVE FALSE
  <2>1. Other \in SUBSET Nat
    BY <1>1
  <2>2. PICK n \in Other : \A k \in Other : n <= k
    BY <1>2, <2>1, LeastNat
  <2>3. n \in 1 .. MaxPasses /\ n - 1 \in i .. MaxPasses /\ n - 1 \notin Other
    BY <1>1, <2>2
  <2>4. f[n - 1] = f[i] /\ f[n] # f[i]
    BY <2>2, <2>3
  <2>5. f[n] = IF f[n - 1].again THEN SendPass(Z, w, dates, f[n - 1].at) ELSE f[n - 1]
    BY <2>3 DEF Chain
  <2>6. QED
    BY <2>4, <2>5
<1>3. MaxPasses \in i .. MaxPasses
  BY <1>1
<1>4. QED
  BY <1>2, <1>3

\* and none is earlier than one before it, if the clock changes later, or not at all.
LEMMA PassesRise ==
  ASSUME Zoned, NEW w \in Window, NEW x \in Int, NEW dates \in SUBSET {x, x + 1}, NEW f,
         NEW i \in 0 .. MaxPasses, f[i].at \in Int, Chain(w, dates, f)
  PROVE  /\ f[MaxPasses].at \in Int
         /\ f[MaxPasses].at >= f[i].at \/ (Z.by # 0 /\ f[MaxPasses].at >= Z.at - 2 * Hour)
<1> DEFINE Rises(u) == u \in Int /\ (u >= f[i].at \/ (Z.by # 0 /\ u >= Z.at - 2 * Hour))
           Other == {n \in i .. MaxPasses : ~Rises(f[n].at)}
<1>1. MaxPasses \in Nat /\ i \in Nat
  BY DeliveryWindowAssumption
<1>2. ASSUME Other # {} PROVE FALSE
  <2>1. Other \in SUBSET Nat
    BY <1>1
  <2>2. PICK n \in Other : \A k \in Other : n <= k
    BY <1>2, <2>1, LeastNat
  <2>3. n # i
    BY <2>2
  <2>4. n \in 1 .. MaxPasses /\ n - 1 \in i .. MaxPasses /\ n - 1 \notin Other
    BY <1>1, <2>2, <2>3
  <2>5. Rises(f[n - 1].at) /\ ~Rises(f[n].at)
    BY <2>2, <2>4
  <2>6. f[n] = IF f[n - 1].again THEN SendPass(Z, w, dates, f[n - 1].at) ELSE f[n - 1]
    BY <2>4 DEF Chain
  <2> DEFINE u == f[n - 1].at
             p == SendPass(Z, w, dates, u)
             at == computeDeliveryTime(Z, programDeliveryWindow(Z, w, u), u)
  <2>7. Rises(u)
    BY <2>5
  <2> HIDE DEF u
  <2>8. /\ at \in Int /\ p.at \in Int /\ at <= p.at
        /\ at >= u \/ (Z.by # 0 /\ u - 2 * Hour <= Z.at /\ Z.at <= u + Hour /\ at >= u - Hour)
    BY <2>7, OnePass
  <2> HIDE DEF p, at
  <2>9. Rises(p.at)
    BY <2>7, <2>8, ZonedFacts
  <2> HIDE DEF Rises
  <2>10. QED
    BY <2>5, <2>6, <2>9 DEF u, p
<1>3. MaxPasses \in i .. MaxPasses
  BY <1>1
<1>4. QED
  BY <1>2, <1>3

\* Where midnight is on the clock a day starts at it.
LEMMA DayStartsSteady ==
  ASSUME Zoned, NEW d \in Int, Local(Z, Utc(d * Day)) = d * Day
  PROVE  startOfLocalDay(Z, d) = Utc(d * Day) /\ LocalDay(Z, Utc(d * Day)) = d
<1> DEFINE t == Utc(d * Day)
           found == {u \in t .. t + SixHours - 1 : LocalDay(Z, u) = d}
<1>1. d * Day \in Int /\ d * Day = d * Day + 0 /\ 0 \in 0 .. Day - 1 /\ SixHours \in Nat
  BY DayFacts, DeliveryWindowAssumption
<1>2. t \in Int /\ UtcFromLocal(Z, d, 0) = t
  <2>1. t \in Int
    BY <1>1, UtcFacts
  <2>2. QED
    BY <1>1, <2>1 DEF UtcFromLocal, Utc
<1>3. LocalDay(Z, t) = d
  <2> HIDE DEF t
  <2>1. Local(Z, t) = d * Day + 0
    BY <1>1 DEF t
  <2>2. QED
    BY <1>1, <1>2, <2>1, ZonedFacts, LocalIs
<1>4. startOfLocalDay(Z, d) = IF found = {} THEN t + SixHours ELSE Min(found)
  BY <1>2 DEF startOfLocalDay
<1> HIDE DEF t
<1>5. CASE SixHours = 0
  <2>1. found = {}
    BY <1>2, <1>5
  <2>2. QED
    BY <1>2, <1>3, <1>4, <1>5, <2>1 DEF t
<1>6. CASE SixHours # 0
  <2>1. t \in found /\ found \in SUBSET Int /\ \A u \in found : t <= u
    BY <1>1, <1>2, <1>3, <1>6
  <2> HIDE DEF found
  <2>2. Min(found) \in found /\ Min(found) <= t
    BY <1>2, <2>1, BoundedMin
  <2>3. Min(found) = t
    <3>1. Min(found) \in Int /\ t <= Min(found)
      BY <2>1, <2>2
    <3>2. QED
      BY <1>2, <2>2, <3>1
  <2>4. QED
    BY <1>3, <1>4, <2>1, <2>3 DEF t
<1>7. QED
  BY <1>5, <1>6

\* No zone is a day or more from UTC.
Near == Z.offset \in -Day .. Day /\ Z.offset + Z.by \in -Day .. Day

\* The slot of a subject's usual hour, told on the day of the send and on the day of its slot, is
\* one and the same.
LEMMA SessionSteady ==
  ASSUME Zoned, Near, NEW w \in Window, NEW t \in Int, NEW at \in Int, t <= at,
         LET v == programDeliveryWindow(Z, w, t)
         IN  v.slot # None => Within(at, SlotOf(Z, v, LocalDay(Z, at))),
         Slack(Z, t - 2 * Day, at + Day) = 0
  PROVE  programDeliveryWindow(Z, w, at) = programDeliveryWindow(Z, w, t)
<1> SUFFICES ASSUME w.session # None
             PROVE  programDeliveryWindow(Z, w, at) = programDeliveryWindow(Z, w, t)
  BY DEF programDeliveryWindow
<1> DEFINE hour == w.session
           v  == programDeliveryWindow(Z, w, t)
           d1 == LocalDay(Z, t)
           d2 == LocalDay(Z, at)
           i1 == d1 * Day + hour
           i2 == d2 * Day + hour
           c1 == Clock(Z, i1)
           a  == t - 2 * Day
           b  == at + Day
           s  == SlotOf(Z, v, d2)
           k  == Off(Z, t)
           c  == Clock(Z, t)
           e  == LocalDay(Z, i1)
<1>1. /\ d1 \in Int /\ d2 \in Int /\ hour \in 0 .. Day - 1 /\ d1 * Day \in Int /\ d2 * Day \in Int
      /\ c \in 0 .. Day - 1 /\ k \in Int /\ t + k = d1 * Day + c /\ -Day <= k /\ k <= Day
  <2>1. hour \in 0 .. Day - 1
    BY DeliveryWindowAssumption DEF Window, Clocks
  <2>2. d1 \in Int /\ d2 \in Int /\ c \in 0 .. Day - 1 /\ k \in Int /\ t + k = d1 * Day + c
    BY ZonedFacts, LocalTyped DEF Local
  <2>3. -Day <= k /\ k <= Day
    BY ZonedFacts, DayFacts DEF Near, Off
  <2> HIDE DEF d1, d2, c, k, hour
  <2>4. QED
    BY <2>1, <2>2, <2>3, DayFacts
<1>2. i1 \in Int /\ i2 \in Int
  BY <1>1
<1> HIDE DEF i1
<1>3. /\ c1 \in 0 .. Day - 1 /\ e \in Int /\ e * Day \in Int
      /\ Local(Z, i1) = e * Day + c1 /\ Local(Z, i1) = i1 + Off(Z, i1) /\ Off(Z, i1) \in Int
  <2>1. c1 \in 0 .. Day - 1 /\ e \in Int /\ Local(Z, i1) = e * Day + c1 /\ Off(Z, i1) \in Int
    BY <1>2, ZonedFacts, LocalTyped
  <2> HIDE DEF e, c1
  <2>2. QED
    BY <2>1, DayFacts DEF Local
<1>4. v = [w EXCEPT !.slot = c1] /\ v \in Window /\ v.slot = c1 /\ v.slot # None
  <2>1. v = [w EXCEPT !.slot = c1]
    BY DEF programDeliveryWindow, i1
  <2>2. v \in Window
    BY ProgramWindow
  <2>3. v.slot = c1
    BY <2>1 DEF Window
  <2> HIDE DEF v, c1
  <2>4. QED
    BY <1>3, <2>1, <2>2, <2>3, DeliveryWindowAssumption
<1> HIDE DEF v, c1, d1, d2, hour, k, c, e
<1>5. a \in Int /\ b \in Int /\ t \in a .. b /\ at \in a .. b /\ Slack(Z, a, b) = 0
  BY SizedFacts
<1>6. \A u \in Int : a <= u /\ u <= b => Off(Z, u) = k
  <2>1. \A u, x \in a .. b : Off(Z, u) = Off(Z, x)
    <3> HIDE DEF a, b
    <3>1. QED
      BY <1>5, SlackFacts
  <2>2. ASSUME NEW u \in Int, a <= u, u <= b PROVE Off(Z, u) = k
    <3>1. u \in a .. b
      BY <1>5, <2>2
    <3> HIDE DEF a, b
    <3>2. QED
      BY <1>5, <2>1, <3>1 DEF k
  <2>3. QED
    BY <2>2
<1>7. s \in Int /\ s = d2 * Day + c1 - k /\ s <= at /\ at <= s + Grace
  <2>1. Within(at, s)
    BY <1>4 DEF s, v, d2
  <2>2. s \in Int
    BY <1>1, <1>4, SlotFacts
  <2>3. s \in a + Hour .. b - Hour
    <3> HIDE DEF s
    <3>1. QED
      BY <2>1, <2>2, SizedFacts DEF Within
  <2> HIDE DEF a, b
  <2>4. s = (d2 * Day + v.slot) - Off(Z, t)
    <3> DEFINE lf == d2 * Day + v.slot
    <3>1. lf \in Int /\ s = Utc(lf)
      BY <1>1, <1>4, SlotFacts DEF s
    <3>2. Utc(lf) \in a + Hour .. b - Hour
      BY <2>3, <3>1
    <3> HIDE DEF lf, s
    <3>3. Utc(lf) = lf - Off(Z, t)
      BY <1>5, <3>1, <3>2, UtcSteady
    <3>4. QED
      BY <3>1, <3>3 DEF lf
  <2>5. s = d2 * Day + c1 - k
    BY <1>1, <1>3, <1>4, <2>4 DEF k
  <2> HIDE DEF s
  <2>6. QED
    BY <2>1, <2>2, <2>5 DEF Within
<1> HIDE DEF s
<1>8. d1 <= d2
  <2>1. Off(Z, at) = k
    BY <1>5, <1>6
  <2>2. at + k = d2 * Day + Clock(Z, at) /\ Clock(Z, at) \in 0 .. Day - 1
    BY <2>1, ZonedFacts, LocalTyped DEF Local, d2
  <2>3. d2 < d1 => d2 * Day + Day <= d1 * Day
    <3>1. (d2 + 1) * Day = d2 * Day + Day
      BY <1>1, DayFacts
    <3>2. d2 < d1 => (d2 + 1) * Day <= d1 * Day
      BY <1>1, DayFacts
    <3>3. QED
      BY <3>1, <3>2
  <2>4. QED
    BY <1>1, <2>2, <2>3, DayFacts
<1>9. i2 = i1 + (d2 - d1) * Day /\ (d2 - d1) * Day \in Int /\ 0 <= (d2 - d1) * Day
      /\ (e + (d2 - d1)) * Day = e * Day + (d2 - d1) * Day
  <2>1. (d2 - d1) * Day = d2 * Day - d1 * Day /\ (e + (d2 - d1)) * Day = e * Day + (d2 - d1) * Day
    BY <1>1, <1>3, DayFacts
  <2>2. d1 * Day <= d2 * Day
    BY <1>1, <1>8, DayFacts
  <2>3. QED
    BY <1>1, <2>1, <2>2 DEF i1
<1> HIDE DEF i2
\* Both are on the same side of the change of the clock.
<1>10. Off(Z, i2) = Off(Z, i1)
  <2>1. CASE Off(Z, i1) = k
    <3> DEFINE n == e - d1
    <3>1. n \in Int /\ n * Day = e * Day - d1 * Day
      BY <1>1, <1>3, DayFacts
    <3> HIDE DEF n
    <3>2. hour + k - c1 = n * Day /\ n * Day \in Int
      BY <1>1, <1>2, <1>3, <2>1, <3>1, DayFacts DEF i1
    <3>3. -Day <= n * Day /\ n * Day <= Day
      <4>1. n * Day > -2 * Day /\ n * Day < 2 * Day
        BY <1>1, <1>3, <3>2, DayFacts
      <4>2. (n <= -2 => n * Day <= -2 * Day) /\ (n >= 2 => n * Day >= 2 * Day)
        BY <3>1, DayFacts
      <4>3. n = -1 \/ n = 0 \/ n = 1
        BY <3>1, <4>1, <4>2, DayFacts
      <4>4. QED
        BY <4>3, DayFacts
    <3>4. i2 = s + n * Day
      BY <1>1, <1>2, <1>3, <1>7, <3>2, DayFacts DEF i2
    <3>5. a <= i2 /\ i2 <= b
      BY <1>2, <1>7, <3>2, <3>3, <3>4, SizedFacts
    <3>6. QED
      BY <1>2, <1>6, <2>1, <3>5
  <2>2. CASE Off(Z, i1) # k
    <3>1. a <= i1
      BY <1>1, <1>2, DayFacts DEF i1
    <3>2. b < i1
      BY <1>2, <1>5, <1>6, <2>2, <3>1
    <3>3. QED
      BY <1>2, <1>5, <1>9, <2>2, <3>2, ZonedFacts DEF Off, k
  <2>3. QED
    BY <2>1, <2>2
<1>11. Clock(Z, i2) = c1
  <2> DEFINE n == e + (d2 - d1)
  <2>1. n \in Int /\ n * Day \in Int
    BY <1>1, <1>3, DayFacts
  <2>2. Local(Z, i2) = i2 + Off(Z, i2)
    BY DEF Local
  <2> HIDE DEF n
  <2>3. Local(Z, i2) = n * Day + c1
    <3> DEFINE g == (d2 - d1) * Day
               h == e * Day
    <3>1. g \in Int /\ h \in Int /\ i2 = i1 + g /\ n * Day = h + g /\ h + c1 = i1 + Off(Z, i1)
      BY <1>3, <1>9 DEF n
    <3> HIDE DEF g, h
    <3>2. n * Day + c1 = i2 + Off(Z, i1)
      BY <1>2, <1>3, <3>1
    <3>3. QED
      BY <1>10, <2>2, <3>2
  <2>4. QED
    BY <1>2, <1>3, <2>1, <2>3, ZonedFacts, LocalIs
<1>12. programDeliveryWindow(Z, w, at) = [w EXCEPT !.slot = c1]
  BY <1>11 DEF programDeliveryWindow, i2, d2, hour
<1>13. QED
  BY <1>4, <1>12 DEF v

\* A time at which no blackout delays the mail is one at which the tick may send it.
LEMMA Settles ==
  ASSUME Zoned, Near, NEW w \in Window, NEW x \in Int, NEW dates \in SUBSET {x, x + 1},
         NEW t \in Int, NEW at \in Int, at = computeDeliveryTime(Z, programDeliveryWindow(Z, w, t), t),
         Slack(Z, t - 2 * Day, at + Day) = 0
  PROVE  /\ at >= t
         /\ ~OnBlackout(Z, dates, at) =>
              Open(Z, programDeliveryWindow(Z, w, at), at) /\ programSendTime(Z, w, dates, at) = at
<1> DEFINE v == programDeliveryWindow(Z, w, t)
           u == programDeliveryWindow(Z, w, at)
<1>1. v \in Window /\ u \in Window
  BY ProgramWindow
<1> HIDE DEF v
<1>2. Slack(Z, t - Day, at + Day) = 0
  BY ZonedFacts, SizedFacts DEF Slack
<1>3. Meets(v, t, at)
  <2>1. at = computeDeliveryTime(Z, v, t)
    BY DEF v
  <2>2. QED
    BY <1>1, <1>2, <2>1, AnyTimeSteady, SlotTimeSteady
<1>4. at >= t /\ Open(Z, v, at) /\ (v.slot # None /\ at # t => Within(at, SlotOf(Z, v, LocalDay(Z, at))))
  BY <1>3 DEF Meets
<1>5. u = v
  <2>1. CASE at = t
    BY <2>1 DEF v
  <2>2. CASE at # t
    <3>1. v.slot # None => Within(at, SlotOf(Z, v, LocalDay(Z, at)))
      BY <1>4, <2>2
    <3>2. QED
      BY <1>4, <3>1, SessionSteady DEF v
  <2>3. QED
    BY <2>1, <2>2
<1>6. Open(Z, u, at)
  BY <1>4, <1>5
<1> HIDE DEF u
<1>7. computeDeliveryTime(Z, u, at) = at
  <2>1. Slack(Z, at - Day, at + Day) = 0
    BY <1>4, ZonedFacts, SizedFacts DEF Slack
  <2>2. QED
    BY <1>1, <1>6, <2>1, OpenStays
<1>8. ASSUME ~OnBlackout(Z, dates, at) PROVE programSendTime(Z, w, dates, at) = at
  <2>1. PICK f : /\ f[0] = [at |-> at, again |-> TRUE] /\ Chain(w, dates, f)
                 /\ programSendTime(Z, w, dates, at) = f[MaxPasses].at
    BY PassFacts
  <2>2. 1 \in 1 .. MaxPasses /\ 1 \in 0 .. MaxPasses
    BY DeliveryWindowAssumption
  <2>3. f[1] = SendPass(Z, w, dates, at)
    <3>1. f[1] = IF f[0].again THEN SendPass(Z, w, dates, f[0].at) ELSE f[0]
      BY <2>1, <2>2 DEF Chain
    <3>2. QED
      BY <2>1, <3>1
  <2>4. SendPass(Z, w, dates, at) = [at |-> at, again |-> FALSE]
    BY <1>7, <1>8 DEF SendPass, u
  <2>5. ~f[1].again /\ f[1].at = at
    BY <2>3, <2>4
  <2>6. f[MaxPasses] = f[1]
    BY <2>1, <2>2, <2>5, FinalPass
  <2>7. QED
    BY <2>1, <2>5, <2>6
<1>9. QED
  BY <1>4, <1>6, <1>8 DEF u

\* What programSendTime yields, with blackouts of today and tomorrow: the first pass settles, or the
\* second, which starts with the day after the blackout.
LEMMA ProgramMeans ==
  ASSUME Zoned, Near, NEW w \in Window,
         NEW dates \in SUBSET {LocalDay(Z, now), LocalDay(Z, now) + 1}
  PROVE  ProgramHonoured(w, dates)
<1> DEFINE x  == LocalDay(Z, now)
           at == programSendTime(Z, w, dates, now)
           a  == now - 2 * Day
           c(t) == computeDeliveryTime(Z, programDeliveryWindow(Z, w, t), t)
<1> SUFFICES ASSUME Slack(Z, a, at + Day) = 0
             PROVE  /\ at >= now /\ ~OnBlackout(Z, dates, at)
                    /\ Open(Z, programDeliveryWindow(Z, w, at), at)
                    /\ programSendTime(Z, w, dates, at) = at
  BY DEF ProgramHonoured
<1>1. PICK f : /\ f[0] = [at |-> now, again |-> TRUE] /\ Chain(w, dates, f)
               /\ at = f[MaxPasses].at
  BY PassFacts
<1>2. Chain(w, dates, f)
  BY <1>1
<1>3. 1 \in 1 .. MaxPasses /\ 2 \in 1 .. MaxPasses /\ 1 \in 0 .. MaxPasses /\ 2 \in 0 .. MaxPasses
  BY DeliveryWindowAssumption, ClockSizes
<1>4. f[1] = SendPass(Z, w, dates, now)
  <2>1. f[1] = IF f[0].again THEN SendPass(Z, w, dates, f[0].at) ELSE f[0]
    BY <1>2, <1>3 DEF Chain
  <2>2. QED
    BY <1>1, <2>1
<1>5. x \in Int /\ now \in Int /\ a \in Int /\ dates \in SUBSET {x, x + 1}
  BY ZonedFacts, LocalTyped, SizedFacts
<1> DEFINE Pass(p, u, t) ==
             /\ u \in Int /\ p.at \in Int /\ u <= p.at /\ p.again \in BOOLEAN
             /\ u >= t \/ (Z.by # 0 /\ t - 2 * Hour <= Z.at /\ Z.at <= t + Hour /\ u >= t - Hour)
             /\ p.again => OnBlackout(Z, dates, u) /\ p.at = blackoutEnd(Z, dates, u)
             /\ ~p.again => p.at = u /\ (OnBlackout(Z, dates, u) => blackoutEnd(Z, dates, u) <= u)
<1>6. \A t \in Int : Pass(SendPass(Z, w, dates, t), c(t), t)
  BY <1>5, OnePass
<1> HIDE DEF x, at, c
\* Nothing that a pass yields is so late that the clock changes before it,
<1>7. ASSUME NEW i \in {1, 2}, f[i].at \in Int
      PROVE  at \in Int /\ Slack(Z, a, f[i].at + Day) = 0
  <2>1. i \in 0 .. MaxPasses
    BY <1>3
  <2>2. at \in Int /\ (at >= f[i].at \/ (Z.by # 0 /\ at >= Z.at - 2 * Hour))
    BY <1>1, <1>2, <1>5, <1>7, <2>1, PassesRise
  <2>3. QED
    BY <1>5, <1>7, <2>2, ZonedFacts, SizedFacts DEF Slack
\* and a blackout that goes on is not over.
<1>8. ASSUME NEW t \in Int, Slack(Z, a, t + Day) = 0, t >= now, OnBlackout(Z, dates, t)
      PROVE  blackoutEnd(Z, dates, t) \in Int /\ t < blackoutEnd(Z, dates, t)
  <2>1. PICK d \in Int : /\ LocalDay(Z, t) < d /\ blackoutEnd(Z, dates, t) = startOfLocalDay(Z, d)
                         /\ blackoutEnd(Z, dates, t) \in Int
    BY <1>5, <1>8, ShortBlackout
  <2>2. Slack(Z, t - Hour, t + Hour) = 0
    BY <1>5, <1>8, ZonedFacts, SizedFacts DEF Slack
  <2>3. QED
    BY <2>1, <2>2, NextDayAhead
<1>9. Pass(f[1], c(now), now)
  BY <1>4, <1>5, <1>6
<1>10. at \in Int /\ Slack(Z, a, f[1].at + Day) = 0
  BY <1>7, <1>9
<1>11. Slack(Z, a, c(now) + Day) = 0
  BY <1>5, <1>9, <1>10, ZonedFacts, SizedFacts DEF Slack
<1>12. c(now) >= now
  BY <1>5, <1>9, <1>11, Settles DEF c
<1>13. CASE ~f[1].again
  <2>2. f[MaxPasses] = f[1]
    BY <1>2, <1>3, <1>13, FinalPass
  <2>3. at = c(now)
    BY <1>1, <1>9, <1>13, <2>2
  <2>4. ~OnBlackout(Z, dates, at)
    BY <1>8, <1>9, <1>11, <1>12, <1>13, <2>3
  <2>5. QED
    BY <1>5, <1>10, <1>12, <2>3, <2>4, Settles DEF c
<1>14. CASE f[1].again
  <2> DEFINE u  == c(now)
             be == f[1].at
  <2>1. u \in Int /\ be \in Int /\ OnBlackout(Z, dates, u) /\ be = blackoutEnd(Z, dates, u)
        /\ now <= u /\ u < be
    BY <1>8, <1>9, <1>11, <1>12, <1>14
  <2>2. PICK d \in Int : /\ LocalDay(Z, u) < d /\ \A i \in Int : d <= i => i \notin dates
                         /\ be = startOfLocalDay(Z, d)
    <3>1. \A t \in Int : OnBlackout(Z, dates, t) =>
            \E d \in Int : /\ LocalDay(Z, t) < d /\ \A i \in Int : d <= i => i \notin dates
                           /\ blackoutEnd(Z, dates, t) = startOfLocalDay(Z, d)
      BY <1>5, ShortBlackout
    <3> HIDE DEF u, be
    <3>2. QED
      BY <2>1, <3>1
  <2>3. Slack(Z, a, be + Day) = 0
    BY <1>10
  <2>4. f[2] = SendPass(Z, w, dates, be)
    <3>1. f[2] = IF f[1].again THEN SendPass(Z, w, dates, f[1].at) ELSE f[1]
      <4>1. f[2] = IF f[2 - 1].again THEN SendPass(Z, w, dates, f[2 - 1].at) ELSE f[2 - 1]
        BY <1>2, <1>3 DEF Chain
      <4>2. 2 - 1 = 1
        OBVIOUS
      <4>3. QED
        BY <4>1, <4>2
    <3>2. QED
      BY <1>14, <3>1
  <2>5. Pass(f[2], c(be), be)
    BY <1>6, <2>1, <2>4
  <2>6. Slack(Z, a, f[2].at + Day) = 0
    BY <1>7, <2>5
  <2> HIDE DEF u, be
  <2>7. c(be) >= be /\ Slack(Z, a, c(be) + Day) = 0
    BY <1>5, <2>1, <2>3, <2>5, <2>6, ZonedFacts, SizedFacts DEF Slack
  <2>8. be = Utc(d * Day) /\ Local(Z, be) = d * Day /\ LocalDay(Z, be) = d /\ d * Day \in Int
    <3> DEFINE l == d * Day
               b == be + Day
    <3>1. l \in Int /\ Local(Z, u) < l /\ Utc(l) <= be /\ Local(Z, u) = u + Off(Z, u) /\ Off(Z, u) \in Int
      <4>1. l \in Int /\ Local(Z, u) < l /\ Utc(l) <= be
        BY <2>1, <2>2, NextDayAhead
      <4>2. QED
        BY <2>1, <4>1, ZonedFacts, LocalTyped DEF Local
    <3> HIDE DEF l
    <3>2. Utc(l) \in Int /\ Utc(l) >= l - Off(Z, u) - Hour
      BY <2>1, <3>1, UtcFacts
    <3>3. Utc(l) \in a + Hour .. b - Hour /\ u \in a .. b /\ b \in Int /\ Slack(Z, a, b) = 0
      BY <1>5, <2>1, <2>3, <3>1, <3>2, SizedFacts
    <3> HIDE DEF a, b
    <3>4. Local(Z, Utc(l)) = l
      BY <1>5, <3>1, <3>3, UtcSteady
    <3>5. be = Utc(l) /\ LocalDay(Z, Utc(l)) = d
      BY <2>2, <3>4, DayStartsSteady DEF l
    <3>6. QED
      BY <3>1, <3>4, <3>5 DEF l
  <2>9. d <= LocalDay(Z, c(be))
    <3> DEFINE t == c(be)
               e == LocalDay(Z, t)
    <3>1. /\ t \in Int /\ e \in Int /\ Clock(Z, t) \in 0 .. Day - 1
          /\ Local(Z, t) = e * Day + Clock(Z, t) /\ Local(Z, t) = t + Off(Z, t)
          /\ Local(Z, be) = be + Off(Z, be) /\ Off(Z, t) \in Int
      BY <2>1, <2>5, ZonedFacts, LocalTyped DEF Local
    <3>2. Off(Z, t) = Off(Z, be)
      BY <1>5, <2>1, <2>7, <3>1, ZonedFacts, SizedFacts DEF Off, Slack
    <3> HIDE DEF t, e
    <3>3. d * Day <= e * Day + Clock(Z, t) /\ e * Day \in Int
      <4>1. be <= t
        BY <2>7 DEF t
      <4>2. QED
        BY <2>1, <2>8, <3>1, <3>2, <4>1, DayFacts
    <3>4. e < d => e * Day + Day <= d * Day
      <4>1. e < d => (e + 1) * Day <= d * Day
        BY <3>1, DayFacts
      <4>2. (e + 1) * Day = e * Day + Day
        BY <3>1, DayFacts
      <4>3. QED
        BY <4>1, <4>2
    <3>5. QED
      BY <2>8, <3>1, <3>3, <3>4, DayFacts DEF t, e
  <2>10. ~OnBlackout(Z, dates, c(be))
    <3>1. LocalDay(Z, c(be)) \in Int
      BY <2>5, ZonedFacts, LocalTyped
    <3>2. QED
      BY <2>2, <2>9, <3>1 DEF OnBlackout
  <2>11. ~f[2].again /\ f[2].at = c(be)
    BY <2>5, <2>10
  <2>12. f[MaxPasses] = f[2]
    BY <1>2, <1>3, <2>11, FinalPass
  <2>13. at = c(be)
    BY <1>1, <2>11, <2>12
  <2>14. Slack(Z, be - 2 * Day, at + Day) = 0
    BY <1>5, <1>10, <2>1, <2>7, <2>13, ZonedFacts, SizedFacts DEF Slack
  <2>15. QED
    <3>1. at = computeDeliveryTime(Z, programDeliveryWindow(Z, w, be), be)
      BY <2>13 DEF c
    <3>2. \A t \in Int :
            /\ at = computeDeliveryTime(Z, programDeliveryWindow(Z, w, t), t)
            /\ Slack(Z, t - 2 * Day, at + Day) = 0
            => /\ at >= t
               /\ ~OnBlackout(Z, dates, at) =>
                    Open(Z, programDeliveryWindow(Z, w, at), at) /\ programSendTime(Z, w, dates, at) = at
      BY <1>5, <1>10, Settles
    <3>3. QED
      BY <1>5, <1>10, <2>1, <2>10, <2>13, <2>14, <3>1, <3>2
<1>15. QED
  BY <1>13, <1>14

-----------------------------------------------------------------------------
(* All of it at once.                                                      *)

\* The arithmetic of clocks means what it is for, in every zone and at every instant of a run: a flow
\* mail goes out while its window is open, at once if it is, and no slot of an allowed day is passed
\* over (computeDeliveryTime, delivery-window.ts:21); a broadcast reaches a recipient at the next
\* moment that their clock shows the time it was scheduled for (recipientSlot, broadcasts.ts:500); a
\* quiet period ends when the clock shows its end (quietPeriodEnd, contact-policy.ts); and the tick
\* may send at an instant that lies on no blackout date, in an open window, and stays where it is
\* (programSendTime, programs/window.ts:45).
THEOREM ClocksAreHonoured == Spec => []ClocksHonoured
<1>1. PolicyInv => ClocksHonoured
  <2> SUFFICES ASSUME PolicyInv, setup.mails = {} PROVE ClocksHonoured
    BY DEF ClocksHonoured
  <2>1. Zoned /\ Near
    <3>1. PICK c \in Case : Z = c.zone
      BY DEF PolicyInv, FromCase, Z
    <3>2. c.zone \in Zone /\ c.zone.by \in -Hour .. Hour
      BY ContactPolicyAssumption
    <3>3. now \in Nat
      BY ContactPolicyAssumption DEF PolicyInv, TypeOK
    <3>4. QED
      BY <3>1, <3>2, <3>3, ClockSizes DEF Zoned, Near
  <2>2. \A w \in Window : w.session = None => WindowHonoured(w)
    BY <2>1, WindowMeans
  <2>3. \A scheduled \in now - 2 * Day .. now + 1 : SlotHonoured(scheduled)
    <3>1. ASSUME NEW s \in now - 2 * Day .. now + 1 PROVE SlotHonoured(s)
      <4>1. s \in Int
        BY <2>1, ZonedFacts, DayFacts
      <4>2. QED
        BY <2>1, <4>1, SlotMeans
    <3>2. QED
      BY <3>1
  <2>4. \A s, e \in Clock24 : s # e => QuietEnds([start |-> s, end |-> e])
    <3>1. ASSUME NEW s \in Clock24, NEW e \in Clock24, s # e PROVE QuietEnds([start |-> s, end |-> e])
      <4> DEFINE q == [start |-> s, end |-> e]
      <4>1. q \in [start : Clock24, end : Clock24] /\ q.start # q.end
        BY <3>1
      <4> HIDE DEF q
      <4>2. QuietEnds(q)
        BY <2>1, <4>1, QuietMeans
      <4>3. QED
        BY <4>2 DEF q
    <3>2. QED
      BY <3>1
  <2>5. \A w \in Window, dates \in SUBSET {LocalDay(Z, now), LocalDay(Z, now) + 1} : ProgramHonoured(w, dates)
    BY <2>1, ProgramMeans
  <2>6. QED
    BY <2>2, <2>3, <2>4, <2>5 DEF ClocksHonoured
<1>2. QED
  BY <1>1, InitInv, PolicyStep, PTL DEF Spec
=============================================================================
