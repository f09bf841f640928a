--------------------------- MODULE CircuitBreaker --------------------------
(***************************************************************************)
(* One bucket of mailer_health, a sender domain and the kind 'marketing':  *)
(* the counters of its window, the ticks that evaluate them and the        *)
(* operator who resumes it.  An evaluation reads the bucket and writes,    *)
(* later, what it made of the copy; only the write of 'tripped' looks at   *)
(* the bucket again.  The aggregate, which never trips, and the rates,     *)
(* which are written for the screens, are left out.                        *)
(***************************************************************************)
EXTENDS Suppression

CONSTANTS
  Tick,           \* ticks that may evaluate at the same time
  MinSends,       \* minSendsBeforeEval
  TripPct,        \* hardBounceRatePctTrip, complaintRatePctTrip, combinedBounceRatePctTrip
  DegradePct      \* failedToSendRatePctDegrade

Counter == {"sent", "delivered", "bounced", "hardBounced", "softBounced", "complained",
            "failedToSend"}
Watched == {"hardBounced", "complained", "bounced"}

ASSUME CircuitBreakerAssumption ==
  /\ MinSends \in Nat /\ DegradePct \in Nat \ {0}
  /\ TripPct \in [Watched -> Nat \ {0}]

VARIABLES
  bucket,      \* status, counters, and whether the window is over
  eval,        \* each tick: idle, or the copy that it evaluates
  watch,       \* the ticks that do evaluate; does not change
  resumed      \* how often the operator resumed the bucket

breaker == <<bucket, eval, watch, resumed>>

Zero   == [k \in Counter |-> 0]
Absent == [status |-> "absent", counters |-> Zero, over |-> FALSE]
Resting == [phase |-> "idle", seen |-> Absent]

\* upsertCounter: one atomic increment, which makes a bucket that is not there.
Bumped(k) == [bucket EXCEPT !.counters[k] = @ + 1,
                            !.status = IF @ = "absent" THEN "healthy" ELSE @]

\* The sends of others count here too; budget.mail bounds them.
CountMail ==
  /\ Spend("mail")
  /\ \E k \in {"sent", "failedToSend"} : bucket' = Bumped(k)
  /\ UNCHANGED <<eval, watch, resumed>>

WindowEnds ==
  /\ bucket.status # "absent" /\ ~bucket.over /\ Spend("window")
  /\ bucket' = [bucket EXCEPT !.over = TRUE]
  /\ UNCHANGED <<eval, watch, resumed>>

\* In percent; without sends there is no rate.
Rate(n, of) == IF of = 0 THEN 0 ELSE (100 * n) \div of
Exceeds(c)  == \E k \in Watched : Rate(c[k], c.sent) >= TripPct[k]
Failing(c)  == Rate(c.failedToSend, c.sent + c.failedToSend) >= DegradePct

ReadBucket(t) ==
  /\ t \in watch /\ eval[t].phase = "idle" /\ bucket.status # "absent"
  /\ eval' = [eval EXCEPT ![t] = [phase |-> "evaluate", seen |-> bucket]]
  /\ UNCHANGED <<budget, bucket, watch, resumed>>

\* Mutation: the window of a tripped bucket rolls, too.
RollsTripped(c) == c.over
Rolls(c)        == c.over /\ c.status # "tripped"
Judged(c)       == ~Rolls(c) /\ c.counters.sent >= MinSends /\ c.status # "tripped"

\* Mutation: a degraded bucket is not tripped.
TrippableHealthy == {"healthy"}
Trippable        == {"healthy", "degraded"}

Rested(t) == eval' = [eval EXCEPT ![t] = Resting]

\* The new window starts healthy, whatever the bucket says by now.
Roll(t) ==
  /\ eval[t].phase = "evaluate" /\ Rolls(eval[t].seen)
  /\ bucket' = [status |-> "healthy", counters |-> Zero, over |-> FALSE]
  /\ Rested(t)
  /\ UNCHANGED <<budget, watch, resumed>>

\* The one write that is conditional on the status.
Trip(t) ==
  /\ eval[t].phase = "evaluate"
  /\ Judged(eval[t].seen) /\ Exceeds(eval[t].seen.counters)
  /\ bucket' = IF bucket.status \in Trippable THEN [bucket EXCEPT !.status = "tripped"]
                                              ELSE bucket
  /\ Rested(t)
  /\ UNCHANGED <<budget, watch, resumed>>

\* 'degraded' and back, unless the copy says so already.
Grade(t) ==
  /\ eval[t].phase = "evaluate"
  /\ Judged(eval[t].seen) /\ ~Exceeds(eval[t].seen.counters)
  /\ LET grade == IF Failing(eval[t].seen.counters) THEN "degraded" ELSE "healthy"
     IN  bucket' = IF eval[t].seen.status # grade THEN [bucket EXCEPT !.status = grade]
                                                  ELSE bucket
  /\ Rested(t)
  /\ UNCHANGED <<budget, watch, resumed>>

\* A tripped bucket, and one with few sends, is left as it is.
Leave(t) ==
  /\ eval[t].phase = "evaluate"
  /\ ~Rolls(eval[t].seen) /\ ~Judged(eval[t].seen)
  /\ Rested(t)
  /\ UNCHANGED <<budget, bucket, watch, resumed>>

\* A write throws, which the tick logs, or the process dies.
EvaluationFails(t) ==
  /\ eval[t].phase = "evaluate" /\ \E what \in {"db", "crash"} : Spend(what)
  /\ Rested(t)
  /\ UNCHANGED <<bucket, watch, resumed>>

\* Of one bucket or of all that are tripped; the counters stay.
ResumeBucket ==
  /\ bucket.status # "absent" /\ Spend("resume")
  /\ bucket' = [bucket EXCEPT !.status = "healthy"]
  /\ resumed' = resumed + 1
  /\ UNCHANGED <<eval, watch>>

-----------------------------------------------------------------------------
BreakerInit ==
  /\ bucket = Absent /\ resumed = 0
  /\ eval = [t \in Tick |-> Resting]

Bucket == [status : {"absent", "healthy", "degraded", "tripped"},
           counters : [Counter -> Nat], over : BOOLEAN]

BreakerTypeOK ==
  /\ bucket \in Bucket /\ resumed \in Nat /\ watch \subseteq Tick
  /\ eval \in [Tick -> [phase : {"idle", "evaluate"}, seen : Bucket]]

Evaluate(t) == ReadBucket(t) \/ Roll(t) \/ Trip(t) \/ Grade(t) \/ Leave(t)

BreakerNext ==
  \/ CountMail \/ WindowEnds \/ ResumeBucket
  \/ \E t \in Tick : Evaluate(t) \/ EvaluationFails(t)
=============================================================================
