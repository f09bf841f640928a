---------------------------- MODULE ProgramRun -----------------------------
(***************************************************************************)
(* One run of a program (a row of mailer_program_runs) and the mail it     *)
(* decides on.  tickProgramRun takes the run's lease, asks the host for    *)
(* facts, decides, writes the run and then makes the send rows; the hooks  *)
(* of the dispatch write to the same run when a row is accepted, deferred  *)
(* or cancelled.  Ticks of several processes, dispatches, the scheduler's  *)
(* wakes, operators and the host all interleave.  Every action is one      *)
(* database operation, or a call of the host's adapter and the operation   *)
(* on the lease that follows it.                                           *)
(*                                                                         *)
(* Time is a clock in units of MIN_ADVANCE_MS and more.  It stands still   *)
(* while somebody is between two database operations, and, but for         *)
(* budget.slow, while work is due: what outlives a lease is a slow call of *)
(* the host.  How a row is claimed, limited and sent is SendDispatch; here *)
(* a dispatch is its guard, its outcome and its hook.                      *)
(***************************************************************************)
EXTENDS ProgramRank, Sequences

CONSTANTS
  Ticker,        \* concurrent executions of tickProgramRun
  Process,       \* [Ticker -> process ids], PROCESS_WORKER
  Recipient,     \* contacts that recipients() may return
  Programs,      \* definitions by name
  Cases,         \* a program's name, the arm, the recipients, the tickers, what may go wrong
  LeaseSpan,     \* programs.leaseMs: a lease taken at t expires after t + LeaseSpan
  Recheck,       \* IN_FLIGHT_RECHECK_MS
  MaxDecision,   \* bound on decisions that make sends
  Nobody

\* crash: a tick or a hook dies; fault: the host or the provider fails; defer:
\* the contact policy, the delivery window or a session delays; slow: a unit
\* passes although work is due; wake: changed facts, clicks; ops: operators,
\* exit events; time: units the clock runs.
Rare == {"crash", "fault", "defer", "slow", "wake", "ops", "time"}

ASSUME ProgramRunAssumption ==
  /\ DOMAIN Process = Ticker
  /\ \A n \in DOMAIN Programs : IsProgram(Programs[n])
  /\ Cases \subseteq [program : DOMAIN Programs, arm : {"treatment", "holdout"},
                      to : (SUBSET Recipient) \ {{}}, by : SUBSET Ticker, bound : [Rare -> Nat]]
  /\ {LeaseSpan, Recheck, MaxDecision} \subseteq Nat
  /\ Nobody \notin {Process[w] : w \in Ticker}

VARIABLES
  clock,
  case,            \* the published definition, by name; the run's arm; recipients()
  run,             \* the document
  send,            \* status of the row of each decision and recipient
  touched,         \* updatedAt of each row: its last status change
  counted,         \* rows with program.counted
  jobs,            \* rows with a mailer:send job
  asked,           \* the action, the attempt and the time of each decision that made rows
  pc, tick,        \* each ticker's place in the tick, and what it works on
  stage,           \* each row's place in its dispatch
  enabled,         \* program.enabled
  cancelling,      \* an abort or a disable that has yet to cancel the rows
  news,            \* a Facts Changed event or a click that has yet to wake the run
  facts,           \* the host's answer: sat and fit (see ProgramRank)
  exitEvent,       \* an exit event was fired
  clickAt,         \* when the subject last clicked
  budget,
  revived,         \* history: a run that had ended is active again, or a failed
                   \* row that was given up for dead was retried
  overtaken        \* history: a decision was made while mail of an earlier one was
                   \* accepted and still to be counted

outside == <<case, enabled, cancelling, news, facts, exitEvent, clickAt>>
rows    == <<send, touched, counted, jobs, stage>>
vars    == <<clock, outside, run, rows, asked, pc, tick, budget, revived, overtaken>>

Active   == {"active", "sunset"}          \* ACTIVE_STATUSES
Decision == 1..MaxDecision
Row      == Decision \X Recipient
P        == Programs[case.program]
Actions  == DOMAIN P.actions
NoDecision == 0
NoLease  == [owner |-> Nobody, until |-> 0]
InFlight == {"queued", "sending", "deferred"}

Spend(what)    == budget[what] > 0 /\ budget' = [budget EXCEPT ![what] = @ - 1]
Goto(w, place) == pc' = [pc EXCEPT ![w] = place]
\* Accepted, and its count is still to come.
ToCount        == {s \in Row : send[s] = "sent" /\ (s \notin counted \/ stage[s] = "count")}
\* A write of the run; a new marker is a decision.
SetRun(r)      == /\ run' = r
                  /\ revived' = (revived \/ (run.status \notin Active /\ r.status \in Active))
                  /\ overtaken' = (overtaken \/ (/\ r.inFlight \notin {run.inFlight, NoDecision}
                                                 /\ ToCount # {}))
SmallerOf(s)   == CHOOSE x \in s : \A y \in s : x <= y
LargerOf(s)    == CHOOSE x \in s : \A y \in s : y <= x
Least(a, b)    == SmallerOf({a, b})

\* enterProgram: the run as it is inserted.
NewRun ==
  [status |-> "active", acts |-> [a \in {} |-> freshActionState], unanswered |-> 0,
   stage |-> 0, askSent |-> FALSE, engagedAt |-> Never, lastSent |-> Never,
   inFlight |-> NoDecision, lastCounted |-> NoDecision, nextTick |-> 1,
   wake |-> 0, lease |-> NoLease]

\* What a tick carries from its lease on: its now, the copy of the run, the
\* facts, the run it wants (next), the fields of it that it will write (set),
\* the attempt of the action that it chose, the wake it knows of, the rows it
\* reconciles, or makes (sends).
NoRow  == <<NoDecision, Nobody>>
NoTick == [now |-> 0, run |-> NewRun, facts |-> [sat |-> {}, fit |-> {}],
           next |-> NewRun, set |-> {}, chosen |-> Ask, attempt |-> 1, wake |-> 0,
           todo |-> {}, stale |-> {}, busy |-> FALSE, row |-> NoRow, sends |-> FALSE]

Init ==
  /\ clock = 1
  /\ case \in Cases /\ budget = case.bound
  /\ run = NewRun
  /\ send = [s \in Row |-> "none"] /\ touched = [s \in Row |-> 0]
  /\ counted = {} /\ jobs = {} /\ asked = <<>>
  /\ pc = [w \in Ticker |-> "idle"] /\ tick = [w \in Ticker |-> NoTick]
  /\ stage = [s \in Row |-> "none"]
  /\ enabled = TRUE /\ cancelling = FALSE /\ news = FALSE
  /\ facts = [sat |-> {}, fit |-> Actions]
  /\ exitEvent = FALSE /\ clickAt = Never /\ revived = FALSE /\ overtaken = FALSE

-----------------------------------------------------------------------------
(* The lease.                                                              *)

LeaseFree    == run.lease = NoLease \/ run.lease.until < clock
Owns(w)      == run.lease.owner = Process[w]
Renewed(w)   == [run EXCEPT !.lease.until = clock + LeaseSpan]
TickFrame    == UNCHANGED <<clock, outside, rows, asked, budget>>
Stop(w)      == Goto(w, "idle") /\ tick' = [tick EXCEPT ![w] = NoTick]
\* LeaseLostError, and the finally block, which releases nothing it has lost.
LoseLease(w) == ~Owns(w) /\ Stop(w) /\ UNCHANGED <<run, revived, overtaken>> /\ TickFrame

\* A pass of the scheduler ticks what is due, an operator whatever is active.
\* (A tick that begins while the lease is held ends at acquireLease, without a
\* trace, and is left out.)
Due(w) ==
  /\ pc[w] = "idle" /\ w \in case.by /\ enabled /\ run.status \in Active /\ LeaseFree
  /\ \/ run.nextTick <= clock /\ UNCHANGED budget
     \/ run.nextTick > clock /\ Spend("ops")
  /\ Goto(w, "acquire") /\ UNCHANGED <<clock, outside, run, revived, overtaken, rows, asked, tick>>

acquireLease(w) ==
  /\ pc[w] = "acquire"
  /\ IF run.status \in Active /\ LeaseFree
     THEN LET r == [run EXCEPT !.lease = [owner |-> Process[w], until |-> clock + LeaseSpan]]
          IN  /\ SetRun(r) /\ Goto(w, "resolve")
              /\ tick' = [tick EXCEPT ![w] = [NoTick EXCEPT !.now = clock, !.run = r,
                                              !.next = r, !.wake = r.wake]]
     ELSE Stop(w) /\ UNCHANGED <<run, revived, overtaken>>
  /\ TickFrame

\* factsAdapter.resolve answers, and renewLease: step 2.
Resolve(w) ==
  /\ pc[w] = "resolve"
  /\ \/ LoseLease(w)
     \/ /\ Owns(w) /\ SetRun(Renewed(w)) /\ Goto(w, "decide")
        /\ tick' = [tick EXCEPT ![w].facts = facts]
        /\ TickFrame

\* The adapter throws: the lease is released, and the scheduler puts off a run
\* that is still due.
HostFails(w) ==
  /\ pc[w] \in {"resolve", "recipients"} /\ Spend("fault")
  /\ SetRun([run EXCEPT !.lease = IF Owns(w) THEN NoLease ELSE @,
                        !.nextTick = IF @ <= clock THEN clock + 1 ELSE @])
  /\ Stop(w) /\ UNCHANGED <<clock, outside, rows, asked>>

-----------------------------------------------------------------------------
(* Steps 3 to 9, decided on the copies: no operation but the reads of the  *)
(* exit events and the clicks.                                             *)

\* Finish with the run `next`, writing the fields `set` of it and, if at is not
\* Never, nextTickAt: at least a unit ahead.
Wants(t, next, set, at) ==
  [t EXCEPT !.next = [next EXCEPT !.nextTick = IF at > t.now THEN at ELSE t.now + 1],
            !.set = IF at = Never THEN set ELSE set \cup {"nextTick"}]
Finishing(w, place, next, set, at) ==
  /\ Goto(w, place)
  /\ tick' = [tick EXCEPT ![w] = Wants(tick[w], next, set, at)]
  /\ UNCHANGED <<run, revived, overtaken>> /\ TickFrame
Silent(w, next, set, at) == Finishing(w, "finish", next, set, at)

\* Step 6: what engagement does to the copy.
engaged(w) ==
  LET t == tick[w]  since == LargerOf({t.run.engagedAt, 1})
  IN  newlySatisfied(t.run.acts, t.facts) # {} \/ clickAt > since
Engagement == {"unanswered", "stage", "askSent", "engagedAt", "status"}
AfterEngagement(w) ==
  LET t == tick[w]
  IN  IF engaged(w)
      THEN [t.run EXCEPT !.unanswered = 0, !.stage = 0, !.askSent = FALSE,
                         !.engagedAt = t.now, !.status = "active"]
      ELSE t.run
Asking(r)   == P.askAfter > 0 /\ r.stage = 2 /\ ~r.askSent
GapEnd(w)   == tick[w].now + P.gap

Decide(w) ==
  LET t == tick[w]  acts == t.run.acts
      works == Works(P, acts, t.facts, t.now)
      r == [AfterEngagement(w) EXCEPT !.acts = works]
      set == IF engaged(w) THEN {"acts"} \cup Engagement ELSE {"acts"}
      cool == earliestCooldown(works, t.now)
  IN
  /\ pc[w] = "decide"
  /\ CASE exitEvent ->
            Finishing(w, "cancelSends", [t.run EXCEPT !.status = "exited", !.inFlight = NoDecision],
                      {"status", "inFlight"}, Never)
       [] ~exitEvent /\ Done(P, acts, t.facts, t.now) ->
            Finishing(w, "finish", [t.run EXCEPT !.status = "completed", !.acts = works],
                      {"acts", "status"}, Never)
       [] OTHER ->
            IF r.status = "sunset"
            THEN Silent(w, r, set, t.now + P.gap * P.slowFactor)
            ELSE IF Ranked(P, acts, t.facts, t.now) = {}
            THEN Silent(w, r, set, IF cool = Never THEN GapEnd(w) ELSE Least(GapEnd(w), cool))
            ELSE LET a == IF Asking(r) THEN Ask ELSE First(P, acts, t.facts, t.now)
                 IN  /\ tick' = [tick EXCEPT ![w].next = r, ![w].set = set, ![w].chosen = a,
                                             ![w].attempt = Stored(works, a).attempts + 1]
                     /\ Goto(w, IF t.run.inFlight = NoDecision THEN "fresh" ELSE "inFlight")
                     /\ UNCHANGED <<run, revived, overtaken>> /\ TickFrame

\* cancelRunSends.
Cancelled(s) == IF send[s] \in {"queued", "deferred"} THEN "cancelled" ELSE send[s]
CancelRows   == /\ send' = [s \in Row |-> Cancelled(s)]
                /\ touched' = [s \in Row |-> IF Cancelled(s) = send[s] THEN touched[s] ELSE clock]
CancelSends(w) ==
  /\ pc[w] = "cancelSends" /\ CancelRows /\ Goto(w, "finish")
  /\ UNCHANGED <<run, revived, overtaken, tick, clock, outside, asked, budget, counted, jobs, stage>>
-----------------------------------------------------------------------------
(* countAcceptedSend: one guarded update, the row's flag, the next tick.   *)

AskDue(d) ==
  /\ run.status \in Active /\ run.stage = 2 /\ ~run.askSent
  /\ run.engagedAt = Never \/ run.engagedAt <= asked[d].at

\* The run with the decision of the accepted row s counted at the time `at`.
CountAt(s, at) ==
  LET d == s[1]  a == asked[d].action  due == a = Ask /\ AskDue(d)
      st == Stored(run.acts, a)
      r == [run EXCEPT !.lastCounted = d, !.unanswered = @ + 1,
                       !.lastSent = LargerOf({@, at}),
                       !.stage = IF due THEN 2 ELSE sunsetStageFor(P, run.unanswered + 1),
                       !.askSent = @ \/ due,
                       !.status = IF due THEN "sunset" ELSE @]
  IN  IF a = Ask THEN r
      ELSE [r EXCEPT !.acts = [b \in DOMAIN @ \cup {a} |->
                                 IF b = a THEN [st EXCEPT !.attempts = @ + 1] ELSE @[b]]]

\* Mutations: a count that the decision counted last does not stop; a count
\* dated by the decision and not by the provider's answer.
CountedAgain(s)     == CountAt(s, touched[s])
CountedByDecision(s) == IF run.lastCounted = s[1] THEN run ELSE CountAt(s, asked[s[1]].at)

Counted(s) == IF run.lastCounted = s[1] THEN run ELSE CountAt(s, touched[s])

\* The run once it is scheduled after the accepted row s, for the attempt after
\* its action's last.
Scheduled(s) ==
  LET a == asked[s[1]].action
      gap == gapMs(P, a, Stored(run.acts, a).attempts, run.stage, FALSE)
  IN  IF run.status \in Active THEN [run EXCEPT !.nextTick = touched[s] + gap] ELSE run

-----------------------------------------------------------------------------
(* Step 9: a decision is in flight.                                        *)

\* Mutation: a failed row is over, whatever its job does.
SettledOnFailure(s, now) == send[s] \in InFlight

sendIsInFlight(s, now) ==
  \/ send[s] \in InFlight
  \/ send[s] = "failed" /\ now - touched[s] < Recheck
RowsOf(d) == {s \in Row : s[1] = d /\ send[s] # "none"}

\* Mutation: a queued row is waited for, however old.
ReadWithoutStale(w) ==
  LET t == tick[w]  read == RowsOf(t.run.inFlight) IN
  /\ pc[w] = "inFlight" /\ Goto(w, "reconcile")
  /\ tick' = [tick EXCEPT
       ![w].todo  = {s \in read : send[s] = "sent" /\ s \notin counted},
       ![w].busy  = \E s \in read : sendIsInFlight(s, t.now)]
  /\ UNCHANGED <<run, revived, overtaken>> /\ TickFrame

ReadInFlight(w) ==
  LET t == tick[w]  read == RowsOf(t.run.inFlight) IN
  /\ pc[w] = "inFlight" /\ Goto(w, "reconcile")
  /\ tick' = [tick EXCEPT
       ![w].todo  = {s \in read : send[s] = "sent" /\ s \notin counted},
       ![w].busy  = \E s \in read : sendIsInFlight(s, t.now),
       ![w].stale = {s \in read : send[s] = "queued" /\ t.now - touched[s] >= Recheck}]
  /\ UNCHANGED <<run, revived, overtaken>> /\ TickFrame

Reconcile(w) ==
  /\ pc[w] = "reconcile"
  /\ \E s \in tick[w].todo :
       /\ SetRun(Counted(s))
       /\ tick' = [tick EXCEPT ![w].todo = @ \ {s}, ![w].row = s]
       /\ Goto(w, IF run.lastCounted = s[1] THEN "markOnly" ELSE "mark")
  /\ TickFrame

ReconcileMark(w) ==
  /\ pc[w] \in {"mark", "markOnly"}
  /\ counted' = counted \cup {tick[w].row}
  /\ Goto(w, IF pc[w] = "mark" THEN "schedule" ELSE "reconcile")
  /\ UNCHANGED <<clock, outside, run, revived, overtaken, send, touched, jobs, stage, asked, tick,
                 budget>>

ReconcileSchedule(w) ==
  /\ pc[w] = "schedule" /\ SetRun(Scheduled(tick[w].row))
  /\ Goto(w, "reconcile") /\ UNCHANGED tick /\ TickFrame

\* Rows in flight are waited for, the stale ones with a new job; otherwise the
\* marker goes, and a tick that counted a row decides again on fresh books.
Reconciled(w) ==
  LET t == tick[w]
      clear == [t.next EXCEPT !.inFlight = NoDecision]
      set == t.set \cup {"inFlight"}
  IN
  /\ pc[w] = "reconcile" /\ t.todo = {}
  /\ \/ /\ t.busy
        /\ jobs' = jobs \cup t.stale
        /\ Goto(w, "finish") /\ tick' = [tick EXCEPT ![w] = Wants(t, t.next, t.set, t.now + Recheck)]
        /\ UNCHANGED <<clock, outside, run, revived, overtaken, send, touched, counted, stage, asked,
                       budget>>
     \/ ~t.busy /\ t.row # NoRow /\ Silent(w, clear, set, t.now + 1)
     \/ /\ ~t.busy /\ t.row = NoRow /\ Goto(w, "fresh")
        /\ tick' = [tick EXCEPT ![w].next = clear, ![w].set = set]
        /\ UNCHANGED <<run, revived, overtaken>> /\ TickFrame

-----------------------------------------------------------------------------
(* Steps 10 to 14.                                                         *)

\* A send accepted since the lease was taken: decide again, on fresh books.
Fresh(w) ==
  LET t == tick[w] IN
  /\ pc[w] = "fresh"
  /\ \/ LoseLease(w)
     \/ Owns(w) /\ run.lastCounted # t.run.lastCounted /\ Silent(w, t.next, t.set, t.now + 1)
     \/ /\ Owns(w) /\ run.lastCounted = t.run.lastCounted /\ Goto(w, "timing")
        /\ UNCHANGED <<run, revived, overtaken, tick>> /\ TickFrame

\* An action completed, or a click, since the last send.
Progress(t) == \/ \E a \in DOMAIN t.next.acts : t.next.acts[a].completedAt > t.run.lastSent
               \/ clickAt > t.run.lastSent
EligibleAt(t) == IF t.run.lastSent = Never THEN Never
                 ELSE t.run.lastSent + gapMs(P, t.chosen, t.attempt - 1, t.next.stage, Progress(t))

\* The session rule, the gap, and the window with its blackouts.
Timing(w) ==
  LET t == tick[w] IN
  /\ pc[w] = "timing"
  /\ \/ /\ Spend("defer") /\ Goto(w, "finish")
        /\ tick' = [tick EXCEPT ![w] = Wants(t, t.next, t.set, t.now + 1)]
        /\ UNCHANGED <<clock, outside, run, revived, overtaken, rows, asked>>
     \/ EligibleAt(t) > t.now /\ Silent(w, t.next, t.set, EligibleAt(t))
     \/ /\ EligibleAt(t) <= t.now /\ Goto(w, "recipients")
        /\ UNCHANGED <<run, revived, overtaken, tick>> /\ TickFrame

\* The run a decision leaves: a marker, and for the holdout arm the count that
\* an accepted row would have made.
Marked(t)  == [t.next EXCEPT !.nextTick = t.now + Recheck]
Attempted(acts, a) == [acts EXCEPT ![a].attempts = @ + 1]
HeldOut(t) ==
  LET a == t.chosen
      r == [t.next EXCEPT !.unanswered = @ + 1, !.lastSent = t.now, !.inFlight = NoDecision,
                          !.stage = IF a = Ask THEN 2 ELSE sunsetStageFor(P, t.next.unanswered + 1),
                          !.askSent = @ \/ a = Ask,
                          !.status = IF a = Ask THEN "sunset" ELSE @,
                          !.acts = IF a = Ask THEN @ ELSE Attempted(@, a)]
  IN  [r EXCEPT !.nextTick = t.now + gapMs(P, a, Stored(r.acts, a).attempts, r.stage, FALSE)]
HoldoutSet == {"lastSent", "unanswered", "stage", "inFlight", "lastCounted", "nextTick"}

\* recipients() answers, and renewLease.  Nobody may be left once the suppressed
\* are taken out, and the template may have drifted: silence for the gap.
Recipients(w) ==
  LET t == tick[w] IN
  /\ pc[w] = "recipients"
  /\ \/ LoseLease(w)
     \/ /\ Owns(w) /\ SetRun(Renewed(w)) /\ Goto(w, "finish")
        /\ \/ /\ Spend("fault")
              /\ tick' = [tick EXCEPT ![w] = Wants(t, t.next, t.set, GapEnd(w))]
           \/ /\ UNCHANGED budget
              /\ tick' = [tick EXCEPT ![w].sends = TRUE,
                     ![w].next = IF case.arm = "holdout" THEN HeldOut(t) ELSE Marked(t),
                     ![w].set = IF case.arm = "treatment" THEN @ \cup {"inFlight", "nextTick"}
                                ELSE @ \cup HoldoutSet \cup
                                     (IF t.chosen = Ask THEN {"askSent", "status"} ELSE {})]
        /\ UNCHANGED <<clock, outside, rows, asked>>

-----------------------------------------------------------------------------
(* finish: the run, fenced on the lease, then the decision, then the rows. *)

\* actionDiffs: of the states the copy had, the fields that changed, but never
\* completedAt.
Diffed(t, a) ==
  IF a \notin DOMAIN t.run.acts THEN run.acts[a]
  ELSE [f \in DOMAIN freshActionState |->
          IF f # "completedAt" /\ t.next.acts[a][f] # t.run.acts[a][f]
          THEN t.next.acts[a][f] ELSE run.acts[a][f]]

\* settleActionDates: the first writer wins.
Dated(t, a) ==
  IF a \notin DOMAIN run.acts THEN t.next.acts[a]
  ELSE IF /\ a \in DOMAIN t.next.acts /\ run.acts[a].completedAt = Never
          /\ t.next.acts[a].completedAt # Never /\ Stored(t.run.acts, a).completedAt = Never
       THEN [run.acts[a] EXCEPT !.completedAt = t.next.acts[a].completedAt,
                                !.status = "satisfied"]
       ELSE run.acts[a]

CountMoved(w) == tick[w].sends /\ run.lastCounted # tick[w].run.lastCounted

\* Mutation: a wake is not noticed.
MatchesAsleep(w) == Owns(w) /\ ~CountMoved(w)

Matches(w) == Owns(w) /\ run.wake = tick[w].wake /\ ~CountMoved(w)

\* The decision's id is new: it goes into the marker, or for the holdout arm
\* into lastCountedDecisionId.
Write(w) ==
  LET t == tick[w]  d == Len(asked) + 1
      question == [action |-> t.chosen, attempt |-> t.attempt, at |-> t.now]
      fields == [f \in DOMAIN run |->
                   CASE f = "acts" -> [a \in DOMAIN run.acts |-> Diffed(t, a)]
                     [] f = "lease" -> IF t.sends THEN run.lease ELSE NoLease
                     [] f = "inFlight" /\ t.sends /\ case.arm = "treatment" -> d
                     [] f = "lastCounted" /\ t.sends /\ case.arm = "holdout" -> d
                     [] OTHER -> IF f \in t.set THEN t.next[f] ELSE run[f]]
  IN
  /\ pc[w] = "finish" /\ Matches(w)
  /\ t.sends => Len(asked) < MaxDecision
  /\ SetRun(fields)
  /\ asked' = IF t.sends THEN Append(asked, question) ELSE asked
  /\ tick' = [tick EXCEPT ![w].todo = IF t.sends THEN {d} \X case.to ELSE {}]
  /\ Goto(w, "settle")
  /\ UNCHANGED <<clock, outside, rows, budget>>

\* The write matched nothing and the run is read again: the lease is lost, the
\* books moved (the decision is abandoned), or there was a wake: tick soon.
Reread(w) ==
  LET t == tick[w] IN
  /\ pc[w] = "finish" /\ ~Matches(w)
  /\ \/ LoseLease(w)
     \/ /\ Owns(w) /\ UNCHANGED <<run, revived, overtaken>> /\ TickFrame
        /\ IF CountMoved(w)
           THEN Goto(w, "abandon") /\ UNCHANGED tick
           ELSE /\ UNCHANGED pc
                /\ tick' = [tick EXCEPT ![w].wake = run.wake,
                              ![w].next.nextTick = IF "nextTick" \in t.set THEN t.now + 1 ELSE @]

Abandon(w) ==
  /\ pc[w] = "abandon" /\ Goto(w, "release")
  /\ SetRun(IF Owns(w) THEN [run EXCEPT !.nextTick = tick[w].now + 1] ELSE run)
  /\ UNCHANGED tick /\ TickFrame

settleActionDates(w) ==
  LET t == tick[w] IN
  /\ pc[w] = "settle" /\ Goto(w, IF t.sends THEN "renew" ELSE "release")
  /\ SetRun([run EXCEPT !.acts = [a \in DOMAIN @ \cup DOMAIN t.next.acts |-> Dated(t, a)]])
  /\ UNCHANGED tick /\ TickFrame

RenewForRows(w) ==
  /\ pc[w] = "renew"
  /\ \/ LoseLease(w)
     \/ Owns(w) /\ SetRun(Renewed(w)) /\ Goto(w, "insert") /\ UNCHANGED tick /\ TickFrame

InsertRows(w) ==
  LET new == tick[w].todo IN
  /\ pc[w] = "insert"
  /\ send' = [s \in Row |-> IF s \notin new THEN send[s]
                            ELSE IF case.arm = "holdout" THEN "holdout" ELSE "queued"]
  /\ touched' = [s \in Row |-> IF s \in new THEN tick[w].now ELSE touched[s]]
  /\ counted' = IF case.arm = "holdout" THEN counted \cup new ELSE counted
  /\ Goto(w, IF case.arm = "holdout" THEN "release" ELSE "enqueue")
  /\ UNCHANGED <<clock, outside, run, revived, overtaken, jobs, stage, asked, tick, budget>>

Enqueue(w) ==
  /\ pc[w] = "enqueue"
  /\ \E s \in tick[w].todo :
       /\ jobs' = jobs \cup {s}
       /\ tick' = [tick EXCEPT ![w].todo = @ \ {s}]
       /\ Goto(w, IF tick[w].todo = {s} THEN "release" ELSE "enqueue")
  /\ UNCHANGED <<clock, outside, run, revived, overtaken, send, touched, counted, stage, asked,
                 budget>>

releaseLease(w) ==
  /\ pc[w] = "release" /\ Stop(w)
  /\ SetRun(IF Owns(w) THEN [run EXCEPT !.lease = NoLease] ELSE run)
  /\ TickFrame

Crash(w) ==
  /\ pc[w] # "idle" /\ Spend("crash") /\ Stop(w)
  /\ UNCHANGED <<clock, outside, run, revived, overtaken, rows, asked>>

-----------------------------------------------------------------------------
(* The dispatch of a row, and its hooks.                                   *)

Step(s, place) == stage' = [stage EXCEPT ![s] = place]
SetSend(s, st) == /\ send' = [send EXCEPT ![s] = st]
                  /\ touched' = [touched EXCEPT ![s] = clock]
HookFrame == UNCHANGED <<clock, outside, send, touched, jobs, asked, pc, tick, budget>>
Verdict(s, place) == Step(s, place) /\ UNCHANGED <<run, revived, overtaken, counted>> /\ HookFrame

\* A job of a deferred row carries a delay.
Ripe(s) == s \in jobs /\ (send[s] = "deferred" => touched[s] < clock)

Claim(s) ==
  /\ Ripe(s) /\ stage[s] = "none"
  /\ jobs' = jobs \ {s}
  /\ IF send[s] \in {"queued", "failed", "deferred"}
     THEN SetSend(s, "sending") /\ Step(s, "guard")
     ELSE UNCHANGED <<send, touched, stage>>
  /\ revived' = (revived \/ (send[s] = "failed" /\ clock - touched[s] >= Recheck))
  /\ UNCHANGED <<clock, outside, run, overtaken, counted, asked, pc, tick, budget>>

ActionOf(s) == asked[s[1]].action
\* guard: the run and the program as they are read; the ask needs no facts.
Guard(s) ==
  /\ stage[s] = "guard"
  /\ Verdict(s, CASE run.status \notin Active \/ ~enabled -> "cancel"
                  [] run.status \in Active /\ enabled /\ ActionOf(s) = Ask ->
                       IF AskDue(s[1]) THEN "accept" ELSE "cancel"
                  [] OTHER ->
                       IF Stored(run.acts, ActionOf(s)).completedAt # Never
                       THEN "done" ELSE "facts")

\* factsAdapter.resolve once more, after any deferral.
GuardFacts(s) ==
  /\ stage[s] = "facts"
  /\ Verdict(s, CASE ActionOf(s) \in facts.sat -> "done"
                  [] ActionOf(s) \notin facts.sat /\ ActionOf(s) \notin facts.fit -> "cancel"
                  [] OTHER -> "accept")

\* The action is done: its date is set once, never cleared.
GuardDone(s) ==
  LET a == ActionOf(s)  st == Stored(run.acts, a) IN
  /\ stage[s] = "done" /\ Step(s, "cancel")
  /\ SetRun(IF st.completedAt # Never THEN run
            ELSE [run EXCEPT !.acts = [b \in DOMAIN @ \cup {a} |->
                    IF b = a THEN [st EXCEPT !.completedAt = clock, !.status = "satisfied"]
                    ELSE @[b]]])
  /\ UNCHANGED counted /\ HookFrame

DispatchFrame == UNCHANGED <<clock, outside, run, revived, overtaken, counted, asked, pc, tick>>
CancelRow(s) ==
  /\ stage[s] = "cancel" /\ SetSend(s, "cancelled") /\ Step(s, "settle")
  /\ UNCHANGED <<jobs, budget>> /\ DispatchFrame

Accepted(s) ==
  /\ stage[s] = "accept" /\ SetSend(s, "sent") /\ Step(s, "count")
  /\ UNCHANGED <<jobs, budget>> /\ DispatchFrame

\* The provider or the guard throws, and the queue retries; or the retries are
\* spent; or the address is suppressed; or the contact policy defers.
Refused(s) ==
  /\ stage[s] = "accept"
  /\ \/ /\ Spend("fault") /\ SetSend(s, "failed") /\ Step(s, "none")
        /\ jobs' \in {jobs, jobs \cup {s}}
     \/ Spend("fault") /\ SetSend(s, "suppressed") /\ Step(s, "settle") /\ UNCHANGED jobs
     \/ Spend("defer") /\ SetSend(s, "deferred") /\ Step(s, "defer") /\ jobs' = jobs \cup {s}
  /\ DispatchFrame

\* onOutcome, deferred.
DeferHook(s) ==
  /\ stage[s] = "defer" /\ Step(s, "none")
  /\ SetRun(IF run.status \in Active THEN [run EXCEPT !.nextTick = touched[s] + 1] ELSE run)
  /\ UNCHANGED counted /\ HookFrame

\* onOutcome, sent: three writes.
CountHook(s) ==
  /\ stage[s] = "count" /\ SetRun(Counted(s))
  /\ Step(s, IF run.lastCounted = s[1] THEN "markOnly" ELSE "mark")
  /\ UNCHANGED counted /\ HookFrame
MarkHook(s) ==
  /\ stage[s] \in {"mark", "markOnly"} /\ counted' = counted \cup {s}
  /\ Step(s, IF stage[s] = "mark" THEN "schedule" ELSE "settle")
  /\ UNCHANGED <<run, revived, overtaken>> /\ HookFrame
ScheduleHook(s) ==
  /\ stage[s] = "schedule" /\ SetRun(Scheduled(s)) /\ Step(s, "settle")
  /\ UNCHANGED counted /\ HookFrame

\* clearInFlightIfSettled, of the run's decision and its rows.
clearInFlightIfSettled(s) ==
  /\ stage[s] = "settle" /\ Step(s, "none")
  /\ SetRun(IF run.inFlight = s[1] /\ \A r \in RowsOf(s[1]) : ~sendIsInFlight(r, clock)
            THEN [run EXCEPT !.inFlight = NoDecision] ELSE run)
  /\ UNCHANGED counted /\ HookFrame

\* The process of the dispatch dies, or its hook throws.
DispatchDies(s) ==
  /\ stage[s] # "none" /\ Spend("crash") /\ Step(s, "none")
  /\ UNCHANGED <<send, touched, jobs>> /\ DispatchFrame

\* The stranded-send sweep, and the second look of the tick at queued rows.
Sweep(s) ==
  /\ send[s] = "sending" /\ stage[s] = "none" /\ touched[s] < clock
  /\ SetSend(s, "queued") /\ jobs' = jobs \cup {s}
  /\ UNCHANGED <<stage, budget>> /\ DispatchFrame

-----------------------------------------------------------------------------
(* The host, operators, the subject and the clock.                         *)

World == UNCHANGED <<clock, case, rows, asked, pc, tick>>

\* abortProgramRun: the run, then its rows.
Abort ==
  /\ run.status \in Active /\ Spend("ops")
  /\ SetRun([run EXCEPT !.status = "exited", !.inFlight = NoDecision])
  /\ cancelling' = TRUE
  /\ World /\ UNCHANGED <<enabled, news, facts, exitEvent, clickAt>>

\* setProgramEnabled: the kill switch cancels the rows too.
SetEnabled ==
  /\ Spend("ops") /\ enabled' = ~enabled
  /\ cancelling' = (cancelling \/ enabled)
  /\ World /\ UNCHANGED <<run, revived, overtaken, news, facts, exitEvent, clickAt>>

CancelForOperator ==
  /\ cancelling /\ cancelling' = FALSE /\ CancelRows
  /\ UNCHANGED <<clock, case, enabled, news, facts, exitEvent, clickAt, run,
                 revived, overtaken, counted, jobs, stage, asked, pc, tick, budget>>

FireExit ==
  /\ ~exitEvent /\ Spend("ops") /\ exitEvent' = TRUE
  /\ World /\ UNCHANGED <<run, revived, overtaken, enabled, cancelling, news, facts, clickAt>>

\* An action is done or no longer eligible, and the host fires Facts Changed.
FactsChange ==
  /\ Spend("wake") /\ news' = TRUE
  /\ \E a \in Actions : \/ a \notin facts.sat /\ facts' = [facts EXCEPT !.sat = @ \cup {a}]
                        \/ a \in facts.fit /\ facts' = [facts EXCEPT !.fit = @ \ {a}]
  /\ World /\ UNCHANGED <<run, revived, overtaken, enabled, cancelling, exitEvent, clickAt>>

Click ==
  /\ \E s \in Row : send[s] = "sent"
  /\ Spend("wake") /\ clickAt' = clock /\ news' = TRUE
  /\ World /\ UNCHANGED <<run, revived, overtaken, enabled, cancelling, facts, exitEvent>>

\* scanFactsChanged, or the click's own update: a sleeping run wakes now.
Wake ==
  /\ news /\ news' = FALSE
  /\ SetRun(IF run.status \in Active
            THEN [run EXCEPT !.nextTick = Least(@, clock), !.wake = @ + 1] ELSE run)
  /\ World /\ UNCHANGED <<enabled, cancelling, facts, exitEvent, clickAt, budget>>

\* Nobody is between two database operations.
Quick     == ~cancelling /\ (\A s \in Row : stage[s] = "none")
             /\ \A w \in Ticker : pc[w] \in {"idle", "resolve", "recipients"}
Calling   == \E w \in Ticker : pc[w] # "idle"
WorkDue   == \/ news \/ Calling \/ \E s \in Row : Ripe(s)
             \/ enabled /\ run.status \in Active /\ run.nextTick <= clock /\ LeaseFree
             \/ \E s \in Row : send[s] = "sending" /\ touched[s] < clock
Pass ==
  /\ Quick /\ ~WorkDue /\ Spend("time")
  /\ clock' = clock + 1
  /\ UNCHANGED <<outside, run, revived, overtaken, rows, asked, pc, tick>>
\* A slow call of the host, or a retry the queue makes late.
Slow ==
  /\ Quick /\ Spend("slow")
  /\ Calling \/ \E s \in jobs : send[s] = "failed"
  /\ clock' = clock + 1
  /\ UNCHANGED <<outside, run, revived, overtaken, rows, asked, pc, tick>>

TickStep(w) ==
  \/ Due(w) \/ acquireLease(w) \/ Resolve(w) \/ Decide(w) \/ CancelSends(w)
  \/ ReadInFlight(w) \/ Reconcile(w) \/ ReconcileMark(w) \/ ReconcileSchedule(w)
  \/ Reconciled(w) \/ Fresh(w) \/ Timing(w) \/ Recipients(w) \/ Write(w) \/ Reread(w)
  \/ Abandon(w) \/ settleActionDates(w) \/ RenewForRows(w) \/ InsertRows(w)
  \/ Enqueue(w) \/ releaseLease(w)
Dispatch(s) ==
  \/ Claim(s) \/ Guard(s) \/ GuardFacts(s) \/ GuardDone(s) \/ CancelRow(s) \/ Accepted(s)
  \/ Refused(s) \/ DeferHook(s) \/ CountHook(s) \/ MarkHook(s) \/ ScheduleHook(s)
  \/ clearInFlightIfSettled(s) \/ Sweep(s)
Operators == Abort \/ SetEnabled \/ CancelForOperator \/ FireExit \/ FactsChange \/ Click \/ Wake

Next == \/ \E w \in Ticker : TickStep(w) \/ HostFails(w) \/ Crash(w)
        \/ \E s \in Row : Dispatch(s) \/ DispatchDies(s)
        \/ Operators \/ Pass \/ Slow

Spec == Init /\ [][Next]_vars

\* The scheduler's interval, the queue and the scan go on; the clock does not
\* stand still for ever, though pass after pass may find a lease that is held.
FairSpec == /\ Spec
            /\ \A w \in Ticker : WF_vars(TickStep(w))
            /\ \A s \in Row : WF_vars(Dispatch(s))
            /\ WF_vars(CancelForOperator) /\ WF_vars(Wake) /\ SF_vars(Pass)

-----------------------------------------------------------------------------
(* Properties.                                                             *)

RunDoc == [status : Active \cup {"completed", "exited"},
           acts : {run.acts}, unanswered : Nat, stage : 0..2, askSent : BOOLEAN, engagedAt : Nat,
           lastSent : Nat, inFlight : Decision \cup {NoDecision},
           lastCounted : Decision \cup {NoDecision}, nextTick : Nat, wake : Nat,
           lease : [owner : {Process[w] : w \in Ticker} \cup {Nobody}, until : Nat]]

\* Every field of the run, of its rows and of the dispatches has a value of
\* its schema.
TypeOK ==
  /\ run \in RunDoc /\ DOMAIN run.acts \subseteq Actions
  /\ \A a \in DOMAIN run.acts : run.acts[a] \in ActState
  /\ clock \in Nat
  /\ send \in [Row -> {"none", "holdout", "sent", "failed", "suppressed", "cancelled"} \cup InFlight]
  /\ touched \in [Row -> Nat] /\ counted \subseteq Row /\ jobs \subseteq Row
  /\ \A d \in 1..Len(asked) :
       asked[d] \in [action : Actions \cup {Ask}, attempt : Nat \ {0}, at : Nat]

\* The row may still reach the provider, and has not been given up.
Going(s) == \/ send[s] \in InFlight
            \/ send[s] = "failed" /\ s \in jobs /\ clock - touched[s] < Recheck

\* A run never has the mail of two of its decisions under way: whatever ticks,
\* dispatches and crashes interleave, the subject is not asked twice at once.
OneInFlight ==
  \A s, u \in Row : Going(s) /\ Going(u) /\ ~revived => s[1] = u[1]

Sent(a) == {d \in 1..Len(asked) : asked[d].action = a /\ \E s \in Row : s[1] = d /\ send[s] \in {"sent", "holdout"}}
Consumed(a) == LET st == Stored(run.acts, a)
               IN  st.attempts + (st.ladder - 1) * Len(P.actions[a].attempts)
\* Accepted, and neither counted nor about to be: the hook died.
Owed(a) == {d \in Sent(a) : \E s \in Row : s[1] = d /\ send[s] = "sent" /\ s \notin counted}

\* An attempt of an action is consumed by mail the provider accepted, once per
\* decision: never by a decision that sent nothing, never twice.  Excused: what
\* makes two decisions overlap.
AttemptsMatchMail ==
  case.arm = "treatment" /\ ~revived /\ ~overtaken =>
    \A a \in Actions : /\ Consumed(a) <= Cardinality(Sent(a))
                      /\ Cardinality(Sent(a)) <= Consumed(a) + Cardinality(Owed(a))

FirstSent(d) == SmallerOf({touched[s] : s \in {r \in Row : r[1] = d /\ send[r] = "sent"}})
\* The least time before the attempt of a that follows i others: its own gap, or
\* the program's, or the one of a run with progress.
ShortestGap(a, i) == IF P.fast > 0 THEN Least(P.fast, minGap(P, a, i)) ELSE minGap(P, a, i)
GapBefore(d)      == ShortestGap(asked[d].action, asked[d].attempt - 1)
\* Mail keeps its attempt's distance from the mail of every decision before, with
\* the same excuses.
SpacedByGap ==
  LET accepted == {d \in 1..Len(asked) : \E s \in Row : s[1] = d /\ send[s] = "sent"}
  IN  \A d, e \in accepted :
        d < e /\ ~revived /\ ~overtaken => FirstSent(d) + GapBefore(e) <= FirstSent(e)

\* A wake that lands while a tick is at work is not slept through: the tick's
\* last write leaves the run due soon, however far ahead it meant to sleep.
WakeNotSleptThrough ==
  [][\A w \in Ticker :
       pc[w] = "finish" /\ pc'[w] = "settle" /\ run.wake # tick[w].run.wake /\ run'.status \in Active
         => run'.nextTick <= tick[w].now + 1]_vars

\* A run whose actions are skipped once their attempts are spent ends, or comes
\* to rest in sunset, whatever fails once on the way: no marker, lease, retry or
\* lost job holds it for ever.  A disabled program, and an action that is not
\* eligible, keep it waiting.
RunSettles ==
  (\A a \in Actions : P.actions[a].onExhaust = "skip" /\ P.actions[a].cooldown = 0) =>
    <>(run.status # "active" \/ ~enabled \/ facts.fit # Actions)

-----------------------------------------------------------------------------
(* What is said of the code, and does not hold of it in every case.        *)

\* entry.ts, of abortProgramRun: "immediate; the run becomes `exited`", and no
\* program run is active again once it ended.
AbortIsFinal ==
  [][run.status \notin Active => run'.status = run.status]_vars

\* programs/tick.ts:313, of mail that "reached the provider but whose outcome hook never
\* counted it": it "is counted here, so the attempt is neither lost nor replayed".
\* Once a later decision makes rows, the mail of each earlier one is counted.
NeitherLostNorReplayed ==
  case.arm = "treatment" /\ ~revived =>
    \A a \in Actions : Cardinality(Sent(a) \ {Len(asked)}) <= Consumed(a)
=============================================================================
