---------------------------- MODULE SendDispatch ----------------------------
(***************************************************************************)
(* The send pipeline: what happens to one row of mailer_sends between its  *)
(* insertion and the provider.  A row is dispatched by dispatchSend, run   *)
(* by queue workers that race with each other, with the tick's sweeps,     *)
(* with operators who pause and cancel broadcasts, with flow aborts and    *)
(* with unsubscribes.  Every action is one database operation of one of    *)
(* those parties (or a few that no other party can come between).          *)
(*                                                                         *)
(* Time is abstract: a stranded row may be swept once nobody works on it   *)
(* (or, within budget.stall, while a stalled worker still does), a lock    *)
(* without a live owner expires, a deferral becomes due and a past send    *)
(* leaves the minimum gap at some point.                                   *)
(***************************************************************************)
EXTENDS Naturals, FiniteSets

CONSTANTS
  Send,           \* rows of mailer_sends
  Worker,         \* concurrent executions of the send worker
  Address,        \* recipient addresses
  AddressOf,      \* [Send -> Address], emailAtSend
  Marketing,      \* rows whose kind is 'marketing'
  Policed,        \* rows contactPolicyApplies to
  Broadcast,      \* rows of the one broadcast; the others come from flow runs
  Retries,        \* config.sendRetryAttempts
  BareRetries,    \* attempts of a job added without an attempts option
  Bounds,         \* how often what is rare may happen in a behaviour, see Rare
  NoJob, Free, Orphan

\* defer: deferrals by contact policy; fault: crashes and unexpected database errors; lost: crashes between writing
\* 'queued' and adding the job; stall: times a live worker outlasts a timeout
\* meant for dead ones; ops: operators, contacts, flow runs, the breaker.
Rare == {"defer", "fault", "lost", "stall", "ops"}

ASSUME SendDispatchAssumption ==
  /\ AddressOf \in [Send -> Address]
  /\ Marketing \subseteq Send /\ Policed \in {Marketing, {}}
  /\ Broadcast \subseteq Marketing
  /\ Retries \in Nat /\ BareRetries \in 1..Retries
  /\ Bounds \subseteq [Rare -> Nat]
  /\ Free \notin Worker /\ Orphan \notin Worker /\ Free # Orphan
  /\ NoJob \notin [send : Send, left : 1..Retries]

VARIABLES
  row,         \* status of each row; "absent" before it is inserted
  due,         \* deferred rows whose notBefore has passed
  sentAt,      \* rows with a sentAt, which contact policy history is read from
  jobs,        \* mailer:send jobs waiting, by row and attempts left
  unposted,    \* jobs whose row is already written and whose add() is not done
  pc, job,     \* each worker's place in dispatchSend, and the job it runs
  lock,        \* mailer_contact_locks: owner of each address
  suppressed,  \* addresses with a blocking suppression
  tripped,     \* the marketing circuit breaker
  campaign,    \* the broadcast: "open", its pause code, or "cancelled"
  control,     \* second halves of broadcast operations still to run
  run,         \* the flow run behind each row
  aborting,    \* rows whose run is exited and whose abort sweep is to come
  budget,      \* what is left of the bounds of this behaviour
  accepted,    \* history: how often the provider accepted each row
  unsure,      \* history: rows accepted without the acceptance being recorded
  inGap,       \* history: rows accepted within the minimum gap
  doomed       \* history: workers whose row must not be sent (see Doomed)

rowVars     == <<row, due, sentAt>>
queueVars   == <<jobs, unposted>>
worldVars   == <<suppressed, tripped, run, aborting>>
bcastVars   == <<campaign, control>>
historyVars == <<accepted, unsure, inGap>>
workerVars  == <<pc, job, lock, doomed>>
outerVars   == <<worldVars, bcastVars, historyVars>>
vars == <<rowVars, queueVars, pc, job, lock, worldVars, bcastVars, budget,
          historyVars, doomed>>

Job       == [send : Send, left : 1..Retries]
Settled   == {"sent", "failed", "held", "cancelled", "suppressed"}
Status    == {"absent", "queued", "sending", "deferred"} \cup Settled
PauseCode == {"cap_reached", "manual", "stop_rule", "circuit_breaker"}
Holding   == PauseCode \ {"cap_reached"}   \* a wave parked at its cap is no hold

\* Places in dispatchSend: before the recipient lock, under it, leaving.
Unlocked == {"campaign", "hold", "pause", "holdQueued", "suppression",
             "breaker", "guard", "lock"}
Locked   == {"recheck", "policy", "render", "provider", "record", "count"}
Leaving  == {"release", "rethrow"}

Claimed(w, s) == /\ pc[w] \in Unlocked \cup Locked
                 /\ pc[w] \notin {"pause", "holdQueued"}
                 /\ job[w].send = s

\* A worker that claims s now must not send it: the address is suppressed, the
\* broadcast is cancelled or on hold (until it is resumed), the run aborted.
Doomed(s) == \/ AddressOf[s] \in suppressed
             \/ s \in Broadcast /\ campaign \in Holding \cup {"cancelled"}
             \/ run[s] = "aborted"

Plus(f, s, k)  == [f EXCEPT ![s] = [f[s] EXCEPT ![k] = @ + 1]]
Minus(f, s, k) == [f EXCEPT ![s] = [f[s] EXCEPT ![k] = @ - 1]]
Spend(what)    == /\ budget[what] > 0
                  /\ budget' = [budget EXCEPT ![what] = @ - 1]
SetRow(s, st)  == row' = [row EXCEPT ![s] = st]
Goto(w, place) == pc' = [pc EXCEPT ![w] = place]
\* Every row of S in one of the states from, moved to the state to (updateMany).
MoveRows(S, from, to) ==
  row' = [s \in Send |-> IF s \in S /\ row[s] \in from THEN to ELSE row[s]]

\* Frames, by what a step may change.  Of a worker: its place and its row, and
\* with Requeue a job for the row; of the queue or the tick: a row written back
\* to 'queued' ahead of its job; of an outside event: the world.
RowFrame == UNCHANGED <<due, sentAt>>
WorkerFrame == RowFrame /\ UNCHANGED <<queueVars, job, lock, doomed, budget, outerVars>>
Pass(w, place) == Goto(w, place) /\ UNCHANGED row /\ WorkerFrame
Answer(w, st)  == SetRow(job[w].send, st) /\ Goto(w, "release") /\ WorkerFrame
Requeue(w, st, k) ==
  /\ SetRow(job[w].send, st) /\ Goto(w, "release")
  /\ unposted' = Plus(unposted, job[w].send, k)
  /\ UNCHANGED <<sentAt, jobs, job, lock, doomed, outerVars>>
Reopen(s) ==
  /\ SetRow(s, "queued")
  /\ unposted' = Plus(unposted, s, Retries)
  /\ RowFrame /\ UNCHANGED <<jobs, workerVars, outerVars>>
OutsideFrame == UNCHANGED <<rowVars, queueVars, workerVars, historyVars>>

NoCounts == [s \in Send |-> [k \in 1..Retries |-> 0]]

Init ==
  /\ row = [s \in Send |-> "absent"] /\ due = {} /\ sentAt = {}
  /\ jobs = NoCounts /\ unposted = NoCounts
  /\ pc = [w \in Worker |-> "idle"] /\ job = [w \in Worker |-> NoJob]
  /\ lock = [a \in Address |-> Free]
  /\ suppressed = {} /\ tripped = FALSE
  /\ campaign = "open" /\ control = {}
  /\ run = [s \in Send |-> "active"] /\ aborting = {}
  /\ budget \in Bounds
  /\ accepted = [s \in Send |-> 0] /\ unsure = {} /\ inGap = {} /\ doomed = {}

-----------------------------------------------------------------------------
(* The queue: rows are inserted or written back to 'queued' first, and the *)
(* job is added in a second operation.                                     *)

\* handleSend and dispatchBroadcast insert the row; the flow step or the page
\* may have been overtaken by an abort, a pause or a cancel by then.
Insert(s) == row[s] = "absent" /\ Reopen(s) /\ UNCHANGED budget

Post(s, k) ==
  /\ unposted[s][k] > 0
  /\ unposted' = Minus(unposted, s, k)
  /\ jobs' = Plus(jobs, s, k)
  /\ UNCHANGED <<rowVars, workerVars, outerVars, budget>>

\* The process dies between its write of 'queued' and its add().
LosePost(s, k) ==
  /\ unposted[s][k] > 0
  /\ Spend("lost")
  /\ unposted' = Minus(unposted, s, k)
  /\ UNCHANGED <<rowVars, jobs, workerVars, outerVars>>

\* Mutations: claims that a row being sent, or a finished one, does not refuse.
ClaimableWhileSending(s) == row[s] \in {"queued", "failed", "sending"}
ClaimableWhenFinal(s)    == row[s] \notin {"absent", "sending", "held"}

Claimable(s) == \/ row[s] \in {"queued", "failed"}
                \/ row[s] = "deferred" /\ s \in due

\* A worker takes a job and claims its row in one findOneAndUpdate.
Claim(w, s, k) ==
  /\ pc[w] = "idle" /\ jobs[s][k] > 0
  /\ Claimable(s)
  /\ jobs' = Minus(jobs, s, k)
  /\ job' = [job EXCEPT ![w] = [send |-> s, left |-> k]]
  /\ SetRow(s, "sending")
  /\ Goto(w, "campaign")
  /\ doomed' = IF Doomed(s) THEN doomed \cup {w} ELSE doomed
  /\ RowFrame /\ UNCHANGED <<unposted, lock, outerVars, budget>>

\* The row is claimed, dispatched, cancelled or not yet due: the job ends.
DropJob(w, s, k) ==
  /\ pc[w] = "idle" /\ jobs[s][k] > 0
  /\ ~Claimable(s)
  /\ jobs' = Minus(jobs, s, k)
  /\ UNCHANGED <<rowVars, unposted, workerVars, outerVars, budget>>

-----------------------------------------------------------------------------
(* dispatchSend, up to the recipient lock.                                 *)

\* Reads the broadcast.  The hold is written in a later operation, and the
\* broadcast may have been resumed in between.
ReadCampaign(w) ==
  LET s == job[w].send IN
  /\ pc[w] = "campaign"
  /\ \/ s \in Broadcast /\ campaign \in Holding /\ Pass(w, "hold")
     \/ s \in Broadcast /\ campaign = "cancelled" /\ Answer(w, "cancelled")
     \/ /\ s \in Broadcast => campaign \notin Holding \cup {"cancelled"}
        /\ Pass(w, "suppression")

HoldRow(w) == pc[w] = "hold" /\ Answer(w, "held")

CheckSuppression(w) ==
  /\ pc[w] = "suppression"
  /\ IF AddressOf[job[w].send] \in suppressed
     THEN Answer(w, "suppressed") ELSE Pass(w, "breaker")

\* A tripped breaker holds a broadcast row and pauses its broadcast; any other
\* marketing row goes back to 'queued' with a job a minute later.
CheckBreaker(w) ==
  LET s == job[w].send IN
  /\ pc[w] = "breaker"
  /\ \/ (s \notin Marketing \/ ~tripped) /\ Pass(w, "guard")
     \/ /\ tripped /\ s \in Broadcast
        /\ SetRow(s, "held") /\ Goto(w, "pause") /\ WorkerFrame
     \/ /\ tripped /\ s \in Marketing \ Broadcast
        /\ Requeue(w, "queued", BareRetries) /\ UNCHANGED <<due, budget>>

\* pauseBroadcast may pause a live broadcast, or one paused for a weaker reason.
Precedence == [c \in PauseCode |-> IF c \in {"cap_reached", "manual"} THEN 1 ELSE 2]
CanPause(code) == \/ campaign = "open"
                  \/ campaign \in PauseCode /\ Precedence[campaign] < Precedence[code]

PauseOnTrip(w) ==
  /\ pc[w] = "pause"
  /\ IF CanPause("circuit_breaker")
     THEN campaign' = "circuit_breaker" /\ Goto(w, "holdQueued")
     ELSE UNCHANGED campaign /\ Goto(w, "release")
  /\ UNCHANGED <<rowVars, queueVars, job, lock, doomed, worldVars,
                 control, budget, historyVars>>

HoldQueuedOnTrip(w) ==
  /\ pc[w] = "holdQueued"
  /\ MoveRows(Broadcast, {"queued"}, "held")
  /\ Goto(w, "release") /\ WorkerFrame

\* The flow origin's guard: only a host abort blocks a row of a run.
Guard(w) ==
  LET s == job[w].send IN
  /\ pc[w] = "guard"
  /\ IF run[s] = "aborted"
     THEN Answer(w, "cancelled")
     ELSE Pass(w, IF s \in Policed THEN "lock" ELSE "render")

-----------------------------------------------------------------------------
(* dispatchSend under the recipient lock.                                  *)

AcquireLock(w) ==
  LET a == AddressOf[job[w].send] IN
  /\ pc[w] = "lock" /\ lock[a] = Free
  /\ lock' = [lock EXCEPT ![a] = w]
  /\ Goto(w, "recheck")
  /\ doomed' = IF a \in suppressed THEN doomed \cup {w} ELSE doomed
  /\ UNCHANGED <<rowVars, queueVars, job, outerVars, budget>>

LockBusy(w) == pc[w] = "lock" /\ lock[AddressOf[job[w].send]] # Free

\* Mutation: the claim is handed back and no job is added for it.
LockTimeoutWithoutJob(w) == LockBusy(w) /\ Answer(w, "queued")

\* The address stayed busy for the whole wait: hand the claim back.
LockTimeout(w) ==
  /\ LockBusy(w)
  /\ Requeue(w, "queued", BareRetries) /\ UNCHANGED <<due, budget>>

\* Mutation: no second look at the suppressions.
RecheckSkipped(w) == pc[w] = "recheck" /\ Pass(w, "policy")

\* INVARIANT 3 once more: an unsubscribe may have landed in the wait.
Recheck(w) ==
  /\ pc[w] = "recheck"
  /\ IF AddressOf[job[w].send] \in suppressed
     THEN Answer(w, "suppressed") ELSE Pass(w, "policy")

\* The rows that the minimum gap is counted from.
History(s) == {t \in (Marketing \cap sentAt \cap inGap) \ {s} :
                 AddressOf[t] = AddressOf[s]}

PolicySend(w) == pc[w] = "policy" /\ History(job[w].send) = {} /\ Pass(w, "render")

\* Gap, cap, priority, quiet hours or a blackout: not now.
PolicyDefer(w) ==
  LET s == job[w].send IN
  /\ pc[w] = "policy" /\ Spend("defer")
  /\ due' = due \ {s}
  /\ Requeue(w, "deferred", Retries)

\* Not now, and the time it could go is past the deferral limit.
PolicyDrop(w) == pc[w] = "policy" /\ Answer(w, "cancelled")

\* deliver() writes the rendered mail and, whatever it was, status 'sending'.
Render(w) ==
  /\ pc[w] = "render"
  /\ SetRow(job[w].send, "sending")
  /\ Goto(w, "provider") /\ WorkerFrame

ProviderAccepts(w) ==
  LET s == job[w].send IN
  /\ pc[w] = "provider"
  /\ accepted' = [accepted EXCEPT ![s] = @ + 1]
  /\ inGap' = inGap \cup {s}
  /\ Goto(w, "record")
  /\ UNCHANGED <<rowVars, queueVars, job, lock, doomed, worldVars,
                 bcastVars, budget, unsure>>

RecordSent(w) ==
  /\ pc[w] = "record"
  /\ SetRow(job[w].send, "sent")
  /\ sentAt' = sentAt \cup {job[w].send}
  /\ Goto(w, "count")
  /\ UNCHANGED <<due, queueVars, job, lock, doomed, budget, outerVars>>

\* The health counter, inside the same try block as the provider call.
CountSent(w) == pc[w] = "count" /\ Pass(w, "release")

-----------------------------------------------------------------------------
(* Ways out of dispatchSend that are not an answer.                        *)

\* template_missing, contact_missing, no_recipient, provider_unknown or the
\* provider's own refusal: 'failed' for good, without a retry.
GiveUp(w) == pc[w] \in {"campaign", "guard", "provider"} /\ Answer(w, "failed")

\* A throw in the guard, the lock, the re-check, the policy, the rendering or
\* the provider: 'failed', which is claimable, and the queue retries the job.
ThrowFailed(w) ==
  /\ pc[w] \in {"guard", "lock", "recheck", "policy", "render", "provider"}
  /\ SetRow(job[w].send, "failed")
  /\ Goto(w, "rethrow") /\ WorkerFrame

\* The provider accepted but its answer, the write of 'sent' or the counter
\* failed: the one catch block marks the row failed and rethrows.
RecordFails(w) ==
  /\ pc[w] \in {"record", "count"}
  /\ Spend("fault")
  /\ SetRow(job[w].send, "failed")
  /\ unsure' = unsure \cup {job[w].send}
  /\ Goto(w, "rethrow")
  /\ RowFrame /\ UNCHANGED <<queueVars, job, lock, doomed, worldVars,
                             bcastVars, accepted, inGap>>

\* A throw that nothing catches leaves the row as it is, usually 'sending',
\* which no retry can claim.
ThrowStranded(w) ==
  /\ pc[w] \notin Leaving \cup {"idle", "provider", "record", "count"}
  /\ Spend("fault")
  /\ Goto(w, "rethrow")
  /\ UNCHANGED <<rowVars, queueVars, job, lock, doomed, outerVars>>

\* release(): deletes the lock document if this worker still owns it.
\* Mutation: deletes whatever document is there.
UnlockAnyone(w) == [lock EXCEPT ![AddressOf[job[w].send]] = Free]
Unlock(w) == IF lock[AddressOf[job[w].send]] = w
             THEN [lock EXCEPT ![AddressOf[job[w].send]] = Free] ELSE lock

\* The finally block releases the lock and the job ends; after a throw it is
\* retried while it has attempts left.
Leave(w) ==
  LET s == job[w].send
      k == job[w].left
  IN
  /\ pc[w] \in Leaving
  /\ lock' = Unlock(w)
  /\ jobs' = IF pc[w] = "rethrow" /\ k > 1 THEN Plus(jobs, s, k - 1) ELSE jobs
  /\ Goto(w, "idle")
  /\ job' = [job EXCEPT ![w] = NoJob]
  /\ doomed' = doomed \ {w}
  /\ UNCHANGED <<rowVars, unposted, outerVars, budget>>

\* The worker's process dies.  The queue may or may not redeliver the job, and
\* the lock stays behind under an owner nobody renews.
Crash(w) ==
  LET s == job[w].send IN
  /\ pc[w] # "idle"
  /\ Spend("fault")
  /\ \/ jobs' = Plus(jobs, s, job[w].left)
     \/ UNCHANGED jobs
  /\ lock' = IF lock[AddressOf[s]] = w
             THEN [lock EXCEPT ![AddressOf[s]] = Orphan] ELSE lock
  /\ unsure' = IF pc[w] = "record" THEN unsure \cup {s} ELSE unsure
  /\ Goto(w, "idle")
  /\ job' = [job EXCEPT ![w] = NoJob]
  /\ doomed' = doomed \ {w}
  /\ UNCHANGED <<rowVars, unposted, worldVars, bcastVars, accepted, inGap>>

-----------------------------------------------------------------------------
(* The tick and the passage of time.                                       *)

\* A timeout meant for dead owners runs out on a live one only as a stall.
Outlasts(live)       == IF live THEN Spend("stall") ELSE UNCHANGED budget

Stranded(s) == /\ row[s] = "sending"
               /\ Outlasts(\E w \in Worker : Claimed(w, s))

\* Mutation: the sweep resets the row and adds no job.
SweepWithoutJob(s) ==
  /\ Stranded(s) /\ SetRow(s, "queued")
  /\ RowFrame /\ UNCHANGED <<queueVars, workerVars, outerVars>>

\* Five minutes without a write strand a 'sending' row.  A live dispatch can
\* take that long too: nothing refreshes updatedAt while it waits.
SweepStranded(s) == Stranded(s) /\ Reopen(s)

ReleaseDue(s) == row[s] = "deferred" /\ s \in due /\ Reopen(s) /\ UNCHANGED budget

BecomeDue(s) ==
  /\ row[s] = "deferred" /\ s \notin due
  /\ due' = due \cup {s}
  /\ UNCHANGED <<row, sentAt, queueVars, workerVars, outerVars, budget>>

GapElapses(s) ==
  /\ s \in inGap
  /\ inGap' = inGap \ {s}
  /\ UNCHANGED <<rowVars, queueVars, workerVars, worldVars, bcastVars,
                 budget, accepted, unsure>>

\* An owner that died stops renewing; one that is merely stalled does so too.
ExpireLock(a) ==
  /\ lock[a] # Free
  /\ Outlasts(lock[a] \in Worker)
  /\ lock' = [lock EXCEPT ![a] = Free]
  /\ UNCHANGED <<rowVars, queueVars, pc, job, doomed, outerVars>>

-----------------------------------------------------------------------------
(* Everyone else.                                                          *)

Unsubscribe(a) ==
  /\ a \notin suppressed /\ Spend("ops")
  /\ suppressed' = suppressed \cup {a}
  /\ OutsideFrame /\ UNCHANGED <<tripped, run, aborting, bcastVars>>

\* evaluateHealth trips the breaker; only a human resets it.
Trip ==
  /\ ~tripped /\ Spend("ops")
  /\ tripped' = TRUE
  /\ OutsideFrame /\ UNCHANGED <<suppressed, run, aborting, bcastVars>>

ResetBreaker ==
  /\ tripped
  /\ tripped' = FALSE
  /\ OutsideFrame /\ UNCHANGED <<suppressed, run, aborting, bcastVars, budget>>

\* The run behind s completes or exits on its own; its queued mail still goes.
EndRun(s) ==
  /\ s \notin Broadcast /\ run[s] = "active" /\ row[s] # "absent"
  /\ Spend("ops")
  /\ run' = [run EXCEPT ![s] = "ended"]
  /\ OutsideFrame /\ UNCHANGED <<suppressed, tripped, aborting, bcastVars>>

\* abortFlow exits the active run, then sweeps what it has in the pipeline.
AbortRun(s) ==
  /\ s \notin Broadcast /\ run[s] = "active"
  /\ Spend("ops")
  /\ run' = [run EXCEPT ![s] = "aborted"]
  /\ aborting' = aborting \cup {s}
  /\ OutsideFrame /\ UNCHANGED <<suppressed, tripped, bcastVars>>

AbortSweep(s) ==
  /\ s \in aborting
  /\ MoveRows({s}, {"queued", "failed", "deferred"}, "cancelled")
  /\ aborting' = aborting \ {s}
  /\ RowFrame /\ UNCHANGED <<queueVars, workerVars, suppressed, tripped, run,
                             bcastVars, budget, historyVars>>

\* Aborting when the run is over already: only a deferred row is still its.
\* (Its end was the rare event.)
AbortEnded(s) ==
  /\ run[s] = "ended" /\ row[s] = "deferred"
  /\ SetRow(s, "cancelled")
  /\ RowFrame /\ UNCHANGED <<queueVars, workerVars, outerVars, budget>>

\* The dispatcher parks a wave that reached its cap.
ParkAtCap ==
  /\ campaign = "open" /\ Broadcast # {} /\ Spend("ops")
  /\ campaign' = "cap_reached"
  /\ OutsideFrame /\ UNCHANGED <<worldVars, control>>

\* An operator or a stop rule pauses; holding the queued rows is a second step.
PauseCampaign(code) ==
  /\ Broadcast # {} /\ CanPause(code) /\ Spend("ops")
  /\ campaign' = code
  /\ control' = control \cup {"hold"}
  /\ OutsideFrame /\ UNCHANGED worldVars

\* The second half of an operation moves the broadcast's rows.
Finish(op, from, to) ==
  /\ op \in control
  /\ control' = control \ {op}
  /\ MoveRows(Broadcast, from, to)
  /\ RowFrame /\ UNCHANGED <<workerVars, worldVars, campaign, budget, historyVars>>

HoldQueued    == Finish("hold", {"queued"}, "held") /\ UNCHANGED queueVars
CancelPending == /\ Finish("cancel", {"queued", "held", "deferred"}, "cancelled")
                 /\ UNCHANGED queueVars

ResumeCampaign ==
  /\ campaign \in PauseCode /\ Spend("ops")
  /\ campaign = "circuit_breaker" => ~tripped
  /\ campaign' = "open"
  /\ control' = control \cup {"release"}
  /\ doomed' = {w \in doomed : \/ job[w].send \notin Broadcast
                               \/ AddressOf[job[w].send] \in suppressed}
  /\ UNCHANGED <<rowVars, queueVars, pc, job, lock, worldVars, historyVars>>

ReleaseHeld ==
  /\ Finish("release", {"held"}, "queued")
  /\ unposted' = [s \in Send |-> IF s \in Broadcast /\ row[s] = "held"
                                 THEN [unposted[s] EXCEPT ![Retries] = @ + 1]
                                 ELSE unposted[s]]
  /\ UNCHANGED jobs

CancelCampaign ==
  /\ Broadcast # {} /\ campaign # "cancelled" /\ Spend("ops")
  /\ campaign' = "cancelled"
  /\ control' = control \cup {"cancel"}
  /\ OutsideFrame /\ UNCHANGED worldVars

-----------------------------------------------------------------------------

\* What a worker does in dispatchSend, short of crashing.
Step(w) ==
  \/ ReadCampaign(w) \/ HoldRow(w) \/ CheckSuppression(w) \/ CheckBreaker(w)
  \/ PauseOnTrip(w) \/ HoldQueuedOnTrip(w) \/ Guard(w)
  \/ AcquireLock(w) \/ LockTimeout(w) \/ Recheck(w)
  \/ PolicySend(w) \/ PolicyDefer(w) \/ PolicyDrop(w)
  \/ Render(w) \/ ProviderAccepts(w) \/ RecordSent(w) \/ CountSent(w)
  \/ GiveUp(w) \/ ThrowFailed(w) \/ RecordFails(w) \/ ThrowStranded(w)
  \/ Leave(w)

Take(s) == \E w \in Worker, k \in 1..Retries : Claim(w, s, k) \/ DropJob(w, s, k)

Queue(s) == \/ Insert(s)
            \/ \E k \in 1..Retries : Post(s, k) \/ LosePost(s, k)
            \/ Take(s)

Tick(s) == SweepStranded(s) \/ ReleaseDue(s) \/ BecomeDue(s) \/ GapElapses(s)

Control == HoldQueued \/ ReleaseHeld \/ CancelPending

Operator ==
  \/ Trip \/ ResetBreaker
  \/ ParkAtCap \/ ResumeCampaign \/ CancelCampaign
  \/ \E code \in {"manual", "stop_rule"} : PauseCampaign(code)

Flows(s) == EndRun(s) \/ AbortRun(s) \/ AbortSweep(s) \/ AbortEnded(s)

Next ==
  \/ \E w \in Worker : Step(w) \/ Crash(w)
  \/ \E s \in Send : Queue(s) \/ Tick(s) \/ Flows(s)
  \/ \E a \in Address : ExpireLock(a) \/ Unsubscribe(a)
  \/ Control \/ Operator

Spec == Init /\ [][Next]_vars

(***************************************************************************)
(* Fairness.  Every started call goes on or fails, the queue serves every  *)
(* job in the end (both drivers take the oldest due job first, hence SF:   *)
(* workers are busy now and then), the tick repeats, clocks advance and a  *)
(* begun operator request is completed.  Nobody has to insert, crash,      *)
(* unsubscribe, pause or reset anything.                                   *)
(***************************************************************************)
Fairness ==
  /\ \A w \in Worker : WF_vars(Step(w))
  /\ \A s \in Send : /\ SF_vars(Take(s))
                     /\ \A k \in 1..Retries : WF_vars(Post(s, k))
                     /\ WF_vars(SweepStranded(s) /\ UNCHANGED budget)
                     /\ WF_vars(ReleaseDue(s)) /\ WF_vars(BecomeDue(s))
                     /\ WF_vars(AbortSweep(s))
  /\ \A a \in Address : WF_vars(ExpireLock(a) /\ UNCHANGED budget)
  /\ WF_vars(HoldQueued) /\ WF_vars(ReleaseHeld) /\ WF_vars(CancelPending)

FairSpec == Spec /\ Fairness

-----------------------------------------------------------------------------
(* Properties.                                                             *)

\* Every variable holds a value of its type.
TypeOK ==
  /\ row \in [Send -> Status] /\ due \subseteq Send
  /\ sentAt \subseteq Send
  /\ jobs \in [Send -> [1..Retries -> Nat]]
  /\ unposted \in [Send -> [1..Retries -> Nat]]
  /\ pc \in [Worker -> {"idle"} \cup Unlocked \cup Locked \cup Leaving]
  /\ job \in [Worker -> Job \cup {NoJob}]
  /\ \A w \in Worker : (pc[w] = "idle") <=> (job[w] = NoJob)
  /\ lock \in [Address -> Worker \cup {Free, Orphan}]
  /\ suppressed \subseteq Address /\ tripped \in BOOLEAN
  /\ campaign \in PauseCode \cup {"open", "cancelled"}
  /\ control \subseteq {"hold", "release", "cancel"}
  /\ run \in [Send -> {"active", "ended", "aborted"}] /\ aborting \subseteq Send
  /\ budget \in [Rare -> Nat]
  /\ accepted \in [Send -> Nat]
  /\ unsure \subseteq Send /\ inGap \subseteq Send /\ doomed \subseteq Worker

\* "The atomic claim: exactly one worker proceeds."  Two workers are never
\* between the claim and the last write of the same row.
SingleClaim ==
  \A s \in Send : \A w, v \in Worker : Claimed(w, s) /\ Claimed(v, s) => w = v

\* The provider is handed a row twice only if the first acceptance was lost to
\* a crash or a database error before 'sent' was written.
AtMostOnce == \A s \in Send : accepted[s] > 1 => s \in unsure

\* The contact policy's minimum gap: two rows of the policy never reach one
\* address within it, unless the acceptance of one left no sentAt behind.
GapRespected ==
  \A s, t \in Policed :
    s # t /\ AddressOf[s] = AddressOf[t] /\ {s, t} \subseteq inGap
      => {s, t} \cap (unsure \ sentAt) # {}

\* A worker that claimed its row, or got the recipient lock, when the address
\* was already suppressed, the broadcast cancelled or the flow run aborted
\* never hands the mail to the provider.
DoomedNeverSent ==
  \A w \in doomed : pc[w] \notin {"provider", "record"}

\* A queued row is one that somebody will dispatch: the stranded-send sweep
\* does not look at 'queued', so without a job the row would wait forever.
QueuedHasJob ==
  \A s \in Send : row[s] = "queued" =>
    \E k \in 1..Retries : jobs[s][k] + unposted[s][k] > 0

\* Final states: a row that is suppressed or cancelled stays so, and one that is
\* sent stays sent unless the bookkeeping after the acceptance fails.
FinalStays ==
  [][\A s \in Send :
       /\ row[s] \in {"suppressed", "cancelled"} => row'[s] = row[s]
       /\ row[s] = "sent" => row'[s] = "sent" \/ s \in unsure']_vars

\* The pipeline implements the abstract promise of SendOnce.
Phase(s) == CASE row[s] = "sent" -> "delivered"
              [] row[s] \in {"suppressed", "cancelled"} -> "withdrawn"
              [] OTHER -> "pending"
Once == INSTANCE SendOnce WITH
          phase <- [s \in Send |-> Phase(s)], copies <- accepted, excused <- unsure
ImplementsSendOnce == Once!OnceSpec

\* Every row that enters the pipeline leaves it, unless the breaker stays
\* tripped or the process dies between the row and its job: worker crashes, slow
\* workers and dead lock owners only delay it.
Open == {"queued", "sending", "deferred"}
NoJobLost == \E n \in {b["lost"] : b \in Bounds} : [](budget["lost"] = n)
EverySendSettles ==
  <>[](~tripped) /\ NoJobLost => \A s \in Send : (row[s] \in Open) ~> (row[s] \in Settled)

-----------------------------------------------------------------------------
(* What is said of the code and does not hold of it in every case: the     *)
(* README tells how each is violated.                                      *)

\* "exactly-once sends per step": what was recorded as sent is not sent again.
NoSecondCopyAfterSent ==
  [][\A s \in sentAt : accepted'[s] = accepted[s]]_vars

\* Once nobody is in the middle of holding or releasing it, a held row belongs
\* to a broadcast that is on hold: "an explicit resume re-queues them".
HeldFollowsCampaign ==
  \A s \in Broadcast :
    /\ row[s] = "held" /\ control = {}
    /\ \A w \in Worker : pc[w] \in {"hold", "pause", "holdQueued"} => job[w].send \notin Broadcast
    => campaign \in Holding \cup {"cancelled"}
=============================================================================
