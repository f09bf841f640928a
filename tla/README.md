# Mailery in TLA+

Mailery sends a host application's mail: automated flows, broadcasts, goal-driven programs
and one-off mail. It is a library over MongoDB and a job queue (Agenda or Bull). Everything
that is hard about it happens between processes that share nothing but collections and jobs:
queue workers race with each other, with the once-a-minute tick, with operators, with
unsubscribes and with their own crashes. No transaction spans two writes; correctness rests
on single-document conditional updates, on unique keys, on timeouts, and on the order of writes.

These modules model that part. Paths are relative to the repository root; `send.ts` and other
bare names are under `src/server/runner/`.

## The system

| Component | State | Operations | Talks to |
|---|---|---|---|
| Send pipeline (`send.ts`) | `mailer_sends` rows, `mailer:send` jobs | insert, claim, check, hold, defer, render, hand over, record, retry | every other component below |
| Contact policy (`contact-policy.ts`) | `mailer_contact_locks`, `notBefore`, `policyDeferral` | lock, renew, release; decide; release due | send pipeline, tick |
| Tick (`tick.ts`, `sweep.ts`) | none | sweeps, scans, drains, polls, in a fixed order | all collections |
| Broadcast control (`broadcast-control.ts`, `api/broadcast-ops.ts`) | broadcast status and pause reason | pause, hold, resume, release, cancel, stop rules | dispatcher, send pipeline |
| Broadcast dispatch (`broadcasts.ts`) | lease, generation, cap | claim, lease, page, insert, enqueue, finish, rescue | queue, control |
| Suppression (`suppression.ts`, `unsubscribe.ts`) | `mailer_suppressions`, subscriptions | apply, look up | send pipeline, flows |
| Circuit breaker (`health.ts`) | `mailer_health` buckets | count, evaluate, trip, roll, reset | send pipeline, dispatch |
| Flow runs (`step.ts`, `sweep.ts`) | `mailer_flow_runs`, advance jobs | one handler per step kind, advance, exit | send pipeline, events |
| Flow triggers, outbox (`triggers.ts`, `tick.ts`) | watermark, events, outbox rows | scan, enter, drain | flow runs |
| Program runs (`programs/`) | runs, decisions, leases | tick, guard, count, wake, abort | send pipeline |
| Unsubscribe journal (`unsub-journal.ts`, `pending-unsubs.ts`) | journal file and claims | append, claim, adopt, apply, release | suppression |
| Webhook ingestion (`webhook.ts`, `bounce-promotion.ts`) | webhook events, send statuses | ingest, claim, apply, promote | suppression, breaker, control |
| Flow versions, canary gate (`arm.ts`, `step.ts`) | flow document, draft, snapshots | edit, publish, gate, ungate, look up | flow runs, triggers |
| Delivery windows (`delivery-window.ts`, `programs/window.ts`) | none | when a mail may go, in a recipient's zone | flows, broadcasts, programs, policy |
| Queue drivers (`src/server/queues/`) | jobs | add, run, retry, redeliver | workers |

The rest (HTTP APIs, configuration, templates, providers and adapters, reputation monitors, CLI,
client, testing kit) keeps no state that two parties race on, or only reports; `PROJECT.json`
lists each with its reason.

### What is hard, and what must hold

- *Send pipeline*: two workers on one row, a retry of something already sent, a row taken from a
  live worker, checks that go stale before the provider call, writes that are lost. A row is
  handed to the provider once; blocked mail is not sent; final rows stay final; nothing is stranded.
- *Contact policy*: two decisions on one history. The minimum gap holds across workers.
- *Broadcasts*: operator operations are two writes; the dispatcher's lease may be lost at any page.
  The cap is not overshot, waves go in order, 'sent' means everybody, nothing moves while on hold,
  everything moves again after a resume, a cancel is final.
- *Flow runs*: two workers on one run; an index that restarts inside a branch. Each step once,
  in order, none skipped; an exited run does nothing.
- *Flow triggers*: events commit late, scans overlap, operators move the watermark. No event is left
  behind; a flow with `once` is entered once.
- *Flow versions*: publishing is two writes and two editors race. A run keeps the steps it entered on.
- *Program runs*: a lease that expires during a slow host call; one decision's mail at a time, an
  attempt counted once.
- *Windows*: clocks that skip or repeat an hour. What is sent keeps the rules, nothing waits for ever.
- *Journal*: crashes and concurrent drains. An acknowledged opt-out is applied in the end.
- *Breaker*: stale writes. A trip stays until a human resets it.
- *Webhooks*: reordered and duplicated events. A counter moves once per event.

## Plan

1. `SendDispatch`, `SendOnce`, proofs: the send pipeline with the policy lock, sweeps, broadcast
   control, aborts and unsubscribes around it. **Done.**
2. `FlowRun`, `BroadcastDispatch`, `FlowTriggers`, proofs. **Done.**
3. `ProgramRank`, `ProgramRun`: lease, fenced writes, hooks, counting, wakes, proofs. **Done.**
4. `Suppression`, `UnsubJournal`, `WebhookEvents`, `CircuitBreaker`, composed by `Feedback`, proofs.
   **Done.**
5. `FlowVersions`, proofs. **Done.**
6. `DeliveryWindow`, `ContactPolicy`: the decisions and the arithmetic of clocks, checked against what
   they mean, proofs about the decisions. **Done.**
7. `SpacedByGap` and `AttemptsMatchMail` of `ProgramRun`: proofs, with their excuses. **Done.**

Runs are kept few and dear: what may go wrong is chosen at the start of a behaviour from a small set
of bounds, so that one run covers faults, operators and stalls without their product. A new module
gets one passing run for safety and liveness together where its size allows.

## Modules

| Module | What it is |
|---|---|
| `SendDispatch` | the send pipeline and everything that touches its rows |
| `SendOnce` | what the pipeline promises about one row, without workers, jobs, locks or time |
| `FlowRun` | how one run walks the steps of its flow |
| `FlowTriggers` | how events enter a flow |
| `FlowVersions` | how a flow is edited, published and gated, and which steps a run gets |
| `BroadcastDispatch` | how a broadcast becomes rows |
| `ProgramRank`, `ProgramRun` | what a tick of a program decides; one run, its ticks and its mail |
| `Suppression` | the rows and the subscription of an address, and the single writes to them |
| `UnsubJournal` | opt-outs and opt-ins, the journal on disk and its drain |
| `CircuitBreaker` | one bucket of the circuit breaker |
| `WebhookEvents` | the provider's events about one address |
| `Feedback` | composes the four above: one address between its owner and the provider |
| `DeliveryWindow` | windows, slots and quiet periods in zones whose clock changes; pure |
| `ContactPolicy` | the policy's decisions about several mails to one address, over time |
| `MC...` | small instances, bounds and symmetry for TLC |
| `SendDispatchProofs` | proofs about the pipeline |
| `FeedbackProofs` | proofs about `Feedback` and the four it composes |
| `ContactPolicyProofs` | proofs about `ContactPolicy`, with the facts about `DeliveryWindow` that they need |
| `ProgramRunProofs` | proofs about `ProgramRun`, with the facts about `ProgramRank` that they need |
| `FlowRunProofs`, `FlowTriggersProofs`, `FlowVersionsProofs`, `BroadcastDispatchProofs` | proofs about the others |

They meet at their edges. `FlowTriggers` ends where a run is inserted, `FlowRun` begins there and
ends where a send row is inserted and its job added, and so do `BroadcastDispatch` and `ProgramRun`;
`SendDispatch` begins with those rows and sees of the flow run only whether it was aborted, of the
broadcast only its status, of the policy only the gap. `Feedback` begins with mail that was accepted.
`FlowRun` has steps that are constant because `FlowVersions` shows that a run keeps its own.

In all of them an action is one database or file operation, with the reads and local decisions that
nobody can interleave with it; `pc` names what a party does next. `Bounds` (`Cases`, `Scenario`,
`Start`) is the set of budgets for what is rare, from which `Init` picks one; an action that needs
luck spends from it. Where a definition ends in "Mutation:", the variant beside it is a plausible slip
in the same code that some property has to notice.

### SendDispatch

The state is the row's status and the fields other parties look at, jobs as a bag by row and
attempts left, jobs still to be added (`unposted`: the code writes the row first and calls `add`
after), each worker's place in `dispatchSend` and its job, lock owners, and the outside world:
suppressions, the breaker, one broadcast, the flow run behind each row. `accepted`, `unsure`,
`inGap` and `doomed` are history variables that no action's guard reads except `History`, where
`inGap` stands for "sentAt is within the look-back".

Two operations are one action only where no other party can tell (a read followed by a local
decision, the `find` and `updateMany` of a release, the log writes after a final status). So the read
of the broadcast and the write of 'held' are two actions, and so are the two halves of a pause, a
resume, a cancel and an abort.

`ThrowFailed` stands for every error the code catches and turns into 'failed' before it rethrows,
`ThrowStranded` for one that nothing catches, `RecordFails` for an error after the provider had
already accepted, `Crash` for the death of the process, after which the queue may redeliver the job
or have lost it. Time is not counted: what a timeout waits for may happen whenever the timeout's
subject is dead, and within the budget for stalls while it is still alive.

Not modelled here: re-subscription (a suppression that goes away) and webhook writes to a row's status
after 'sent', which `Feedback` has, a failed delete of the lock document (the lock then expires as a dead
owner's does), and the arithmetic of the policy, which is in `ContactPolicy`: here only the gap is kept, any other
reason to defer or drop being a free choice.

### FlowRun

`run` is the document of `mailer_flow_runs`: status, branch path, `currentStepIndex`, the attempts of
the current step, and `parked`, what `nextActionAt` waits for ("no" once it is due). A step is known
by its place, the branches taken and the index in the arm; `Flows` gives the type of each place, which
conditions and webhooks end the run (`hard`) and which sends have a window. `Select` is the query of
`sweep.ts`, `TakeJob` an advance job, and from there `processOneRunStep` is `ReadRun`, `Gate` and one
action per step handler, each deciding on the copy in `seen` and writing with `Matches`, the
compare-and-set of the code, which looks at the index and at nothing else. `Advance` is `advanceStep`,
`Post` the job that is added after a write. `made` holds the rows inserted under a dedupe key;
`SameKey` says which steps share one.

What predicates, templates and hosts answer is a free choice. What steps do to tags and contacts
is left out. A run is pinned to the steps of its flow's version, so they are constant. The queue drops a
job whose id is waiting already, which is why `jobs` is a set.

### FlowTriggers

One flow, its events numbered in the order of `createdAt`, which `Fire` takes from the clock and
`Commit` makes visible later. `processFlowTriggers` is `ReadFlow` (the query for enabled flows),
`ReadEvents` (one batch from the watermark less the overlap), `Consider` and `InsertRun` (the two
halves of `tryEnterFlow`, which reads for `once` and inserts afterwards) and `Mark`. `armFlow` and the
two ways to enable a flow are `ArmFlow` and `Resume`; `LeftBehind` is what a new watermark puts out of
reach, and `SkippedEvents` the part of it that arming counts.
Time is counted because the watermark, the overlap and the late commit are about it: `Pass` moves the
clock as long as no commit is as late as the overlap, which is what the overlap was chosen for.

The job that is added for a new run is `FlowRun`'s first, and may be lost as any other.

### BroadcastDispatch

The broadcast is its status, pause reason, cap, lease and `silent` (`updatedAt` older than the stall
threshold). `starting` and `jobs` count the starts whose job is to be added and the jobs; each has an
id with a generation of its own, so that no job is dropped. A pass reads a page, checks the lease and
the breaker, leaves out those that have rows, counts the room, waits for the queue, inserts and adds;
`Holds` is `holdsLease`. `Throw` and `WriteFailure` are the catch block, `Release` the finally block,
`Crash` the death of the process with the lease in its hand, `FallSilent` ten minutes without a
heartbeat. `resumeBroadcast` checks first (`AskResume`: any cap that is not below the rows so far, a
lower one than before as well) and writes later, if the broadcast is still paused (`WriteResume`).

A pass keeps to the cap it read with its lease, and a wait for the queue that ends at once does not look
at the lease again. A resume that lowers the cap therefore does not bind a pass that outlived the pause,
and a document may have more rows than its cap without any overlap. `ceiling` is the most the last
resume can lead to: the new cap, the rows there were, and the cap such a pass read; `CapRespected` is
about it.

Recipients are numbers in the adapter's order, which is the same in every pass. Contacts who join the
segment meanwhile are not modelled; those who leave it are, as opt-outs. Send times by recipient and
the confirmation of counts only compute values. Pausing what is already queued is `SendDispatch`'s.

### ProgramRun

`run` is the document of `mailer_program_runs`; `send`, `touched`, `counted` and `jobs` are the rows of
each decision and recipient. `tickProgramRun` is the chain from `Due` and `acquireLease` to
`releaseLease`: the host is asked (`Resolve`, `Recipients`), the decision is `ProgramRank`'s
(`evaluateCandidates`, sunset, gap: that of the attempt, from its `minGapDays` or the policy's, wider
in a slow stage, shorter with progress), rows still in flight are reconciled, `Write` is the write that is
fenced on the lease, after which rows are inserted and their jobs added. `Claim` to
`clearInFlightIfSettled` is a dispatch as the program sees it, with the guard at dispatch time and the
outcome hooks, each of its writes an action. `Abort`, `SetEnabled`, `FireExit`, `FactsChange`, `Click`
and `Wake` are the others who write to the run. `asked` keeps of each decision the action, the number of
the attempt and the time. The hook that schedules the next tick takes the stage and the attempts as they
are then; the code takes those that its count returned, a write before: they differ only if somebody else
writes in between, and only in when the next tick comes.

Time is a clock in units of the least delay. It stands still while somebody is between two database
operations, since those are fast against the delays, and passes during a call of the host only by
`Slow`, which is what outlives a lease. Two histories excuse what the findings show to be false:
`revived`, a run that had ended is active again or a row given up for dead was retried, and `overtaken`,
a decision was made while accepted mail of an earlier one was still to be counted. Not modelled: the scans for entry events, the simulator, the
dropping of a wake by its filter after five failed retries.

### Feedback

`Suppression` has the rows of one address, unique on the scope, and the single writes; `UnsubJournal`
the routes (`Submit` to `Answer`: a database write that races its time limit, then the journal, with
open and append as two steps), the drain (`StartPass` to `Unlink`: adopt, rename, read, apply, return,
unlink) and the host's calls; `WebhookEvents` the claim of an event before it is applied, the writes of
each event type one by one and the promotion of soft bounces; `CircuitBreaker` a bucket's counters, the
tick that reads it and later writes a roll, a trip or a grade, and the operator who resumes it.

Journal files are modelled as inodes, because an append goes to a file whose name is gone. A rename and
the `utimes` that follows are one action; a stall between them is an `Age` of a claim that is held, and
spends `slow`. `HasJournal`, `DoubleOptIn` and the subscription are on. Not modelled: torn lines, an
error during adoption that leaves a renamed claim while the pass goes on, which campaign an opt-out is
attributed to, clicks, the stop rules of a broadcast after an event, preferences set through the agent
API, GDPR erasure and list cleaning. Of the breaker, the aggregate document (it never trips) and the
written rates (only the screens read them) are left out, and the other mail of the sender is `CountMail`.

### FlowVersions

`flow` is the document, `snap` the snapshots by version. A request reads the document (`Publish`,
`GateFlow`, `Ungate`), perhaps looks for the newest clean snapshot (`FindClean`) or keeps the live steps
(`KeepLive`), inserts a snapshot under the next version and updates the document. The scan pins a run
to the version that it has read, `LoadSteps` is `loadStepsForRun`. A list of steps is a name and
whether the gate is in front. `bare` and `mixed` are history. Deleting a flow (a count and a delete that
race the scan) and editing its trigger are not modelled.

### DeliveryWindow and ContactPolicy

A zone has an offset that changes once, by an hour forward or back or not at all; `Local` and
`UtcFromLocal` do what the code's double conversion does, and the windows are computed from them as in
`delivery-window.ts`, `broadcasts.ts` (`recipientSlot`) and `programs/window.ts`. `programSendTime` is
modelled with one zone for the window and the blackouts; in the code a window that does not ask for the
contact's zone has its own, and the blackouts keep the contact's (`windowZone`,
`resolvePolicyTimezone`). `ContactPolicy` lets
mails of the four origins come up, be parked, queued, deferred, released, fail and be sent, each dispatch
being one action, because the recipient lock makes it one; `decideContactPolicy` has the order of rules of
the code. `Slack` is the shift of the clock near an interval: what the code's own comment allows.

## Runs

Every run has `CHECK_DEADLOCK FALSE`: the system may really stop, when everything has settled and no
operator, contact or fault comes any more.

| Run | Instance | What it shows |
|---|---|---|
| `send_delivery` | a broadcast row and another to 1 address, 2 workers, 2 attempts; a deferral and a fault, a deferral and an outside event, or 3 outside events | at most once, the gap, a queued row has a job, blocked mail is not sent, final states, refinement of `SendOnce` |
| `send_settle` | 2 rows, 2 workers, fair; a fault, a deferral, a lost job, or an outside event with a stall | every row settles, and blocked mail is not sent by a worker that outlived its claim either |
| `flow_runs` | 2 workers in `onboarding` (send, wait, condition, send, event) and in `integration` (webhook, webhook, exit), 1 worker in `integration` and in `nested` (a branch in a branch, every type of step), fair; a fault, a closed window, an outside event | one advance per step, no row skipped, waits waited out, ended runs stay, every run ends |
| `triggers_scan` | 3 events of one contact, 2 scanners, batch 2, overlap 2, `once`, fair; a fault or an operator | no event lost, one entry without overlapping scans, events settle where no batch fills the overlap |
| `broadcast_waves` | 4 recipients, pages of 3, first cap 2, 2 dispatchers, fair; faults, stalls, pauses, resumes with any cap, cancels | cap, order, completeness, cancel, the end of every dispatch |
| `program_ticks` | 3 small programs, 2 processes, 1 or 2 recipients, 4 decisions, 12 units of time, fair; a crash, fault, deferral, slow call, wake or operator | one decision in flight, attempts match mail, the gap of each attempt, wakes, every run settles |
| `feedback_optouts` | 16 scenarios of up to 3 calls or events, 2 drainers, 2 workers, 2 ticks, fair | acknowledged opt-outs are kept and applied, blocks stay, bounces block, events count once, the breaker trips and stays tripped |
| `flow_versions` | 2 requests (up to 5 in all), 1 run, 3 lists of steps, a crash, an edit; 4 documents to start from | a run keeps its version's steps, ungating restores what was gated |
| `contact_policy` | 3 settings of 3 mails, and 36 zones without mail | the rules are kept, deferrals end, clocks are honoured |
| `program_resurrect`, `program_lost_count`, `bounce_forgotten` | as small as possible | the findings below |

Two workers are enough for every race on one row, run, lock or lease: a third would find the claim
taken as the second does. Two rows to one address are what the lock and the gap are about. One fault,
one stall and a few outside events place each of them anywhere; what two faults in one row's life add
over one is another round through the same retry. Four recipients in pages of three, with a cap of two,
have a wave that ends inside a page, a page that crosses the cap, and a second page. Three events and a
batch of two have a batch that is full and one that is not; with an overlap of two and three instants,
an event may be inside and outside of it. In `flow_runs` two
workers walk flows without branches, because with one the index recurs (see below), and one worker
(`overlap` 0) walks the branches. `Retries` and `BareRetries` are
the configured attempts and those of a job added without the option.

`program_ticks`: a ladder of two attempts, a holding action with a cooldown before one that requires it,
and a sunset ask cover the kinds of actions; the second attempt of the ladder has a gap of its own, longer
than the program's, and that of the program with the ask a shorter one; twelve units are enough for both
attempts, their gap, the recheck and the end. `LeaseSpan` 0 makes a lease as short as can be. `feedback_optouts`: a scenario
names who acts, since three calls, three events and two ticks at once are too many; each pair of writers
of the same row meets in one, with the rare things that bear on them; `PerPass` 1 makes a claim take
several passes, three inodes are a live journal and two claims, and limits of 50 percent trip on one
event of two. `flow_versions` uses the symmetry of the two requests. `contact_policy`: a day has eight
slots of three hours and an hour two slots, so that a shift of an hour moves the clock across a slot's
border; day 0 is a Wednesday, so days 3 and 4 are a weekend and the clock changes around it; the 36
zones are three offsets, four instants and three shifts; `ClocksHonoured` evaluates every window, every
scheduled slot within two days and every quiet period at every instant of them.

### Fairness

- *Send pipeline*: a started `dispatchSend` goes on or fails (WF on a worker's step; a provider call
  has a timeout). Both drivers serve jobs oldest first, so a job that can be taken again and again is
  taken (SF: workers are busy in between). The tick repeats, so sweeps, releases and expiries happen
  when they stay possible (WF), and an operator's request, once begun, ends. Nobody is obliged to
  insert, pause, trip or reset; `EverySendSettles` therefore assumes the breaker does not stay tripped,
  which by design needs a human, and that no job was lost before it was added: see below.
- *Flow runs*: a call that was started goes on (WF on each worker's step), clocks advance (WF on
  `Elapse`), the tick sweeps (WF on `Select`). Jobs need no fairness, which is what the sweep is for.
- *Flow triggers*: each scanner scans again and again and a started scan goes on (WF). Nobody has to
  fire events, commit them or arm the flow.
- *Broadcasts*: the tick claims and rescues, a start adds its job, somebody takes a job, a pass goes
  on (WF), silence is noticed when nobody is left (WF on `FallSilent` where it spends nothing), and the
  send queue drains again and again (SF on `Drained`, since the wait alternates with the heartbeat).
- *Program runs*: the scheduler's ticks, dispatches, a begun cancellation and the wake scan go on (WF);
  the clock moves again and again when it may (SF, as each pass makes work that stops it).
- *Feedback*: a call that was made and a pass of a drain, a worker or an evaluating tick go on (WF), and
  an abandoned claim grows old (WF on `Age`). Nobody has to call, post an event or resume a bucket.

### Findings

- `program_resurrect`: the last write of a tick is fenced on the lease only (`programs/tick.ts:181`),
  which an abort does not take. A tick that saw engagement writes the status of its own copy
  (`programs/tick.ts:263-274`): a run that was aborted meanwhile is 'active' again, with the marker of the
  decision that the tick was making, and the same tick inserts the rows of it next. The run shows that:
  an action is satisfied, the tick reads it and decides on the other one, the operator aborts, the tick
  writes. A tick that found every action done writes 'completed' over 'exited' the same way
  (`programs/tick.ts:251`).
- `program_lost_count`: the hook of a row clears the marker as soon as no row of the decision is in
  flight, without looking whether accepted rows were counted (`programs/hooks.ts:165`). One recipient's
  mail is accepted and its hook dies; another's row is suppressed or cancelled; no tick reads the
  decision any more, the attempt is not counted, and it is made again after the recheck instead of the
  gap, though `programs/tick.ts:313` says it is "neither lost nor replayed".
- `bounce_forgotten`: who had opted out of 'all' and then bounces keeps the row of the opt-out, and an
  opt-in deletes it (`webhook.ts:230`).

### What else does not hold in every case

Some statements of the modules are true of their runs only because of what these leave out; others are
defined at the end of a module, under "What is said of the code", and have no run. TLC finds each of
these violated, in the instance of the run or when it is changed as told:

| Statement | How it is violated |
|---|---|
| `AtMostOnce` | one row and `stall` 1: nothing refreshes `updatedAt` during a dispatch, so one of more than five minutes is swept alive and sent twice (`tick.ts:153`) |
| `NoSecondCopyAfterSent` | a fault: a health counter that fails after 'sent' was written turns the row into 'failed', which the queue's retry sends again (`send.ts:523`) |
| `EverySendSettles` without `NoJobLost` | one row, `lost` 1: a crash between writing 'queued' and adding the job strands the row, for the sweep looks at 'sending' and 'failed' only (`tick.ts:149`) |
| `HeldFollowsCampaign` | one broadcast row, `ops` 3: a resume between a dispatch's read of the paused broadcast and its write of 'held' leaves the row held under a running broadcast (`send.ts:158`) |
| `AdvancesOnce` in branches | a flow with a branch and 2 workers: the compare-and-set on `currentStepIndex` matches a step of the same index inside the branch, and a stale worker moves the run past a step nobody executed (`step.ts:380`) |
| `NoRowSkipped` at the head of an arm | the dedupe key of a send has no branch path, so the send at the same index in a branch is taken for one already made (`send.ts:43`) |
| `EventsSettle` | a full batch within the overlap is read again and again and the watermark never moves past it (`triggers.ts:50`) |
| `OnceHolds` | two scanners, nothing else: both read that the contact has no run, and insert one each for two events (`triggers.ts:60`) |
| `SkippedStayOut` | `ops` 2: a scan that had read the flow before it was armed or resumed goes on from the older watermark, and reads what was reported as skipped (`arm.ts`) |
| `SkippedAreCounted` | `ops` 1: an event that commits late, behind a watermark that has moved past it, while the flow is not armed is out of reach once it is armed again, and not in `skippedEvents`, whose count begins at that watermark (`arm.ts:129`) |
| `SentIsQueued` | a crash after the inserts: the rescue skips rows that exist, so their jobs are never added, and the broadcast ends as 'sent' (`broadcasts.ts:361`) |
| `CapHolds` | `stall` 1 and `ops` 1, or `pause` 1 and `ops` 2: a slow dispatcher that is past its check inserts what another has counted as room; or a resume lowers the cap under a pass that has counted its room, and no passes overlap (`broadcasts.ts:340`) |
| `OnlyHolderConcludes` | `stall` 1 and `fault` 1: the failure of a dispatcher that lost its lease fails the broadcast under its successor (`broadcasts.ts:138`) |
| `OneInFlight` with one worker id | `slow` 1 and `Process` the same for both tickers: `PROCESS_WORKER` is one id per process, so a tick that a slow host call kept past its lease passes the fence of the next pass in that process, and a stale tick does write (`lease.ts:15`, `programs/tick.ts:174`); `program_ticks` gives each ticker a process |
| `OneInFlight`, `SpacedByGap`, `AttemptsMatchMail` without `revived` | a run that an old tick revived, or a retry after the row was given up for dead (`IN_FLIGHT_RECHECK_MS`), puts two decisions in flight |
| `SpacedByGap`, `AttemptsMatchMail` without `overtaken` | two recipients: the finding `program_lost_count`, and also without a crash: the kill switch cancels one row and clears the marker between the acceptance of the other and its count, a tick that was about to start decides again, and the two counts take turns with `lastCountedDecisionId`, which knows only the decision that was counted last |
| `NeverTardy` | an append that opened the journal before the drain renamed it writes after the claim was read; the opt-out was answered 200 and is unlinked (`unsub-journal.ts:116`) |
| `BouncedStaysBlocked` | the finding `bounce_forgotten`; `FinalBlocks` excuses it (`shadowed`) |
| `NeverAutoResumes` | two ticks evaluate: the older copy's roll or grade is written after the other's trip (`health.ts:147`, `:238`); `TripStands` excuses exactly this |
| `NeverBare` | a flow that a script wrote has no snapshot; after a publish its runs get the new steps (`step.ts`, `docs/guide/flows.md:214`) |
| `CanEdit` | publishing leaves `draft: null`, into which `PATCH` cannot set `draft.steps` (templates have the remedy, `admin.ts:1424`) |
| `CanPublish` | a crash between the snapshot and the document: the snapshot of the next version exists, and every later publish fails on the unique index (`arm.ts:217`) |
| `UngateRestores` without `mixed` | a draft made of gated steps is published: taking the gate away brings back older steps |
| `OnlyForward` | a slot in the hour that the clock skips: the window's time is before now (`delivery-window.ts:5`) |
| `DeferralsAdvance` | quiet hours that end in a skipped or repeated hour (America/New_York, 02:30 or 01:30): the mail is deferred to now or before, without delay, over and over until the hour has passed (`contact-policy.md:47`) |
| `BlackoutDropsNone` | mails gathered by a blackout hold each other up when it ends, until one is dropped (`contact-policy.md:67`) |
| `SentInWindow` | the policy defers a flow mail out of its delivery window, which is not asked again (`flows.md:96`) |

Some divergences were seen while modelling and have no formula, because the models follow the code in
them: a draft edited between a publish's read and its write, or before a gate, is lost; a hook's
`nextTickAt` overwrites a wake that came in between; an engaged run's silent finish resets
`unansweredAttempts` over a concurrent count; 'delivered' and a stale 'open' overwrite 'bounced' and
'complained' (`webhook.ts:106`); a crash after an event's claim loses it, as `webhook.ts:41` accepts; a
replayed old opt-out lands after a newer opt-in, since `at` is never compared; two ticks may promote the
same address twice; any row of scope 'all' keeps an address from being promoted; an increment between a
tick's read and its roll is lost; a recipient's slot may be a day late when the clock falls back; a
broadcast's own delay counts towards the expiry of its deferrals.

Hazards in `PROJECT.json` that no property covers: the dedupe key without a path (`send.ts:43`), the
rescue's missing jobs (`broadcasts.ts:361`), the failure write without a lease (`broadcasts.ts:138`) and
the tardy append (`unsub-journal.ts:116`). The property that would cover each does not hold and is in
the table.

## Not modelled

Segments and predicates (queries over the host's data), configuration, models and tokens, templates and
rendering, providers and adapters, reputation monitors, the simulator, the CLI, the client and the
testing kit keep no state that two parties race on, or only report. The HTTP routes are modelled where
they act on a component's state, as its operators; their parsing, paging and CRUD are not. These are most
of the lines of the repository, and most are outside of what a model checker can say anything about.

## Proofs

All theorems are about `Spec`, for every value of the constants: any number of rows, workers, flows,
recipients, events, any budget of faults.

The first part of `SendDispatchProofs` assumes nothing of stalls. `DoomedInv` says of every worker whose row must not be sent
that the check which stops it is still ahead and that its reason still stands, or that it was stopped:
an address stays suppressed and a run aborted, and a resumed broadcast takes its workers off the list.
`QueuedHasJob` is inductive once the types are known: each write of 'queued' adds a job or the promise
of one, and only the claim of that row takes one away. It assumes `NoLosses`, that no process dies
between the two writes of such a pair: `handleSend` and its like have no transaction, and the code
offers nothing that would find the row again.

Its second part assumes `NoStalls`, that no timeout meant for dead parties runs out on a live one:
the first line of the table above shows that the theorems are false without it. Under it `DeliveryInv`
is inductive:

- `NoStall`: the budget for stalls is and stays 0, so a row in 'sending' is swept only when no worker
  claims it;
- `ClaimRow`: a row some worker has claimed is in 'sending'. It is what makes `SingleClaim` inductive:
  a claim takes a row in another state, hence one that nobody has;
- `SingleClaim` itself: without it the first of two claimants could leave 'sending' under the second;
- `HandedOver`: a row accepted and not excused is 'sent', or its only claimant is about to record it;
- `Receipt`: a row that says 'sent' was accepted.

A first group of lemmas sums up what each action of `Next` may do to rows, places, `accepted` and
`unsure` (`Effect`); preservation of the invariant, the action property and the step of the refinement
are proved from that summary, each by one case per kind of effect.

`GapIsKept` has an invariant of its own, `GapInv`, which `NoStalls` makes inductive, since a lock
then expires only under a dead owner:

- `LockHeld`: whoever works under the policy owns the lock of its address, so there is one at a time;
- `Known`: mail in the gap has a sentAt, or lost its receipt, or its worker is about to write it;
- `Clear`: from the decision to the write of sentAt, whatever else is in the gap has left no sentAt.
  The decision reads an empty history, `Known` and `LockHeld` turn that into `Clear`, and nobody else
  changes the history of the address until the lock is given back.

Every step but the decision, the provider's yes and the write of sentAt is `Quiet`, and quiet steps
keep `GapInv`.

`FeedbackProofs` assumes nothing beyond the modules' assumptions on the constants. Its invariants relate
what a party holds to what it has yet to do:

- `AcknowledgedKept` needs the files and the calls. `ClaimsAccounted`: what a drain has claimed and read
  is landed, or in its batch, or, when it is about to unlink the claim, safe elsewhere; else the unlink
  would lose a line. `CallsAccounted`: a call still waiting has the write that lands each of its opt-outs
  ahead of it, and one that journals has journaled what it no longer owes. An opt-out is `Safe` if it has
  landed or is a line of a file that nobody is about to unlink; crashes, adoption and returns move files
  and keep it so;
- `BlocksStay`: `LiftsAsked` and `NoLifts` say who holds writes that lift a block, however long ago they
  were made: calls that asked for it, neither drains nor passes;
- `FinalBlocks`: `StopsAccounted`, a pass that applies a bounce, a complaint or a promotion has the row
  of scope 'all' in place or the insert of it ahead, and a promotion counts as its last write;
- `CountedOnce`: `HeldOnce`, an event is in the hands of one pass at most from its claim on, and
  `CountsAccounted`, while a pass applies it each counter has it or has its one write ahead;
- `TripStands` follows from the types, action by action.

`ProgramRunProofs` assumes `OwnProcesses` of its four theorems about ticks at work: that no two executions
of a tick have one worker id, since the lease tells them apart by nothing else; the table above shows
that `OneInFlight` is false without it. What makes them inductive:

- `TypeInv`, which bounds what the run and each tick's copy of it hold, and says which rows may exist;
- `Leased`: a tick that has checked its lease and has not called the host since is its owner, and the lease
  has not run out, because the clock stands still between two operations. So while one tick is at work
  no other is anywhere near a write (`OthersRest`, `FreeRest`);
- `MarkerKnows` and `CopyKnows`: `inFlight` names the decision of every row that may still reach the
  provider, in the run and in the copy of the tick that has the lease. A hook may clear the marker under
  the tick; the tick's copy then names a decision that is over, which does no harm;
- `Settled`: wherever a tick is about to clear the marker or to write a new decision, it has made sure that
  nothing is in flight (`Sure` lists those places);
- `Pending`: between the write of a decision and its rows, the marker names that decision and none of its
  rows exists;
- `Careful`: what the tick means to write. It clears no marker earlier, unless it ends the run, and once it
  knows of a wake it means to be back at once, from which `WakeNotSleptThrough` follows at the write.

`Stays`, `Waits` and `HookFlight` sum up the steps of everybody else, and each action of a tick has a lemma
of its own.

`MailIsSpaced` and `AttemptsAreMail` need to know what the run has on its books of the mail that was
accepted. Both hold while no excuse applies (`Calm`: the arm that gets mail, a run that was neither
revived nor overtaken), on top of the invariants above. `BookInv` is for the gaps:

- `Newest`: what is in flight, or accepted and not counted yet, is of the newest decision. That is why a
  late count of an old decision cannot overwrite a newer one, and it is what `revived` and `overtaken` break;
- `Booked`: whatever is counted, or about to be flagged as counted, is of a decision that has mail accepted
  no later than `lastSentAt`. Since `countAcceptedSend` writes the date once per decision, the date is
  that of some mail of it and need not be that of the first;
- `Dates` and `Spaced`: a row is no older than its decision, and a decision comes `GapBefore` after some
  mail of each earlier one that has any. `GapBefore` is the shortest that `gapMs` returns for its action
  and attempt, whatever the stage and the progress (`GapIsLeast`);
- `Books` says of each tick, by its place, that it writes neither the date nor the count itself, that its
  copy has the date of the books or one of a count before (`Abreast`), and that past the check of the gap
  in `tick.ts` it has waited for the gap of the attempt it chose, from the date in its copy (`Rested`).
  The rest is that this date is still the one on the books when the tick asks: by `Settled` nothing is in
  flight or waits for its count from the check to the write, and the fence lets no other tick in between.

`TallyInv` is for the attempts:

- `Tally`: the attempts and ladders of each stored state are worth as many decisions (`Worth`) as have
  accepted mail and their count (`Told`: it was counted last, or a later decision was made);
- `Flagged`: a row flagged as counted is of a decision that has its count, so that what has none has
  a row without the flag. `AttemptsMatchMail` follows from this and `Tally` by the cardinality of a union;
- `Fitting` and `Room`: no state is past its ladder and cooldown is at the end of it only; an action
  whose decision is yet to be counted has an attempt left, so that the count never runs off the ladder;
- `Drafts` follows a tick from its lease to its write: its copy of the states is as they are, unless a
  count came since (`Level`), and what it drafts from the copy keeps attempts and ladder, or opens a
  fresh ladder after a full one (`Follows`). So the write, which only has what differs (`actionDiffs`),
  puts no old attempts over a count.

Every action has a lemma for each of the two, and the hooks have one for each of their writes.

`FlowRunProofs` needs nothing for the types, for ended runs and for opted-out contacts (`BarredInv`: a
barred worker stands at the gate, and nobody opts in again). The three theorems about racing workers
assume `NoBranch`; the table above shows why. Then all places lie on one arm, so that equal indices
are equal steps (`SameStep`), and `StraightInv` says by the worker's place what it is about to leave
behind: whoever is about to advance from a send or an event has its row in `made`. For the waits,
`WaitInv` says that no worker holds a copy from further on than the run is, and while the run waits none
of the step that it is at, so that whatever a worker still does is for an earlier step.

`ContactPolicyProofs` rests on `PolicyInv`: the types, that the settings are those of a case, and that
nothing was queued or sent later than now. `Decision` is what every rule comes down to: a mail is sent
only if the gap, the cap, the priorities and the quiet hours ask for no later time and no blackout ends
later, and is deferred within its budget. From the set `SentWithin` of one decision follow the gap to
every mail sent before and the cap in every window that ends with it, because a mail never comes into
the past (`OwnSent`). That is proved for every zone. Two assumptions on the settings are needed for more:

- `QuietEndsAhead`: a period of quiet hours ends after every time in it. Where the clock skips or
  repeats the hour of its end it does not, as the table above has it (`DeferralsAdvance`). Then
  `decideContactPolicy` defers a mail to the past, at which it counts as due before what was sent
  meanwhile, and time passes with nobody late. `QuietEndsInFixedZones` proves it where clocks do not
  change. The settings of `contact_policy` violate it on purpose, so the run goes beyond the theorems;
- `SlotsFit`: a broadcast is not deferred to the recipient's slot for longer than `deferralMaxHours`.
  `SlotsFitInTwoDays` proves it of two days or more; the default is three (`config.ts:650`).

`ConcludeInv` adds to `ConcludesInTime` that the time a mail waits for is within its budget, whose start
moves with a blackout only, and then with the time waited for.

`ClocksHonoured` speaks of one instant, so `PolicyInv` is all the invariant it needs; the work is in the
arithmetic. Its ground is that a number has one day and one time of it (`DayUnique`), so that what
`localParts` takes apart is put together again. `UtcFacts` bounds how far the two passes of
`utcFromLocal` can be off, which is by the shifted hour, and `UtcSteady` has them exact where the
clock does not change nearby. `QuietMeans` and `SlotMeans` follow for quiet periods and the slots of
broadcasts. For windows there are two cases: where the clock does not change from a day before to a day
after (`Meets`, by `AnyTimeSteady` and `SlotTimeSteady`, which follow the slot of the day or the next and
the three shifts off a weekend), and where it does (`AnyTimeRough`, `SlotTimeRough`). For programs,
`PassesRise` shows that no pass takes the time back across a change of the clock, `ShortBlackout` that a
blackout of two days at most ends on a day from which none is left, and `ProgramMeans` that the first
pass or the second settles. The window of a program with the subject's usual hour is built from the day
on which it is asked for; `SessionSteady` shows that the day of the send gives the same one. The theorem
rests on `ClockSizes`, an assumption of `ContactPolicy` on the constants that TLC evaluates too: an hour
is no more than the grace, and both are little of a day (the source has an hour for the grace,
`runner/delivery-window.ts:19`); `MAX_PASSES` is two or more (50, `programs/window.ts:15`); and no zone is
a day or more from UTC.

`FlowTriggersProofs`: `NoEventLost` is not inductive, since the watermark becomes what a scan read
earlier. `ReachInv` adds that every open event is in reach of where each scan under way started, and in
reach of where it will put the watermark unless it has the event in hand (`ScansReach`), and that a
commit is never later than the overlap (`CommitsInTime`), which is why a commit cannot break it.
`OnceInv` adds that the event about to be entered is of a contact without a run, as long as there is
one scan at a time.

`FlowVersionsProofs`: `IInv` says that there are steps `first` of the document at the start such that
whoever holds a copy of a version (the document, a request, a worker, a run) has the steps of that
version, a snapshot's or `first` (`VersionsOf`), that at most one request is about to write the document,
and that one to the version after its own; and, for the gate, that a request that looks for the steps
behind it knows of the newest clean version of its time (`Gates`). Snapshots are never overwritten,
which is what makes it inductive. Nothing is assumed beyond the module's assumption.

`BroadcastDispatchProofs`: `WaveInv` follows each dispatcher through its pages (`Progress`): the pages
before its own are reached or in hand, and below what it has in hand there is no gap. It holds with any
number of overlapping dispatchers, since rows only grow (`OthersProgress`). `CapInv` holds until passes
overlap: the cap of the document and the one the pass read are below the ceiling, and the rows with what
the pass has in hand fit under the cap it read.

| Module | Theorem | Property |
|---|---|---|
| `SendDispatchProofs` | `TypeCorrect` | `TypeOK` |
| | `DoomedStopped` | `DoomedNeverSent` |
| | `QueuedIsServed` | `QueuedHasJob` |
| | `ClaimIsExclusive` | `SingleClaim` |
| | `DeliveredAtMostOnce` | `AtMostOnce` |
| | `FinalStatesStay` | `FinalStays` |
| | `PipelineImplementsSendOnce` | `ImplementsSendOnce` |
| | `GapIsKept` | `GapRespected` |
| `FeedbackProofs` | `TypeCorrect` | `TypeOK` |
| | `TripsStand` | `TripStands` |
| | `BlocksAreKept` | `BlocksStay` |
| | `EventsCountOnce` | `CountedOnce` |
| | `BouncesBlock` | `FinalBlocks` |
| | `OptOutsAreKept` | `AcknowledgedKept` |
| `ProgramRunProofs` | `TypeCorrect` | `TypeOK` |
| | `OneDecisionInFlight` | `OneInFlight` |
| | `WakeIsNotSleptThrough` | `WakeNotSleptThrough` |
| | `MailIsSpaced` | `SpacedByGap` |
| | `AttemptsAreMail` | `AttemptsMatchMail` |
| `FlowRunProofs` | `TypeCorrect` | `TypeOK` |
| | `EndedRunsStay` | `EndedStays` |
| | `OptedOutIsLeftAlone` | `OptedOutUntouched` |
| | `StraightRunsAdvanceOnce` | `AdvancesOnce` |
| | `StraightRunsSkipNoRow` | `NoRowSkipped` |
| | `WaitsAreWaitedOut` | `WaitHonoured` |
| `ContactPolicyProofs` | `TypeCorrect` | `TypeOK` |
| | `OwnRulesAreKept` | `GapKept`, `CapKept`, `QuietKept`, `DatesKept` of what was sent |
| | `RulesAreKept` | `RulesKept` |
| | `MailConcludes` | `ConcludesInTime` |
| | `DeferralsMoveOn` | `DeferralsAdvance` |
| | `ClocksAreHonoured` | `ClocksHonoured` |
| `FlowTriggersProofs` | `TypeCorrect` | `TypeOK` |
| | `NoEventIsLost` | `NoEventLost` |
| | `OnceWithoutOverlap` | `OnceEntersOnce` |
| `FlowVersionsProofs` | `TypeCorrect` | `TypeOK` |
| | `RunsKeepTheirVersion` | `PinnedSteps` |
| | `UngateBringsBack` | `UngateRestores` |
| `BroadcastDispatchProofs` | `TypeCorrect` | `TypeOK` |
| | `CapIsRespected` | `CapRespected` |
| | `WavesKeepOrder` | `WavesInOrder` |
| | `SentMeansAll` | `SentReachesAll` |
| | `CancelledStays` | `CancelStands` |

The types of these modules, `SingleClaim`, `OptedOutUntouched`, the four rules of `OwnRulesAreKept` and
`DeferralsAdvance` are proved; of them only the types of `Feedback` and `ProgramRun` are also run, and
`RulesKept` has the four rules in it.

Every invariant and action property of a run that must pass is the statement of a theorem. Only
model-checked are the liveness properties `EverySendSettles`, `RunEnds`, `SparseEventsSettle`,
`DispatchEnds`, `RunSettles`, `FeedbackSettles` and `ExcessTrips`, since liveness under fairness is out of
the prover's reach. What `programSendTime` does beyond a blackout of two days is neither run nor proved:
its passes are a recursion over data, of which `PassFacts` and `FinalPass` say only what single steps do.
