------------------------------ MODULE FlowRun ------------------------------
(***************************************************************************)
(* The flow runner: how one row of mailer_flow_runs walks the steps of its *)
(* flow.  processOneRunStep is called by advance jobs and by the tick's    *)
(* sweep, both at once if need be; it reads the run, decides, and writes   *)
(* the run back with a compare-and-set on currentStepIndex.  Every action  *)
(* is one database operation, with the reads that precede it.              *)
(*                                                                         *)
(* A step is addressed by its place: the branches taken to reach it and    *)
(* its index in that arm.  What the steps do to contacts, hosts and tags   *)
(* is left out; the dispatch of the rows made here is SendDispatch.        *)
(***************************************************************************)
EXTENDS Naturals, Sequences, FiniteSets

CONSTANTS
  Worker,           \* concurrent executions of processOneRunStep
  Flows,            \* flows by name
  Cases,            \* a flow's name and what may go wrong in a run of it
  WebhookAttempts,  \* config.webhookRetryAttempts
  NoRun

Arm   == {"true", "false"}
Path  == Seq(Nat \X Arm)
Place == [path : Path, index : Nat]
StepType == {"wait", "condition", "branch", "send", "tag", "fire_event",
             "webhook", "exit"}

\* steps: the type of the step at each place; hard: conditions that exit the run
\* and webhooks that fail it; windowed: sends with a delivery window.
IsFlow(f) ==
  /\ DOMAIN f.steps \subseteq Place /\ \A p \in DOMAIN f.steps : f.steps[p] \in StepType
  /\ f.hard \cup f.windowed \subseteq DOMAIN f.steps

\* defer: times a closed delivery window is met; fault: crashes, database errors
\* and lost jobs; ops: opt-outs, deletions, aborts; overlap: 0 where one worker
\* does it all.
Rare == {"defer", "fault", "ops", "overlap"}

ASSUME FlowRunAssumption ==
  /\ \A f \in DOMAIN Flows : IsFlow(Flows[f])
  /\ Cases \subseteq [flow : DOMAIN Flows, bound : [Rare -> Nat]]
  /\ WebhookAttempts \in Nat \ {0}
  /\ NoRun \notin [path : Path, index : Nat, attempts : Nat]

VARIABLES
  run,       \* the document: status, place, nextActionAt, attemptsForCurrentStep
  jobs,      \* mailer:advance jobs waiting
  pc,        \* each worker's place in processOneRunStep
  seen,      \* the copy of the run that each worker decides on
  posting,   \* the job that each worker adds next
  made,      \* rows inserted under a dedupe key, by the step that made them
  world,     \* the contact, its subscription and the flow document
  flow,      \* the version of the flow that the run is pinned to
  budget,    \* what is left of the bounds of this behaviour
  passed,    \* history: places the run has moved on from
  failures,  \* history: failed webhook attempts of each step, up to WebhookAttempts
  barred     \* history: workers that read the run when it had to be exited

vars == <<run, jobs, pc, seen, posting, made, world, flow, budget, passed, failures, barred>>
workerVars  == <<pc, seen, posting, barred>>
outsideVars == <<world, flow, budget>>

\* An advance job.  Its id is what the queue drops duplicates by: a plain job
\* gets a fresh one, so it is told apart by the place it was added for.
Job == [kind : {"plain", "wait", "retry", "window"}, path : Path, index : Nat, n : Nat]
JobFor(kind, path, index, n) == [kind |-> kind, path |-> path, index |-> index, n |-> n]
NoJob == JobFor("plain", <<>>, 0, 0)

Here(w) == [path |-> seen[w].path, index |-> seen[w].index]
At      == [path |-> run.path, index |-> run.index]

Steps    == Flows[flow].steps
Hard     == Flows[flow].hard
Windowed == Flows[flow].windowed
Type(w) == Steps[Here(w)]
Spend(what) == /\ budget[what] > 0
               /\ budget' = [budget EXCEPT ![what] = @ - 1]

Goto(w, place) == pc' = [pc EXCEPT ![w] = place]
\* The worker returns from processOneRunStep.
Return(w) ==
  /\ Goto(w, "idle")
  /\ seen' = [seen EXCEPT ![w] = NoRun]
  /\ posting' = [posting EXCEPT ![w] = NoJob]
  /\ barred' = barred \ {w}
Post(w, j) == /\ Goto(w, "post")
              /\ posting' = [posting EXCEPT ![w] = j]
              /\ UNCHANGED <<seen, barred>>
Pass(w, place) ==
  Goto(w, place) /\ UNCHANGED <<run, jobs, seen, posting, made, passed, failures, barred, outsideVars>>

\* A run is inserted with nextActionAt = now and its first job added, unless
\* the process died in between.
Init ==
  /\ run = [status |-> "active", path |-> <<>>, index |-> 0, parked |-> "no", attempts |-> 0]
  /\ jobs \in {{}, {NoJob}}
  /\ pc = [w \in Worker |-> "idle"] /\ seen = [w \in Worker |-> NoRun]
  /\ posting = [w \in Worker |-> NoJob]
  /\ made = {} /\ world = "fine"
  /\ \E c \in Cases : flow = c.flow /\ budget = c.bound
  /\ passed = {} /\ failures = [p \in DOMAIN Steps |-> 0] /\ barred = {}

-----------------------------------------------------------------------------
(* Starting: a job, or the sweep, then the read of the run.                *)

\* A worker is free; where executions do not overlap, always the same one.
Solo        == CHOOSE w \in Worker : TRUE
MayStart(w) == pc[w] = "idle" /\ (budget["overlap"] = 0 => w = Solo)

\* A delayed job fires when the time it was parked until has come.
TakeJob(w, j) ==
  /\ MayStart(w) /\ j \in jobs
  /\ j.kind # "plain" => run.parked = "no"
  /\ jobs' = jobs \ {j}
  /\ Goto(w, "read")
  /\ UNCHANGED <<run, seen, posting, barred, made, passed, failures, outsideVars>>

\* The sweep's query; the run is processed later, after other runs.
Select(w) ==
  /\ MayStart(w) /\ run.status = "active" /\ run.parked = "no"
  /\ Pass(w, "read")

\* Mutation: the schedule is left to the callers.
ProcessableAnyTime == run.status = "active"
Processable        == run.status = "active" /\ run.parked = "no"

ReadRun(w) ==
  /\ pc[w] = "read"
  /\ IF Processable
     THEN /\ seen' = [seen EXCEPT ![w] = [path |-> run.path, index |-> run.index,
                                          attempts |-> run.attempts]]
          /\ barred' = IF world = "fine" THEN barred ELSE barred \cup {w}
          /\ Goto(w, "gate") /\ UNCHANGED posting
     ELSE Return(w)
  /\ UNCHANGED <<run, jobs, made, passed, failures, outsideVars>>

\* completeFlowRun, exitFlowRun, failFlowRun: whatever step the run is at now.
\* Mutation: without the filter on the status.
EndAnyRun(w, status) ==
  /\ run' = [run EXCEPT !.status = status]
  /\ Return(w)
  /\ UNCHANGED <<jobs, made, passed, failures, outsideVars>>
End(w, status) ==
  /\ run' = IF run.status = "active" THEN [run EXCEPT !.status = status] ELSE run
  /\ Return(w)
  /\ UNCHANGED <<jobs, made, passed, failures, outsideVars>>

\* The flow, the step, the contact, its address and its subscription.
Gate(w) ==
  /\ pc[w] = "gate"
  /\ \/ world = "flow_missing" /\ End(w, "failed")
     \/ world # "flow_missing" /\ Here(w) \notin DOMAIN Steps /\ End(w, "completed")
     \/ world = "no_recipient" /\ Here(w) \in DOMAIN Steps /\ End(w, "exited")
     \/ world = "fine" /\ Here(w) \in DOMAIN Steps /\ Pass(w, "act")

-----------------------------------------------------------------------------
(* Moving: the compare-and-set on currentStepIndex.                        *)

\* Mutation: no compare-and-set.
MatchesAlways(w) == TRUE
Matches(w)       == run.index = seen[w].index

Moved(place, parked) ==
  [run EXCEPT !.path = place.path, !.index = place.index, !.parked = parked, !.attempts = 0]

\* On a match the run moves to place and the job is added next; otherwise
\* "another worker advanced; their job will fire".
Move(w, place, parked, j) ==
  /\ IF Matches(w)
     THEN /\ run' = Moved(place, parked)
          /\ passed' = passed \cup {At}
          /\ Post(w, j)
     ELSE UNCHANGED <<run, passed>> /\ Return(w)
  /\ UNCHANGED <<jobs, made, failures, outsideVars>>

\* advanceStep, after a step that is done, a webhook given up, a false
\* condition that skips one step.
Increment == [advance |-> 1, giveUp |-> 1, skip |-> 2]
Advance(w) ==
  /\ pc[w] \in DOMAIN Increment
  /\ LET next == [path |-> run.path, index |-> run.index + Increment[pc[w]]]
     IN  Move(w, next, "no", JobFor("plain", next.path, next.index, 0))

AddJob(w) ==
  /\ pc[w] = "post"
  /\ jobs' = jobs \cup {posting[w]}
  /\ Return(w)
  /\ UNCHANGED <<run, made, passed, failures, outsideVars>>

-----------------------------------------------------------------------------
(* The step handlers.                                                      *)

Wait(w) ==
  /\ pc[w] = "act" /\ Type(w) = "wait"
  /\ Move(w, [path |-> run.path, index |-> run.index + 1], "wait",
          JobFor("wait", seen[w].path, seen[w].index + 1, 0))

Condition(w) ==
  /\ pc[w] = "act" /\ Type(w) = "condition"
  /\ \/ Pass(w, "advance")
     \/ Here(w) \notin Hard /\ Pass(w, "skip")
     \/ Here(w) \in Hard /\ End(w, "exited")

\* Entering an arm is the one move that sets the path; the index starts over.
Branch(w) ==
  /\ pc[w] = "act" /\ Type(w) = "branch"
  /\ \E arm \in Arm :
       LET path == Append(seen[w].path, <<seen[w].index, arm>>)
       IN  Move(w, [path |-> path, index |-> 0], "no", JobFor("plain", path, 0, 0))

\* The delivery window is closed: the run is parked on the same step, unless it
\* is parked until that time or longer already.
DeferSend(w) ==
  /\ pc[w] = "act" /\ Type(w) = "send" /\ Here(w) \in Windowed
  /\ Spend("defer")
  /\ \/ /\ Matches(w) /\ run.parked # "window"
        /\ run' = [run EXCEPT !.parked = "window"]
        /\ Post(w, JobFor("window", seen[w].path, seen[w].index, budget["defer"]))
     \/ /\ ~Matches(w) \/ run.parked # "no"
        /\ UNCHANGED run /\ Return(w)
  /\ UNCHANGED <<jobs, made, passed, failures, world, flow>>

\* The dedupe keys flowrun:<id>:step<index> of sends, and the same with the
\* event's name of events, hold the index and not the branch path.
\* Mutation: not even the index.
SameKeyForRun(p, q) == Steps[p] = Steps[q]
SameKey(p, q)       == p.index = q.index /\ Steps[p] = Steps[q]
Exists(w) == \E p \in made : SameKey(p, Here(w))

\* handleSend: the template, then the row under the step's dedupe key.
FindSend(w) ==
  /\ pc[w] = "act" /\ Type(w) = "send"
  /\ \/ End(w, "failed")
     \/ Exists(w) /\ Pass(w, "advance")
     \/ ~Exists(w) /\ Pass(w, "insert")

\* The loser of two inserts throws E11000.  A rendering error inserts a failed
\* row, which has no job.
InsertSend(w) ==
  /\ pc[w] = "insert"
  /\ \/ Exists(w) /\ UNCHANGED made /\ Return(w)
     \/ /\ ~Exists(w)
        /\ made' = made \cup {Here(w)}
        /\ \E place \in {"enqueue", "advance"} : Goto(w, place)
        /\ UNCHANGED <<seen, posting, barred>>
  /\ UNCHANGED <<run, jobs, passed, failures, outsideVars>>

\* The send job is SendDispatch's to follow.
EnqueueSend(w) == pc[w] = "enqueue" /\ Pass(w, "advance")

Tag(w) == pc[w] = "act" /\ Type(w) = "tag" /\ Pass(w, "advance")

\* E11000 is not an error here: the event was inserted by an earlier try.
FireEvent(w) ==
  /\ pc[w] = "act" /\ Type(w) = "fire_event"
  /\ made' = IF Exists(w) THEN made ELSE made \cup {Here(w)}
  /\ Goto(w, "advance")
  /\ UNCHANGED <<run, jobs, seen, posting, barred, passed, failures, outsideVars>>

CallWebhook(w) ==
  /\ pc[w] = "act" /\ Type(w) = "webhook"
  /\ \E place \in {"advance", "hookFailed"} : Pass(w, place)

\* advanceStep runs inside the try block of the call: its errors count too.
AdvanceThrows(w) ==
  /\ pc[w] \in {"advance", "post"} /\ Type(w) = "webhook"
  /\ pc[w] = "post" => Here(w) \in Hard /\ posting[w].kind = "plain"
  /\ Spend("fault")
  /\ Goto(w, "hookFailed")
  /\ posting' = [posting EXCEPT ![w] = NoJob]
  /\ UNCHANGED <<run, jobs, seen, barred, made, passed, failures, world, flow>>

\* Mutation: the attempt is not counted on the run.
ParkedForRetryUncounted == [run EXCEPT !.parked = "retry"]
ParkedForRetry == [run EXCEPT !.attempts = @ + 1, !.parked = "retry"]

\* The last attempt fails the run or gives the step up; an earlier one parks
\* the run for a minute and adds a job whether or not the run was written.
HookFailed(w) ==
  LET n == seen[w].attempts + 1 IN
  /\ pc[w] = "hookFailed"
  /\ failures' = [failures EXCEPT ![Here(w)] = IF @ < WebhookAttempts THEN @ + 1 ELSE @]
  /\ \/ /\ n >= WebhookAttempts /\ Here(w) \in Hard
        /\ run' = IF run.status = "active" THEN [run EXCEPT !.status = "failed"] ELSE run
        /\ Return(w)
     \/ /\ n >= WebhookAttempts /\ Here(w) \notin Hard
        /\ Goto(w, "giveUp") /\ UNCHANGED <<run, seen, posting, barred>>
     \/ /\ n < WebhookAttempts
        /\ run' = IF Matches(w) THEN ParkedForRetry ELSE run
        /\ Post(w, JobFor("retry", seen[w].path, seen[w].index, n))
  /\ UNCHANGED <<jobs, made, passed, outsideVars>>

Exit(w) == pc[w] = "act" /\ Type(w) = "exit" /\ End(w, "exited")

-----------------------------------------------------------------------------
(* Time, faults and the outside world.                                     *)

\* nextActionAt passes.
Elapse ==
  /\ run.parked # "no"
  /\ run' = [run EXCEPT !.parked = "no"]
  /\ UNCHANGED <<jobs, made, passed, failures, workerVars, outsideVars>>

\* The contact opts out, is deleted or loses its address; the flow is deleted.
Change ==
  /\ world = "fine" /\ Spend("ops")
  /\ world' \in {"no_recipient", "flow_missing"}
  /\ UNCHANGED <<run, jobs, flow, made, passed, failures, workerVars>>

\* abortActiveRuns: exitFlowRun from outside.
Abort ==
  /\ run.status = "active" /\ Spend("ops")
  /\ run' = [run EXCEPT !.status = "exited"]
  /\ UNCHANGED <<jobs, world, flow, made, passed, failures, workerVars>>

\* The process dies or a database call throws.  A retry of the job is one more
\* start, like the sweep's.
Crash(w) ==
  /\ pc[w] # "idle" /\ Spend("fault")
  /\ Return(w)
  /\ UNCHANGED <<run, jobs, world, flow, made, passed, failures>>

\* "worker restart, BullMQ data loss"
LoseJob(j) ==
  /\ j \in jobs /\ Spend("fault")
  /\ jobs' = jobs \ {j}
  /\ UNCHANGED <<run, world, flow, made, passed, failures, workerVars>>

-----------------------------------------------------------------------------
SendStep(w) == DeferSend(w) \/ FindSend(w) \/ InsertSend(w) \/ EnqueueSend(w)
Webhook(w)  == CallWebhook(w) \/ HookFailed(w)
Step(w) ==
  \/ ReadRun(w) \/ Gate(w) \/ Advance(w) \/ AddJob(w)
  \/ Wait(w) \/ Condition(w) \/ Branch(w) \/ SendStep(w)
  \/ Tag(w) \/ FireEvent(w) \/ Webhook(w) \/ Exit(w)
Start(w) == Select(w) \/ \E j \in jobs : TakeJob(w, j)
Fault(w) == AdvanceThrows(w) \/ Crash(w)

Next ==
  \/ \E w \in Worker : Start(w) \/ Step(w) \/ Fault(w)
  \/ \E j \in jobs : LoseJob(j)
  \/ Elapse \/ Change \/ Abort

Spec == Init /\ [][Next]_vars

(***************************************************************************)
(* Fairness: a call that was started goes on, clocks advance, and the tick *)
(* sweeps again and again.  Jobs need no fairness: the sweep finds every   *)
(* active run that is due.                                                 *)
(***************************************************************************)
FairSpec ==
  /\ Spec
  /\ WF_vars(Elapse)
  /\ WF_vars(\E w \in Worker : Select(w))
  /\ \A w \in Worker : WF_vars(Step(w))

-----------------------------------------------------------------------------
(* Properties.                                                             *)

\* Every variable holds a value of its type, and idle workers hold no run.
TypeOK ==
  /\ run \in [status : {"active", "completed", "exited", "failed"}, path : Path,
              index : Nat, parked : {"no", "wait", "retry", "window"}, attempts : Nat]
  /\ jobs \subseteq Job
  /\ pc \in [Worker -> {"idle", "read", "gate", "act", "insert", "enqueue", "hookFailed",
                        "advance", "giveUp", "skip", "post"}]
  /\ seen \in [Worker -> [path : Path, index : Nat, attempts : Nat] \cup {NoRun}]
  /\ \A w \in Worker : (seen[w] = NoRun) <=> (pc[w] \in {"idle", "read"})
  /\ posting \in [Worker -> Job]
  /\ made \subseteq DOMAIN Steps
  /\ world \in {"fine", "no_recipient", "flow_missing"}
  /\ flow \in DOMAIN Flows /\ budget \in [Rare -> Nat]
  /\ passed \subseteq Place /\ failures \in [DOMAIN Steps -> Nat] /\ barred \subseteq Worker

\* "two workers racing on the same run advance exactly once": the run leaves a
\* step only in a call that read it at that very step.
AdvancesOnce ==
  [][At' # At => \E w \in Worker : pc[w] # "idle" /\ pc'[w] # pc[w] /\ seen[w] # NoRun /\ Here(w) = At]_vars

\* "exactly-once sends per step": a run that has moved on from a send step, or
\* from a fire_event step, has the row that step was to make.  It does not hold of
\* a flow with a send at the head of an arm and one at the same index before the
\* branch: the dedupe key has no branch path, and the second is skipped.
NoRowSkipped ==
  \A p \in passed \cap DOMAIN Steps : Steps[p] \in {"send", "fire_event"} => p \in made

\* The step after a wait has no effect before the wait is over, whatever the
\* sweep or another worker had read before the run was parked.
WaitHonoured ==
  [][run.parked = "wait" =>
       /\ At' = At /\ (At \in made' => At \in made)
       /\ At \in DOMAIN Steps => failures'[At] = failures[At]]_vars

\* A call that read the run after its contact had opted out, or its flow was
\* deleted, makes no row and calls no webhook.
OptedOutUntouched == \A w \in barred : pc[w] \in {"gate", "idle"}

\* A run that is completed, exited or failed stays so: aborts and workers race.
EndedStays == [][run.status # "active" => run'.status = run.status]_vars

\* Every run ends: a crash, a lost job or a failing webhook only delays it.
RunEnds == run.status = "active" ~> run.status # "active"
=============================================================================
