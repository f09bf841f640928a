--------------------------- MODULE FlowRunProofs ---------------------------
(***************************************************************************)
(* Proofs about FlowRun, for every value of its constants.                 *)
(***************************************************************************)
EXTENDS FlowRun, TLAPS

USE FlowRunAssumption DEF Rare

-----------------------------------------------------------------------------
(* The type invariant.                                                     *)

Busy == {"gate", "act", "insert", "enqueue", "hookFailed", "advance", "giveUp", "skip", "post"}
Copy == [path : Path, index : Nat, attempts : Nat]

WorkerType ==
  /\ pc \in [Worker -> Busy \cup {"idle", "read"}]
  /\ seen \in [Worker -> Copy \cup {NoRun}]
  /\ \A w \in Worker : (seen[w] = NoRun) <=> (pc[w] \in {"idle", "read"})
  /\ posting \in [Worker -> Job] /\ barred \subseteq Worker
RunType ==
  /\ run \in [status : {"active", "completed", "exited", "failed"}, path : Path,
              index : Nat, parked : {"no", "wait", "retry", "window"}, attempts : Nat]
  /\ jobs \subseteq Job
  /\ made \subseteq DOMAIN Steps
  /\ world \in {"fine", "no_recipient", "flow_missing"}
  /\ flow \in DOMAIN Flows /\ budget \in [Rare -> Nat]
  /\ passed \subseteq Place /\ failures \in [DOMAIN Steps -> Nat]

\* Past the gate a worker is at a step of the flow.
AtStep == \A w \in Worker : pc[w] \notin {"idle", "read", "gate"} => Here(w) \in DOMAIN Steps

LEMMA TypeSplit == TypeOK <=> WorkerType /\ RunType
BY DEF TypeOK, WorkerType, RunType, Busy, Copy

LEMMA StepsKnown ==
  ASSUME RunType
  PROVE  DOMAIN Steps \subseteq Place /\ \A p \in DOMAIN Steps : Steps[p] \in StepType
BY DEF RunType, IsFlow, Steps

LEMMA InitType == Init => TypeOK /\ AtStep
<1>1. SUFFICES ASSUME Init PROVE WorkerType /\ RunType /\ AtStep
  BY TypeSplit
<1>2. <<>> \in Path BY DEF Path
<1>3. NoJob \in Job BY <1>2 DEF NoJob, JobFor, Job
<1>4. WorkerType BY <1>1, <1>3 DEF Init, WorkerType
<1>5. PICK c \in Cases : flow = c.flow /\ budget = c.bound BY <1>1 DEF Init
<1>6. flow \in DOMAIN Flows /\ budget \in [Rare -> Nat] BY <1>5
<1>7. RunType BY <1>1, <1>2, <1>3, <1>6 DEF Init, RunType
<1>8. AtStep BY <1>1 DEF Init, AtStep
<1>9. QED BY <1>4, <1>7, <1>8

LEMMA SpendType ==
  ASSUME RunType, NEW what \in Rare, Spend(what)
  PROVE  budget' \in [Rare -> Nat]
BY DEF Spend, RunType

\* A worker that returns, posts a job or goes on keeps its types.
LEMMA ReturnType ==
  ASSUME WorkerType, AtStep, NEW w \in Worker, Return(w), UNCHANGED flow
  PROVE  WorkerType' /\ AtStep'
<1>1. <<>> \in Path BY DEF Path
<1>2. NoJob \in Job BY <1>1 DEF NoJob, JobFor, Job
<1>3. WorkerType' BY <1>2 DEF Return, Goto, WorkerType, Copy
<1>4. AtStep' BY DEF Return, Goto, WorkerType, AtStep, Here, Steps
<1>5. QED BY <1>3, <1>4

LEMMA PostType ==
  ASSUME WorkerType, AtStep, NEW w \in Worker, NEW j \in Job, Post(w, j), UNCHANGED flow,
         pc[w] \in Busy \ {"gate"}
  PROVE  WorkerType' /\ AtStep'
<1>1. WorkerType' BY DEF Post, Goto, WorkerType, Busy
<1>2. AtStep' BY DEF Post, Goto, WorkerType, AtStep, Here, Steps, Busy
<1>3. QED BY <1>1, <1>2

LEMMA OnType ==
  ASSUME WorkerType, AtStep, NEW w \in Worker, NEW place \in Busy, Goto(w, place),
         UNCHANGED <<seen, posting, barred, flow>>, pc[w] \in Busy,
         pc[w] = "gate" => Here(w) \in DOMAIN Steps
  PROVE  WorkerType' /\ AtStep'
<1>1. WorkerType' BY DEF Goto, WorkerType, Busy
<1>2. AtStep' BY DEF Goto, WorkerType, AtStep, Here, Steps, Busy
<1>3. QED BY <1>1, <1>2

LEMMA JobType ==
  ASSUME NEW kind \in {"plain", "wait", "retry", "window"}, NEW path \in Path,
         NEW index \in Nat, NEW n \in Nat
  PROVE  JobFor(kind, path, index, n) \in Job
BY DEF JobFor, Job

\* What a worker has read, and where it is.
LEMMA BusyWorker ==
  ASSUME WorkerType, NEW w \in Worker, pc[w] \in Busy
  PROVE  seen[w] \in Copy /\ Here(w) \in Place
BY DEF WorkerType, Busy, Here, Copy, Place

\* Moving the run, and ending it.
LEMMA MoveType ==
  ASSUME WorkerType, RunType, AtStep, NEW w \in Worker, pc[w] \in Busy \ {"gate"},
         NEW place \in Place, NEW parked \in {"no", "wait", "retry", "window"}, NEW j \in Job,
         Move(w, place, parked, j)
  PROVE  WorkerType' /\ RunType' /\ AtStep'
<1>1. UNCHANGED <<jobs, made, failures, world, flow, budget>> BY DEF Move, outsideVars
<1>2. CASE Matches(w)
  <2>1. run' = Moved(place, parked) /\ passed' = passed \cup {At} /\ Post(w, j)
    BY <1>2 DEF Move
  <2>2. At \in Place BY DEF At, Place, RunType
  <2>3. RunType' BY <1>1, <2>1, <2>2 DEF RunType, Moved, Place, Steps
  <2>4. QED BY <1>1, <2>1, <2>3, PostType
<1>3. CASE ~Matches(w)
  <2>1. UNCHANGED <<run, passed>> /\ Return(w) BY <1>3 DEF Move
  <2>2. RunType' BY <1>1, <2>1 DEF RunType, Steps
  <2>3. QED BY <1>1, <2>1, <2>2, ReturnType
<1>4. QED BY <1>2, <1>3

LEMMA EndType ==
  ASSUME WorkerType, RunType, AtStep, NEW w \in Worker,
         NEW status \in {"completed", "exited", "failed"}, End(w, status)
  PROVE  WorkerType' /\ RunType' /\ AtStep'
<1>1. UNCHANGED <<jobs, made, passed, failures, world, flow, budget>> /\ Return(w)
  BY DEF End, outsideVars
<1>2. RunType' BY <1>1 DEF End, RunType, Steps
<1>3. QED BY <1>1, <1>2, ReturnType

LEMMA PassType ==
  ASSUME WorkerType, RunType, AtStep, NEW w \in Worker, NEW place \in Busy, Pass(w, place),
         pc[w] \in Busy, pc[w] = "gate" => Here(w) \in DOMAIN Steps
  PROVE  WorkerType' /\ RunType' /\ AtStep'
<1>1. UNCHANGED <<run, jobs, seen, posting, barred, made, passed, failures, world, flow, budget>>
  BY DEF Pass, outsideVars
<1>2. RunType' BY <1>1 DEF RunType, Steps
<1>3. Goto(w, place) BY DEF Pass
<1>4. QED BY <1>1, <1>2, <1>3, OnType

Typed == WorkerType' /\ RunType' /\ AtStep'

\* From the job or the sweep to the step.
LEMMA StartTypes ==
  ASSUME WorkerType, RunType, AtStep, NEW w \in Worker, Start(w) \/ ReadRun(w) \/ Gate(w)
  PROVE  Typed
<1> USE DEF Typed, outsideVars
<1>1. ASSUME NEW j \in jobs, TakeJob(w, j) PROVE Typed
  BY <1>1 DEF TakeJob, MayStart, Goto, WorkerType, RunType, AtStep, Here, Steps
<1>2. CASE Select(w)
  BY <1>2 DEF Select, MayStart, Pass, Goto, WorkerType, RunType, AtStep, Here, Steps
<1>3. CASE ReadRun(w)
  <2>1. UNCHANGED <<run, jobs, made, passed, failures, world, flow, budget>>
    BY <1>3 DEF ReadRun
  <2>2. RunType' BY <2>1 DEF RunType, Steps
  <2>3. CASE Processable
    <3>1. /\ seen' = [seen EXCEPT ![w] = [path |-> run.path, index |-> run.index,
                                          attempts |-> run.attempts]]
          /\ pc' = [pc EXCEPT ![w] = "gate"] /\ UNCHANGED posting /\ barred' \subseteq Worker
      BY <1>3, <2>3 DEF ReadRun, Goto, WorkerType
    <3>2. [path |-> run.path, index |-> run.index, attempts |-> run.attempts] \in Copy
      BY DEF RunType, Copy
    <3>3. WorkerType' BY <3>1, <3>2 DEF WorkerType, Busy, Copy
    <3>4. AtStep' BY <2>1, <3>1 DEF WorkerType, AtStep, Here, Steps
    <3>5. QED BY <2>2, <3>3, <3>4
  <2>4. CASE ~Processable
    <3>1. Return(w) BY <1>3, <2>4 DEF ReadRun
    <3>2. QED BY <2>1, <2>2, <3>1, ReturnType
  <2>5. QED BY <2>3, <2>4
<1>4. CASE Gate(w)
  BY <1>4, EndType, PassType DEF Gate, Busy
<1>5. QED BY <1>1, <1>2, <1>3, <1>4 DEF Start

\* The steps that move the run.
LEMMA MovingTypes ==
  ASSUME WorkerType, RunType, AtStep, NEW w \in Worker,
         Advance(w) \/ AddJob(w) \/ Wait(w) \/ Condition(w) \/ Branch(w) \/ Exit(w) \/ Tag(w)
  PROVE  Typed
<1> USE DEF Typed, outsideVars
<1>1. CASE Advance(w)
  <2>1. pc[w] \in {"advance", "giveUp", "skip"} /\ Increment[pc[w]] \in Nat
    BY <1>1 DEF Advance, Increment
  <2> DEFINE next == [path |-> run.path, index |-> run.index + Increment[pc[w]]]
  <2>2. next \in Place BY <2>1 DEF RunType, Place
  <2>3. JobFor("plain", next.path, next.index, 0) \in Job BY <2>2, JobType DEF Place
  <2>4. Move(w, next, "no", JobFor("plain", next.path, next.index, 0)) BY <1>1 DEF Advance
  <2>5. QED BY <2>1, <2>2, <2>3, <2>4, MoveType DEF Busy
<1>2. CASE AddJob(w)
  <2>1. posting[w] \in Job BY DEF WorkerType
  <2>2. RunType' BY <1>2, <2>1 DEF AddJob, RunType, Steps
  <2>3. QED BY <1>2, <2>2, ReturnType DEF AddJob
<1>3. CASE Wait(w)
  <2>1. pc[w] = "act" /\ seen[w] \in Copy BY <1>3, BusyWorker DEF Wait, Busy
  <2>2. [path |-> run.path, index |-> run.index + 1] \in Place BY DEF RunType, Place
  <2>3. JobFor("wait", seen[w].path, seen[w].index + 1, 0) \in Job
    BY <2>1, JobType DEF Copy
  <2>4. QED BY <1>3, <2>1, <2>2, <2>3, MoveType DEF Wait, Busy
<1>4. CASE Condition(w)
  BY <1>4, PassType, EndType DEF Condition, Busy
<1>5. CASE Branch(w)
  <2>1. pc[w] = "act" /\ seen[w] \in Copy BY <1>5, BusyWorker DEF Branch, Busy
  <2>2. PICK arm \in Arm :
          Move(w, [path |-> Append(seen[w].path, <<seen[w].index, arm>>), index |-> 0], "no",
               JobFor("plain", Append(seen[w].path, <<seen[w].index, arm>>), 0, 0))
    BY <1>5 DEF Branch
  <2>3. Append(seen[w].path, <<seen[w].index, arm>>) \in Path BY <2>1 DEF Copy, Path
  <2>4. QED BY <2>1, <2>2, <2>3, JobType, MoveType DEF Busy, Place
<1>6. CASE Exit(w) \/ Tag(w)
  BY <1>6, PassType, EndType DEF Exit, Tag, Busy
<1>7. QED BY <1>1, <1>2, <1>3, <1>4, <1>5, <1>6

\* Sends, events and webhooks.
LEMMA ActingTypes ==
  ASSUME WorkerType, RunType, AtStep, NEW w \in Worker,
         SendStep(w) \/ FireEvent(w) \/ Webhook(w) \/ Fault(w)
  PROVE  Typed
<1> USE DEF Typed, outsideVars
<1>1. CASE DeferSend(w)
  <2>1. pc[w] = "act" /\ seen[w] \in Copy BY <1>1, BusyWorker DEF DeferSend, Busy
  <2>2. JobFor("window", seen[w].path, seen[w].index, budget["defer"]) \in Job
    BY <2>1, JobType DEF Copy, RunType
  <2>3. RunType' BY <1>1, SpendType DEF DeferSend, RunType, Steps
  <2>4. UNCHANGED flow BY <1>1 DEF DeferSend
  <2>5. QED BY <1>1, <2>1, <2>2, <2>3, <2>4, PostType, ReturnType DEF DeferSend, Busy
<1>2. CASE FindSend(w)
  BY <1>2, PassType, EndType DEF FindSend, Busy
<1>3. CASE InsertSend(w)
  <2>1. pc[w] = "insert" /\ Here(w) \in DOMAIN Steps BY <1>3 DEF InsertSend, AtStep
  <2>2. UNCHANGED flow /\ RunType' BY <1>3, <2>1 DEF InsertSend, RunType, Steps
  <2>3. QED BY <1>3, <2>1, <2>2, OnType, ReturnType DEF InsertSend, Busy
<1>4. CASE EnqueueSend(w)
  BY <1>4, PassType DEF EnqueueSend, Busy
<1>5. CASE FireEvent(w)
  <2>1. pc[w] = "act" /\ Here(w) \in DOMAIN Steps BY <1>5 DEF FireEvent, AtStep
  <2>2. UNCHANGED flow /\ RunType' BY <1>5, <2>1 DEF FireEvent, RunType, Steps
  <2>3. QED BY <1>5, <2>1, <2>2, OnType DEF FireEvent, Busy
<1>6. CASE CallWebhook(w)
  BY <1>6, PassType DEF CallWebhook, Busy
<1>7. CASE HookFailed(w)
  <2>1. pc[w] = "hookFailed" /\ seen[w] \in Copy BY <1>7, BusyWorker DEF HookFailed, Busy
  <2>2. UNCHANGED <<jobs, made, passed, world, flow, budget>> BY <1>7 DEF HookFailed
  <2>3. failures' \in [DOMAIN Steps -> Nat]
    <3> DEFINE old == failures[Here(w)]
               new == IF old < WebhookAttempts THEN old + 1 ELSE old
    <3>1. failures' = [failures EXCEPT ![Here(w)] = new]
      BY <1>7 DEF HookFailed
    <3>2. failures \in [DOMAIN Steps -> Nat] /\ Here(w) \in DOMAIN Steps
      BY <2>1 DEF RunType, AtStep
    <3>3. new \in Nat BY <3>2
    <3> HIDE DEF new
    <3>4. QED BY <3>1, <3>2, <3>3
  <2>4. JobFor("retry", seen[w].path, seen[w].index, seen[w].attempts + 1) \in Job
    BY <2>1, JobType DEF Copy
  <2>5. run' \in [status : {"active", "completed", "exited", "failed"}, path : Path,
              index : Nat, parked : {"no", "wait", "retry", "window"}, attempts : Nat]
    <3>1. \/ run' = run \/ run' = [run EXCEPT !.status = "failed"]
          \/ run' = [run EXCEPT !.attempts = @ + 1, !.parked = "retry"]
      BY <1>7 DEF HookFailed, ParkedForRetry
    <3>2. run \in [status : {"active", "completed", "exited", "failed"}, path : Path,
                   index : Nat, parked : {"no", "wait", "retry", "window"}, attempts : Nat]
      BY DEF RunType
    <3>3. CASE run' = run BY <3>2, <3>3
    <3>4. CASE run' = [run EXCEPT !.status = "failed"] BY <3>2, <3>4
    <3>5. CASE run' = [run EXCEPT !.attempts = @ + 1, !.parked = "retry"]
      <4>1. run' = [status |-> run.status, path |-> run.path, index |-> run.index,
                    parked |-> "retry", attempts |-> run.attempts + 1]
        BY <3>2, <3>5
      <4>2. run.attempts + 1 \in Nat BY <3>2
      <4>3. QED BY <3>2, <4>1, <4>2
    <3>6. QED BY <3>1, <3>3, <3>4, <3>5
  <2>6. RunType' BY <2>2, <2>3, <2>5 DEF RunType, Steps
  <2>7. QED BY <1>7, <2>1, <2>2, <2>4, <2>6, PostType, ReturnType, OnType DEF HookFailed, Busy
<1>8. CASE AdvanceThrows(w)
  <2>1. <<>> \in Path BY DEF Path
  <2>2. NoJob \in Job BY <2>1 DEF NoJob, JobFor, Job
  <2>3. RunType' BY <1>8, SpendType DEF AdvanceThrows, RunType, Steps
  <2>4. WorkerType' /\ AtStep'
    BY <1>8, <2>2 DEF AdvanceThrows, Goto, WorkerType, AtStep, Here, Steps, Busy
  <2>5. QED BY <2>3, <2>4
<1>9. CASE Crash(w)
  <2>1. UNCHANGED flow /\ RunType' BY <1>9, SpendType DEF Crash, RunType, Steps
  <2>2. QED BY <1>9, <2>1, ReturnType DEF Crash
<1>10. QED BY <1>1, <1>2, <1>3, <1>4, <1>5, <1>6, <1>7, <1>8, <1>9 DEF SendStep, Webhook, Fault

\* Time, contacts, operators and the queue.
LEMMA OutsideTypes ==
  ASSUME WorkerType, RunType, AtStep,
         (\E j \in jobs : LoseJob(j)) \/ Elapse \/ Change \/ Abort
  PROVE  Typed
<1>1. UNCHANGED <<workerVars, flow>>
  BY DEF LoseJob, Elapse, Change, Abort, outsideVars
<1>2. WorkerType' /\ AtStep' BY <1>1 DEF workerVars, WorkerType, AtStep, Here, Steps
<1>3. CASE \E j \in jobs : LoseJob(j)
  BY <1>2, <1>3, SpendType DEF LoseJob, RunType, Steps, Typed
<1>4. CASE Elapse
  BY <1>2, <1>4 DEF Elapse, RunType, Steps, Typed, outsideVars
<1>5. CASE Change
  BY <1>2, <1>5, SpendType DEF Change, RunType, Steps, Typed
<1>6. CASE Abort
  BY <1>2, <1>6, SpendType DEF Abort, RunType, Steps, Typed
<1>7. QED BY <1>3, <1>4, <1>5, <1>6

LEMMA NextType == ASSUME TypeOK, AtStep, [Next]_vars PROVE TypeOK' /\ AtStep'
<1>1. WorkerType /\ RunType BY TypeSplit
<1>2. CASE Next
  <2>1. Typed
    BY <1>1, <1>2, StartTypes, MovingTypes, ActingTypes, OutsideTypes DEF Next, Step
  <2>2. QED BY <2>1, TypeSplit DEF Typed, TypeOK, WorkerType, RunType, Busy, Copy
<1>3. CASE UNCHANGED vars
  BY <1>3 DEF vars, TypeOK, AtStep, Here, Steps
<1>4. QED BY <1>2, <1>3

\* The variables keep their types, and a worker that acts is at a step of the flow.
THEOREM TypeCorrect == Spec => []TypeOK
<1>1. Init => TypeOK /\ AtStep BY InitType
<1>2. TypeOK /\ AtStep /\ [Next]_vars => (TypeOK /\ AtStep)' BY NextType
<1>3. QED BY <1>1, <1>2, PTL DEF Spec

-----------------------------------------------------------------------------
(* Runs that have ended, contacts that have opted out.                     *)

LEMMA EndedStep ==
  ASSUME TypeOK, [Next]_vars, run.status # "active"
  PROVE  run'.status = run.status
<1> DEFINE Same == run'.status = run.status
<1>1. ASSUME NEW w \in Worker, NEW place, NEW parked, NEW j, Move(w, place, parked, j) PROVE Same
  BY <1>1 DEF Move, Moved, TypeOK
<1>2. ASSUME NEW w \in Worker, NEW status, End(w, status) PROVE Same
  BY <1>2 DEF End
<1>3. ASSUME NEW w \in Worker, NEW place, Pass(w, place) PROVE Same
  BY <1>3 DEF Pass
<1>4. ASSUME NEW w \in Worker, Start(w) PROVE Same
  BY <1>3, <1>4 DEF Start, TakeJob, Select, MayStart
<1>5. ASSUME NEW w \in Worker, Step(w) PROVE Same
  <2>1. CASE ReadRun(w) \/ Gate(w) \/ AddJob(w)
    BY <2>1, <1>2, <1>3 DEF ReadRun, Gate, AddJob
  <2>2. CASE Advance(w)
    <3>1. PICK place, j : Move(w, place, "no", j) BY <2>2 DEF Advance
    <3>2. QED BY <3>1, <1>1
  <2>3. CASE Wait(w) \/ Condition(w) \/ Tag(w) \/ Exit(w)
    BY <2>3, <1>1, <1>2, <1>3 DEF Wait, Condition, Tag, Exit
  <2>4. CASE Branch(w)
    <3>1. PICK place, j : Move(w, place, "no", j) BY <2>4 DEF Branch
    <3>2. QED BY <3>1, <1>1
  <2>5. CASE SendStep(w)
    BY <2>5, <1>2, <1>3 DEF SendStep, DeferSend, FindSend, InsertSend, EnqueueSend, TypeOK
  <2>6. CASE FireEvent(w) \/ CallWebhook(w)
    BY <2>6, <1>3 DEF FireEvent, CallWebhook
  <2>7. CASE HookFailed(w)
    BY <2>7 DEF HookFailed, ParkedForRetry, TypeOK
  <2>8. QED BY <1>5, <2>1, <2>2, <2>3, <2>4, <2>5, <2>6, <2>7 DEF Step, Webhook
<1>6. ASSUME NEW w \in Worker, Fault(w) PROVE Same
  BY <1>6 DEF Fault, AdvanceThrows, Crash
<1>7. CASE (\E j \in jobs : LoseJob(j)) \/ Elapse \/ Change \/ Abort
  BY <1>7 DEF LoseJob, Elapse, Change, Abort, TypeOK
<1>8. CASE UNCHANGED vars BY <1>8 DEF vars
<1>9. QED BY <1>4, <1>5, <1>6, <1>7, <1>8 DEF Next

\* A run that has ended stays as it ended, whoever is still at work on it.
THEOREM EndedRunsStay == Spec => EndedStays
<1>1. TypeOK /\ [Next]_vars => [run.status # "active" => run'.status = run.status]_vars
  BY EndedStep
<1>2. QED BY <1>1, TypeCorrect, PTL DEF Spec, EndedStays

\* A worker that read the run of an opted-out contact is held up at the gate,
\* because nobody opts in again.
BarredInv == \A w \in barred : pc[w] = "gate" /\ world # "fine"

LEMMA BarredStep ==
  ASSUME TypeOK, BarredInv, [Next]_vars
  PROVE  BarredInv'
<1>0. world # "fine" => world' # "fine"
  BY DEF Next, Start, TakeJob, Select, MayStart, Step, ReadRun, Gate, Advance, AddJob, Wait,
     Condition, Branch,
     SendStep, DeferSend, FindSend, InsertSend, EnqueueSend, Tag, FireEvent, Webhook, CallWebhook,
     HookFailed, Exit, Fault, AdvanceThrows, Crash, LoseJob, Elapse, Change, Abort, Pass, End, Move,
     outsideVars, vars
<1>1. ASSUME NEW w \in Worker, Return(w) PROVE BarredInv'
  BY <1>0, <1>1 DEF Return, Goto, BarredInv, TypeOK
<1>2. ASSUME NEW w \in Worker, NEW place, Goto(w, place), UNCHANGED barred, pc[w] # "gate"
      PROVE  BarredInv'
  BY <1>0, <1>2 DEF Goto, BarredInv, TypeOK
<1>3. ASSUME NEW w \in Worker, NEW place, NEW parked, NEW j, Move(w, place, parked, j),
             pc[w] # "gate"
      PROVE  BarredInv'
  BY <1>1, <1>2, <1>3 DEF Move, Post
<1>4. ASSUME NEW w \in Worker, NEW status, End(w, status) PROVE BarredInv'
  BY <1>1, <1>4 DEF End
<1>5. ASSUME NEW w \in Worker, NEW place, Pass(w, place), pc[w] # "gate" PROVE BarredInv'
  BY <1>2, <1>5 DEF Pass
<1>6. ASSUME NEW w \in Worker, Start(w) PROVE BarredInv'
  BY <1>2, <1>5, <1>6 DEF Start, TakeJob, Select, MayStart
<1>7. ASSUME NEW w \in Worker, Step(w) PROVE BarredInv'
  <2>1. CASE ReadRun(w)
    BY <1>0, <1>1, <2>1 DEF ReadRun, Goto, BarredInv, TypeOK
  <2>2. CASE Gate(w)
    <3>1. CASE world = "fine"
      BY <1>4, <2>2, <3>1 DEF Gate, Pass, BarredInv
    <3>2. CASE world # "fine"
      BY <1>4, <2>2, <3>2 DEF Gate
    <3>3. QED BY <3>1, <3>2
  <2>3. CASE Advance(w)
    <3>1. PICK place, j : Move(w, place, "no", j) BY <2>3 DEF Advance
    <3>2. pc[w] # "gate" BY <2>3 DEF Advance, Increment
    <3>3. QED BY <3>1, <3>2, <1>3
  <2>4. CASE Wait(w) \/ Condition(w) \/ Tag(w) \/ Exit(w) \/ AddJob(w)
    BY <2>4, <1>1, <1>3, <1>4, <1>5 DEF Wait, Condition, Tag, Exit, AddJob
  <2>5. CASE Branch(w)
    <3>1. PICK place, j : Move(w, place, "no", j) BY <2>5 DEF Branch
    <3>2. pc[w] # "gate" BY <2>5 DEF Branch
    <3>3. QED BY <3>1, <3>2, <1>3
  <2>6. CASE SendStep(w)
    BY <2>6, <1>1, <1>2, <1>4, <1>5 DEF SendStep, DeferSend, FindSend, InsertSend, EnqueueSend, Post
  <2>7. CASE FireEvent(w) \/ CallWebhook(w)
    BY <2>7, <1>2, <1>5 DEF FireEvent, CallWebhook
  <2>8. CASE HookFailed(w)
    BY <2>8, <1>1, <1>2 DEF HookFailed, Post
  <2>9. QED BY <1>7, <2>1, <2>2, <2>3, <2>4, <2>5, <2>6, <2>7, <2>8 DEF Step, Webhook
<1>8. ASSUME NEW w \in Worker, Fault(w) PROVE BarredInv'
  BY <1>1, <1>2, <1>8 DEF Fault, AdvanceThrows, Crash
<1>9. CASE (\E j \in jobs : LoseJob(j)) \/ Elapse \/ Change \/ Abort \/ UNCHANGED vars
  BY <1>0, <1>9 DEF LoseJob, Elapse, Change, Abort, workerVars, vars, BarredInv
<1>10. QED BY <1>6, <1>7, <1>8, <1>9 DEF Next

\* A call that reads the run after its contact has opted out makes nothing.
THEOREM OptedOutIsLeftAlone == Spec => []OptedOutUntouched
<1>1. Init => BarredInv BY DEF Init, BarredInv
<1>2. TypeOK /\ BarredInv /\ [Next]_vars => BarredInv' BY BarredStep
<1>3. BarredInv => OptedOutUntouched BY DEF BarredInv, OptedOutUntouched
<1>4. QED BY <1>1, <1>2, <1>3, TypeCorrect, PTL DEF Spec

-----------------------------------------------------------------------------
(* Flows without branches.                                                 *)

NoBranch == \A f \in DOMAIN Flows : \A p \in DOMAIN Flows[f].steps : Flows[f].steps[p] # "branch"

Makes(p) == Steps[p] \in {"send", "fire_event"}

\* Where a worker is tells what step it is at, and whether the row is there.
AtWork(w) ==
  /\ seen[w] # NoRun => seen[w].path = <<>>
  /\ pc[w] = "insert" => Steps[Here(w)] = "send"
  /\ pc[w] \in {"enqueue", "advance"} /\ Makes(Here(w)) => Here(w) \in made
  /\ pc[w] = "skip" => Steps[Here(w)] = "condition"
  /\ pc[w] \in {"giveUp", "hookFailed"} => Steps[Here(w)] = "webhook"

\* All on one arm, and no row is missing behind the run.
StraightInv ==
  /\ TypeOK /\ AtStep /\ NoRowSkipped
  /\ run.path = <<>> /\ \A p \in made : p.path = <<>>
  /\ \A w \in Worker : AtWork(w)

\* On one arm a step is known by its index.
LEMMA SameStep ==
  ASSUME StraightInv, NEW w \in Worker, pc[w] \in Busy
  PROVE  /\ run.index = seen[w].index => At = Here(w)
         /\ Exists(w) => Here(w) \in made
<1>1. seen[w] \in Copy /\ seen[w].path = <<>> /\ Here(w) \in Place
  BY TypeSplit, BusyWorker DEF StraightInv, AtWork, WorkerType, Busy
<1>2. run.index = seen[w].index => At = Here(w)
  BY <1>1 DEF At, Here, StraightInv
<1>3. ASSUME NEW p \in made, SameKey(p, Here(w)) PROVE p = Here(w)
  <2>1. p \in Place /\ p.path = <<>>
    BY <1>3, TypeSplit, StepsKnown DEF StraightInv, TypeOK
  <2>2. p.index = Here(w).index /\ Here(w).path = <<>> BY <1>1, <1>3 DEF SameKey, Here
  <2>3. QED BY <1>1, <2>1, <2>2 DEF Place
<1>4. QED BY <1>2, <1>3 DEF Exists

\* A worker that another one does not disturb.
LEMMA OthersWork ==
  ASSUME NEW w \in Worker, AtWork(w), pc'[w] = pc[w], seen'[w] = seen[w], UNCHANGED flow,
         made \subseteq made'
  PROVE  AtWork(w)'
BY DEF AtWork, Here, Steps, Makes

\* What a step has to do to keep all this: it makes no row that the arm does not
\* have, moves along the arm, and leaves a step with its row made.
LEMMA KeepsStraight ==
  ASSUME StraightInv, TypeOK', AtStep', UNCHANGED flow, NEW w \in Worker,
         \A v \in Worker \ {w} : pc'[v] = pc[v] /\ seen'[v] = seen[v],
         AtWork(w)', run'.path = <<>>,
         made \subseteq made', \A p \in made' \ made : p = Here(w) /\ pc[w] \in Busy,
         \A p \in passed' \ passed : p \in DOMAIN Steps /\ Makes(p) => p \in made
  PROVE  StraightInv'
<1>1. \A v \in Worker : AtWork(v)' BY OthersWork DEF StraightInv
<1>2. \A p \in made' : p.path = <<>>
  BY TypeSplit, BusyWorker DEF StraightInv, AtWork, Here, WorkerType, Busy
<1>3. NoRowSkipped' BY DEF StraightInv, NoRowSkipped, Makes, Steps
<1>4. QED BY <1>1, <1>2, <1>3 DEF StraightInv

LEMMA IdleWork ==
  ASSUME NEW w \in Worker, WorkerType, Return(w)
  PROVE  AtWork(w)'
BY DEF Return, Goto, AtWork, WorkerType

\* A compare-and-set along the arm.
LEMMA MoveStraight ==
  ASSUME StraightInv, TypeOK', AtStep', NEW w \in Worker, pc[w] \in Busy \ {"gate"},
         NEW place, NEW parked, NEW j, Move(w, place, parked, j), place.path = <<>>,
         Makes(Here(w)) => Here(w) \in made
  PROVE  /\ StraightInv'
         /\ At' # At => pc'[w] # pc[w] \/ pc[w] = "post"
         /\ At' # At => Here(w) = At
<1>1. /\ UNCHANGED <<flow, made>> /\ WorkerType
      /\ \A v \in Worker \ {w} : pc'[v] = pc[v] /\ seen'[v] = seen[v]
  BY TypeSplit DEF Move, outsideVars, Post, Return, Goto, StraightInv, WorkerType
<1>2. CASE Matches(w)
  <2>1. run' = Moved(place, parked) /\ passed' = passed \cup {At} /\ Post(w, j)
    BY <1>2 DEF Move
  <2>2. At = Here(w) BY <1>2, SameStep DEF Matches
  <2>3. pc'[w] = "post" /\ seen' = seen BY <1>1, <2>1 DEF Post, Goto, WorkerType
  <2>4. AtWork(w)' BY <2>3 DEF AtWork, StraightInv
  <2>5. run'.path = <<>> BY <2>1 DEF Moved, StraightInv, TypeOK
  <2>6. StraightInv' BY <1>1, <2>1, <2>2, <2>4, <2>5, KeepsStraight
  <2>7. QED BY <2>2, <2>3, <2>6
<1>3. CASE ~Matches(w)
  <2>1. UNCHANGED <<run, passed>> /\ Return(w) BY <1>3 DEF Move
  <2>2. AtWork(w)' BY <1>1, <2>1, IdleWork
  <2>3. StraightInv' BY <1>1, <2>1, <2>2, KeepsStraight DEF StraightInv
  <2>4. At' = At BY <2>1 DEF At
  <2>5. QED BY <2>3, <2>4
<1>4. QED BY <1>2, <1>3

\* What a step of the worker that moves the run has read.
Attributed(w) == At' # At => /\ pc[w] # "idle" /\ pc'[w] # pc[w]
                             /\ seen[w] # NoRun /\ Here(w) = At

LEMMA MovingStraight ==
  ASSUME NoBranch, StraightInv, TypeOK', AtStep', NEW w \in Worker,
         Advance(w) \/ Wait(w) \/ Branch(w)
  PROVE  StraightInv' /\ Attributed(w)
<1>0. pc[w] \in Busy \ {"gate", "post"} /\ seen[w] # NoRun /\ Here(w) \in DOMAIN Steps
  BY DEF Advance, Wait, Branch, Increment, Busy, StraightInv, TypeOK, AtStep
<1>1. CASE Advance(w)
  <2>1. PICK place, j : Move(w, place, "no", j) /\ place.path = <<>>
    BY <1>1 DEF Advance, StraightInv
  <2>2. Makes(Here(w)) => Here(w) \in made
    BY <1>1 DEF Advance, Increment, StraightInv, AtWork, Makes
  <2>3. QED BY <1>0, <2>1, <2>2, MoveStraight DEF Attributed, Busy
<1>2. CASE Wait(w)
  <2>1. PICK place, j : Move(w, place, "wait", j) /\ place.path = <<>>
    BY <1>2 DEF Wait, StraightInv
  <2>2. ~Makes(Here(w)) BY <1>2 DEF Wait, Type, Makes
  <2>3. QED BY <1>0, <2>1, <2>2, MoveStraight DEF Attributed, Busy
<1>3. CASE Branch(w)
  <2>1. flow \in DOMAIN Flows BY DEF StraightInv, TypeOK
  <2>2. Steps[Here(w)] # "branch" BY <1>0, <2>1 DEF NoBranch, Steps
  <2>3. QED BY <1>3, <2>2 DEF Branch, Type
<1>4. QED BY <1>1, <1>2, <1>3

\* The other steps leave the run where it is.
LEMMA StayingStraight ==
  ASSUME StraightInv, TypeOK', AtStep', NEW w \in Worker,
         \/ Start(w) \/ ReadRun(w) \/ Gate(w) \/ AddJob(w) \/ Condition(w) \/ SendStep(w)
         \/ Tag(w) \/ FireEvent(w) \/ Webhook(w) \/ Exit(w) \/ Fault(w)
  PROVE  StraightInv' /\ At' = At
<1> USE DEF outsideVars
<1>0. WorkerType /\ AtWork(w) BY TypeSplit DEF StraightInv
<1>1. run'.path = run.path /\ run'.index = run.index /\ UNCHANGED <<flow, passed>>
  BY DEF Start, TakeJob, Select, MayStart, ReadRun, Gate, AddJob, Condition, SendStep,
     DeferSend, FindSend,
     InsertSend, EnqueueSend, Tag, FireEvent, Webhook, CallWebhook, HookFailed, ParkedForRetry,
     Exit, Fault, AdvanceThrows, Crash, Pass, End, StraightInv, TypeOK
<1>2. \A v \in Worker \ {w} : pc'[v] = pc[v] /\ seen'[v] = seen[v]
  BY <1>0 DEF Start, TakeJob, Select, MayStart, ReadRun, Gate, AddJob, Condition, SendStep,
       DeferSend,
     FindSend, InsertSend, EnqueueSend, Tag, FireEvent, Webhook, CallWebhook, HookFailed, Exit,
     Fault, AdvanceThrows, Crash, Pass, End, Return, Post, Goto, WorkerType
<1>3. made \subseteq made' /\ \A p \in made' \ made : p = Here(w) /\ pc[w] \in Busy
  BY DEF Start, TakeJob, Select, MayStart, ReadRun, Gate, AddJob, Condition, SendStep,
       DeferSend,
     FindSend, InsertSend, EnqueueSend, Tag, FireEvent, Webhook, CallWebhook, HookFailed, Exit,
     Fault, AdvanceThrows, Crash, Pass, End, Busy
<1>4. AtWork(w)'
  <2>1. CASE Return(w) BY <1>0, <2>1, IdleWork
  <2>2. ASSUME NEW j, Post(w, j), pc[w] \in Busy PROVE AtWork(w)'
    BY <1>0, <2>2 DEF Post, Goto, AtWork, WorkerType
  <2>3. ASSUME NEW status, End(w, status) PROVE AtWork(w)'
    BY <2>1, <2>3 DEF End
  <2>4. ASSUME NEW place \in {"act", "read"}, Pass(w, place) PROVE AtWork(w)'
    BY <1>0, <2>4 DEF Pass, Goto, AtWork, WorkerType
  <2>5. CASE Start(w)
    BY <1>0, <2>4, <2>5 DEF Start, TakeJob, Select, MayStart, Goto, AtWork, WorkerType
  <2>6. CASE ReadRun(w)
    <3>1. CASE Processable
      <4>1. pc'[w] = "gate" /\ seen'[w] = [path |-> run.path, index |-> run.index,
                                           attempts |-> run.attempts]
        BY <1>0, <2>6, <3>1 DEF ReadRun, Goto, WorkerType
      <4>2. QED BY <4>1 DEF AtWork, StraightInv
    <3>2. QED BY <2>1, <2>6, <3>1 DEF ReadRun
  <2>7. CASE Gate(w) \/ AddJob(w) \/ Exit(w)
    BY <2>1, <2>3, <2>4, <2>7 DEF Gate, AddJob, Exit
  <2>8. ASSUME NEW place \in Busy, Goto(w, place), UNCHANGED <<seen, flow>>, made \subseteq made',
               place = "insert" => Type(w) = "send",
               place \in {"enqueue", "advance"} /\ Makes(Here(w)) => Here(w) \in made',
               place = "skip" => Type(w) = "condition",
               place \in {"giveUp", "hookFailed"} => Type(w) = "webhook"
        PROVE  AtWork(w)'
    BY <1>0, <2>8 DEF Goto, AtWork, WorkerType, Here, Steps, Makes, Type
  <2>9. CASE Condition(w)
    BY <1>1, <1>3, <2>3, <2>8, <2>9 DEF Condition, Pass, Busy, Makes, Type
  <2>10. CASE SendStep(w)
    <3>1. CASE DeferSend(w)
      BY <2>1, <2>2, <3>1 DEF DeferSend, Busy
    <3>2. CASE FindSend(w)
      BY <1>1, <1>3, <2>3, <2>8, <3>2, SameStep DEF FindSend, Pass, Busy, Makes, Type
    <3>3. CASE InsertSend(w)
      BY <1>1, <1>3, <2>1, <2>8, <3>3 DEF InsertSend, Busy
    <3>4. CASE EnqueueSend(w)
      BY <1>0, <1>1, <1>3, <2>8, <3>4 DEF EnqueueSend, Pass, Busy, AtWork
    <3>5. QED BY <2>10, <3>1, <3>2, <3>3, <3>4 DEF SendStep
  <2>11. CASE Tag(w)
    BY <1>1, <1>3, <2>8, <2>11 DEF Tag, Pass, Busy, Makes, Type
  <2>12. CASE FireEvent(w)
    BY <1>1, <1>3, <2>8, <2>12, SameStep DEF FireEvent, Busy
  <2>13. CASE CallWebhook(w)
    BY <1>1, <1>3, <2>8, <2>13 DEF CallWebhook, Pass, Busy, Makes, Type
  <2>14. CASE HookFailed(w)
    <3>1. pc[w] = "hookFailed" /\ Type(w) = "webhook"
      BY <1>0, <2>14 DEF HookFailed, AtWork, Type
    <3>2. QED BY <1>1, <1>3, <2>1, <2>2, <2>8, <2>14, <3>1 DEF HookFailed, Busy
  <2>15. CASE Fault(w)
    BY <1>1, <1>3, <2>1, <2>8, <2>15 DEF Fault, AdvanceThrows, Crash, Busy
  <2>16. QED BY <2>5, <2>6, <2>7, <2>9, <2>10, <2>11, <2>12, <2>13, <2>14, <2>15 DEF Webhook
<1>5. StraightInv'
  BY <1>1, <1>2, <1>3, <1>4, KeepsStraight DEF StraightInv
<1>6. QED BY <1>1, <1>5 DEF At

LEMMA StraightStep ==
  ASSUME NoBranch, StraightInv, [Next]_vars
  PROVE  StraightInv' /\ (At' # At => \E w \in Worker : Attributed(w))
<1>1. TypeOK' /\ AtStep' BY NextType DEF StraightInv
<1>2. ASSUME NEW w \in Worker, Start(w) \/ Step(w) \/ Fault(w)
      PROVE  StraightInv' /\ (At' # At => \E v \in Worker : Attributed(v))
  BY <1>1, <1>2, MovingStraight, StayingStraight DEF Step
<1>3. CASE (\E j \in jobs : LoseJob(j)) \/ Elapse \/ Change \/ Abort \/ UNCHANGED vars
  <2>1. /\ UNCHANGED <<pc, seen, made, flow, passed>>
        /\ run'.path = run.path /\ run'.index = run.index
    BY <1>3 DEF LoseJob, Elapse, Change, Abort, workerVars, outsideVars, vars, StraightInv, TypeOK
  <2>2. \A w \in Worker : AtWork(w)'
    BY <2>1, OthersWork DEF StraightInv
  <2>3. StraightInv'
    BY <1>1, <2>1, <2>2 DEF StraightInv, NoRowSkipped, Steps
  <2>4. QED BY <2>1, <2>3 DEF At
<1>4. QED BY <1>2, <1>3 DEF Next

LEMMA StraightInvariant == ASSUME NoBranch PROVE Spec => []StraightInv
<1>1. Init => StraightInv
  BY InitType DEF Init, StraightInv, AtWork, NoRowSkipped
<1>2. StraightInv /\ [Next]_vars => StraightInv' BY StraightStep
<1>3. QED BY <1>1, <1>2, PTL DEF Spec

\* In a flow without branches two workers racing on a run advance it once: it
\* leaves a step only in a call that read it at that step.
THEOREM StraightRunsAdvanceOnce == ASSUME NoBranch PROVE Spec => AdvancesOnce
<1>1. StraightInv /\ [Next]_vars =>
        [At' # At => \E w \in Worker : pc[w] # "idle" /\ pc'[w] # pc[w] /\ seen[w] # NoRun /\ Here(w) = At]_vars
  BY StraightStep DEF Attributed
<1>2. QED BY <1>1, StraightInvariant, PTL DEF Spec, AdvancesOnce

\* And it has the row of every send and event that it has left behind.
THEOREM StraightRunsSkipNoRow == ASSUME NoBranch PROVE Spec => []NoRowSkipped
<1>1. StraightInv => NoRowSkipped BY DEF StraightInv
<1>2. QED BY <1>1, StraightInvariant, PTL

-----------------------------------------------------------------------------
(* Waits, in flows without branches.                                       *)

\* Nobody has read the run further than it is, nor has anybody read the step that
\* it waits for.
Behind(w) == seen[w] # NoRun => /\ seen[w].index <= run.index
                                /\ run.parked = "wait" => seen[w].index < run.index
WaitInv == \A w \in Worker : Behind(w)

\* A run that waits stays where it is, and nothing is done for the step it is at.
Waits == run.parked = "wait" => /\ At' = At /\ (At \in made' => At \in made)
                                /\ At \in DOMAIN Steps => failures'[At] = failures[At]

LEMMA BehindCopy ==
  ASSUME TypeOK, NEW w \in Worker
  PROVE  seen[w] # NoRun => seen[w].index \in Nat /\ run.index \in Nat
BY DEF TypeOK

\* A compare-and-set finds a run that does not wait, and moves it forward.
LEMMA MoveWaits ==
  ASSUME StraightInv, WaitInv, NEW w \in Worker, pc[w] \in Busy, NEW place, NEW parked, NEW j,
         Move(w, place, parked, j), Matches(w) => place.index > run.index /\ place.index \in Nat
  PROVE  WaitInv' /\ Waits
<1>0. WorkerType /\ RunType /\ TypeOK
  BY TypeSplit DEF StraightInv
<1>1. UNCHANGED <<made, failures>>
  BY DEF Move
<1>2. seen[w] # NoRun
  BY <1>0 DEF WorkerType, Busy
<1>3. CASE Matches(w)
  <2>1. run.parked # "wait"
    BY <1>2, <1>3, <1>0, BehindCopy DEF Matches, WaitInv, Behind
  <2>2. run'.index = place.index /\ UNCHANGED seen
    BY <1>0, <1>3 DEF Move, Moved, Post, RunType
  <2>3. ASSUME NEW v \in Worker PROVE Behind(v)'
    BY <1>0, <1>3, <2>2, BehindCopy DEF WaitInv, Behind
  <2>4. QED
    BY <2>1, <2>3 DEF WaitInv, Waits
<1>4. CASE ~Matches(w)
  <2>1. run' = run /\ Return(w)
    BY <1>4 DEF Move
  <2>2. \A v \in Worker : seen'[v] = seen[v] \/ seen'[v] = NoRun
    BY <1>0, <2>1 DEF Return, WorkerType
  <2>3. QED
    BY <1>1, <2>1, <2>2 DEF WaitInv, Behind, Waits, At
<1>5. QED
  BY <1>3, <1>4

LEMMA MovingWaits ==
  ASSUME NoBranch, StraightInv, WaitInv, NEW w \in Worker, Advance(w) \/ Wait(w) \/ Branch(w)
  PROVE  WaitInv' /\ Waits
<1>0. /\ pc[w] \in Busy /\ Here(w) \in DOMAIN Steps /\ run.index \in Nat
  BY DEF Advance, Wait, Branch, Increment, Busy, StraightInv, TypeOK, AtStep
<1>1. CASE Advance(w)
  <2>1. Increment[pc[w]] \in {1, 2}
    BY <1>1 DEF Advance, Increment
  <2>2. PICK place, j : Move(w, place, "no", j) /\ place.index = run.index + Increment[pc[w]]
    BY <1>1 DEF Advance
  <2>3. QED
    BY <1>0, <2>1, <2>2, MoveWaits
<1>2. CASE Wait(w)
  <2>1. PICK place, j : Move(w, place, "wait", j) /\ place.index = run.index + 1
    BY <1>2 DEF Wait
  <2>2. QED
    BY <1>0, <2>1, MoveWaits
<1>3. CASE Branch(w)
  <2>1. flow \in DOMAIN Flows BY DEF StraightInv, TypeOK
  <2>2. Steps[Here(w)] # "branch" BY <1>0, <2>1 DEF NoBranch, Steps
  <2>3. QED BY <1>3, <2>2 DEF Branch, Type
<1>4. QED
  BY <1>1, <1>2, <1>3

\* The other steps read a run that is due, or leave its schedule, unless they
\* park it for something else; and they work for the step they have read.
LEMMA StayingWaits ==
  ASSUME StraightInv, WaitInv, NEW w \in Worker,
         \/ Start(w) \/ ReadRun(w) \/ Gate(w) \/ AddJob(w) \/ Condition(w) \/ SendStep(w)
         \/ Tag(w) \/ FireEvent(w) \/ Webhook(w) \/ Exit(w) \/ Fault(w)
  PROVE  WaitInv' /\ Waits
<1> USE DEF outsideVars
<1>0. WorkerType /\ RunType /\ TypeOK
  BY TypeSplit DEF StraightInv
<1>1. run'.path = run.path /\ run'.index = run.index /\ UNCHANGED flow
  BY <1>0 DEF Start, TakeJob, Select, MayStart, ReadRun, Gate, AddJob, Condition, SendStep,
     DeferSend, FindSend,
     InsertSend, EnqueueSend, Tag, FireEvent, Webhook, CallWebhook, HookFailed, ParkedForRetry,
     Exit, Fault, AdvanceThrows, Crash, Pass, End, RunType
<1>2. run'.parked = "wait" => run.parked = "wait"
  BY <1>0 DEF Start, TakeJob, Select, MayStart, ReadRun, Gate, AddJob, Condition, SendStep,
     DeferSend, FindSend,
     InsertSend, EnqueueSend, Tag, FireEvent, Webhook, CallWebhook, HookFailed, ParkedForRetry,
     Exit, Fault, AdvanceThrows, Crash, Pass, End, RunType
<1>3. ASSUME NEW v \in Worker, seen'[v] # seen[v], seen'[v] # NoRun
      PROVE  seen'[v].index = run.index /\ run.parked = "no" /\ run' = run
  <2>1. ReadRun(w) /\ Processable
    BY <1>0, <1>3 DEF Start, TakeJob, Select, MayStart, ReadRun, Gate, AddJob, Condition, SendStep,
       DeferSend,
       FindSend, InsertSend, EnqueueSend, Tag, FireEvent, Webhook, CallWebhook, HookFailed, Exit,
       Fault, AdvanceThrows, Crash, Pass, End, Return, Post, WorkerType
  <2>2. seen' = [seen EXCEPT ![w] = [path |-> run.path, index |-> run.index, attempts |-> run.attempts]]
        /\ run' = run
    BY <2>1 DEF ReadRun
  <2>3. QED
    BY <1>0, <1>3, <2>1, <2>2 DEF Processable, WorkerType
<1>4. ASSUME NEW v \in Worker PROVE Behind(v)'
  <2>1. CASE seen'[v] = seen[v]
    BY <1>1, <1>2, <2>1 DEF WaitInv, Behind
  <2>2. CASE seen'[v] # seen[v]
    BY <1>0, <1>3, <2>2 DEF Behind, RunType
  <2>3. QED
    BY <2>1, <2>2
<1>5. made' \subseteq made \cup (IF pc[w] \in Busy THEN {Here(w)} ELSE {})
  BY DEF Start, TakeJob, Select, MayStart, ReadRun, Gate, AddJob, Condition, SendStep,
       DeferSend,
     FindSend, InsertSend, EnqueueSend, Tag, FireEvent, Webhook, CallWebhook, HookFailed, Exit,
     Fault, AdvanceThrows, Crash, Pass, End, Busy
<1>6. \A p \in DOMAIN Steps : failures'[p] = failures[p] \/ (p = Here(w) /\ pc[w] \in Busy)
  <2>1. CASE HookFailed(w)
    BY <1>0, <2>1 DEF HookFailed, RunType, Busy
  <2>2. CASE ~HookFailed(w)
    BY <2>2 DEF Start, TakeJob, Select, MayStart, ReadRun, Gate, AddJob, Condition, SendStep,
       DeferSend,
       FindSend, InsertSend, EnqueueSend, Tag, FireEvent, Webhook, CallWebhook, Exit,
       Fault, AdvanceThrows, Crash, Pass, End
  <2>3. QED
    BY <2>1, <2>2
<1>7. ASSUME run.parked = "wait", pc[w] \in Busy PROVE Here(w) # At
  <2>1. seen[w] # NoRun
    BY <1>0, <1>7 DEF WorkerType, Busy
  <2>2. seen[w].index < run.index
    BY <1>7, <2>1 DEF WaitInv, Behind
  <2>3. QED
    BY <1>0, <2>1, <2>2, BehindCopy DEF Here, At
<1>8. Waits
  BY <1>1, <1>5, <1>6, <1>7 DEF Waits, At
<1>9. QED
  BY <1>4, <1>8 DEF WaitInv

LEMMA WaitStep ==
  ASSUME NoBranch, StraightInv, WaitInv, [Next]_vars
  PROVE  WaitInv' /\ Waits
<1>1. ASSUME NEW w \in Worker, Start(w) \/ Step(w) \/ Fault(w) PROVE WaitInv' /\ Waits
  BY <1>1, MovingWaits, StayingWaits DEF Step
<1>2. CASE (\E j \in jobs : LoseJob(j)) \/ Elapse \/ Change \/ Abort \/ UNCHANGED vars
  <2>1. /\ UNCHANGED <<seen, made, failures>> /\ run'.path = run.path /\ run'.index = run.index
        /\ run'.parked = "wait" => run.parked = "wait"
    BY <1>2 DEF LoseJob, Elapse, Change, Abort, workerVars, vars, StraightInv, TypeOK
  <2>2. QED
    BY <2>1 DEF WaitInv, Behind, Waits, At
<1>3. QED
  BY <1>1, <1>2 DEF Next

\* The step after a wait has no effect before the wait is over, in a flow without
\* branches: the sweep and the jobs read only a run that is due, and whoever read
\* it earlier is at an earlier step (processOneRunStep and advanceStep, step.ts).
THEOREM WaitsAreWaitedOut == ASSUME NoBranch PROVE Spec => WaitHonoured
<1>1. Init => WaitInv
  BY DEF Init, WaitInv, Behind
<1>2. StraightInv /\ WaitInv /\ [Next]_vars => WaitInv'
  BY WaitStep
<1>3. StraightInv /\ WaitInv /\ [Next]_vars
        => [run.parked = "wait" =>
              /\ At' = At /\ (At \in made' => At \in made)
              /\ At \in DOMAIN Steps => failures'[At] = failures[At]]_vars
  BY WaitStep DEF Waits
<1>4. QED
  BY <1>1, <1>2, <1>3, StraightInvariant, PTL DEF Spec, WaitHonoured
=============================================================================
