------------------------- MODULE SendDispatchProofs -------------------------
(***************************************************************************)
(* Proofs about SendDispatch, for every value of its constants.            *)
(***************************************************************************)
EXTENDS SendDispatch, TLAPS

USE DEF Rare

\* Where a worker can be while it works on a job.
Busy == Unlocked \cup Locked \cup Leaving

\* Adding a job or a promise of one keeps the counts natural numbers.
LEMMA PlusType ==
  ASSUME NEW f \in [Send -> [1..Retries -> Nat]], NEW s \in Send, NEW k \in 1..Retries
  PROVE  Plus(f, s, k) \in [Send -> [1..Retries -> Nat]]
<1>1. f[s] \in [1..Retries -> Nat]
  OBVIOUS
<1>2. f[s][k] + 1 \in Nat
  BY <1>1
<1>3. [f[s] EXCEPT ![k] = @ + 1] \in [1..Retries -> Nat]
  BY <1>1, <1>2
<1>4. QED
  BY <1>3 DEF Plus

\* So does taking one away that is there.
LEMMA MinusType ==
  ASSUME NEW f \in [Send -> [1..Retries -> Nat]], NEW s \in Send, NEW k \in 1..Retries,
         f[s][k] > 0
  PROVE  Minus(f, s, k) \in [Send -> [1..Retries -> Nat]]
<1>1. f[s] \in [1..Retries -> Nat]
  OBVIOUS
<1>2. f[s][k] - 1 \in Nat
  BY <1>1
<1>3. [f[s] EXCEPT ![k] = @ - 1] \in [1..Retries -> Nat]
  BY <1>1, <1>2
<1>4. QED
  BY <1>3 DEF Minus

\* Spending keeps the budget a budget, and spends what is there.
LEMMA SpendType ==
  ASSUME budget \in [Rare -> Nat],
         NEW what \in Rare, Spend(what)
  PROVE  budget' \in [Rare -> Nat]
BY DEF Spend

\* A worker that is not idle runs a job.
LEMMA BusyJob ==
  ASSUME TypeOK, NEW w \in Worker, pc[w] # "idle"
  PROVE  /\ job[w] \in Job
         /\ job[w].send \in Send /\ job[w].left \in 1..Retries
<1>1. job[w] \in Job BY DEF TypeOK
<1>2. QED BY <1>1 DEF Job

LEMMA InitType == Init => TypeOK
<1>1. SUFFICES ASSUME Init PROVE TypeOK
  OBVIOUS
<1>2. NoCounts \in [Send -> [1..Retries -> Nat]]
  BY DEF NoCounts
<1>3. budget \in [Rare -> Nat]
  BY <1>1, SendDispatchAssumption DEF Init
<1>4. QED
  BY <1>1, <1>2, <1>3 DEF Init, TypeOK, Status

\* The frames are unions of variable groups; every lemma below needs them.
USE DEF rowVars, queueVars, worldVars, bcastVars, historyVars, workerVars,
        outerVars, RowFrame, WorkerFrame, OutsideFrame, SetRow, Goto

\* A worker that moves on, with or without an answer for its row.
LEMMA PassType ==
  ASSUME TypeOK, NEW w \in Worker, pc[w] # "idle", NEW place \in Busy, Pass(w, place)
  PROVE  TypeOK'
BY DEF TypeOK, Pass, Busy, Unlocked, Locked, Leaving

LEMMA AnswerType ==
  ASSUME TypeOK, NEW w \in Worker, pc[w] # "idle", NEW st \in Status, Answer(w, st)
  PROVE  TypeOK'
BY BusyJob DEF TypeOK, Answer, Busy, Unlocked, Locked, Leaving

\* A worker that hands its row back to the queue, apart from the deferral.
LEMMA RequeueType ==
  ASSUME TypeOK, NEW w \in Worker, pc[w] # "idle", NEW st \in Status,
         NEW k \in 1..Retries, Requeue(w, st, k),
         due' \subseteq Send, budget' \in [Rare -> Nat]
  PROVE  TypeOK'
<1>1. unposted' \in [Send -> [1..Retries -> Nat]]
  BY BusyJob, PlusType DEF TypeOK, Requeue
<1>2. QED
  BY <1>1, BusyJob DEF TypeOK, Requeue, Busy, Unlocked, Locked, Leaving

\* A row written back to 'queued' ahead of its job.
LEMMA ReopenType ==
  ASSUME TypeOK, NEW s \in Send, Reopen(s),
         budget' \in [Rare -> Nat]
  PROVE  TypeOK'
<1>1. Retries \in 1..Retries
  BY SendDispatchAssumption
<1>2. unposted' \in [Send -> [1..Retries -> Nat]]
  BY <1>1, PlusType DEF TypeOK, Reopen
<1>3. QED
  BY <1>2 DEF TypeOK, Reopen, Status

\* Steps of a worker in dispatchSend.
LEMMA StepType ==
  ASSUME TypeOK, NEW w \in Worker, Step(w)
  PROVE  TypeOK'
<1> DEFINE s == job[w].send
<1>0. pc[w] # "idle" => s \in Send /\ job[w].left \in 1..Retries
  BY BusyJob
<1>1. CASE ReadCampaign(w)
  BY <1>1, PassType, AnswerType DEF ReadCampaign, Busy, Unlocked, Status, Settled
<1>2. CASE HoldRow(w)
  BY <1>2, AnswerType DEF HoldRow, Status, Settled
<1>3. CASE CheckSuppression(w)
  BY <1>3, PassType, AnswerType DEF CheckSuppression, Busy, Unlocked, Status, Settled
<1>4. CASE CheckBreaker(w)
  <2>1. CASE Pass(w, "guard")
    BY <1>4, <2>1, PassType DEF CheckBreaker, Busy, Unlocked
  <2>2. CASE SetRow(s, "held") /\ Goto(w, "pause") /\ WorkerFrame
    BY <1>4, <2>2, <1>0 DEF CheckBreaker, TypeOK, Status, Settled, Unlocked
  <2>3. CASE Requeue(w, "queued", BareRetries) /\ UNCHANGED <<due, budget>>
    BY <1>4, <2>3, RequeueType, SendDispatchAssumption DEF CheckBreaker, TypeOK, Status
  <2>4. QED
    BY <1>4, <2>1, <2>2, <2>3 DEF CheckBreaker
<1>5. CASE PauseOnTrip(w)
  BY <1>5 DEF PauseOnTrip, TypeOK, PauseCode, Unlocked, Leaving
<1>6. CASE HoldQueuedOnTrip(w)
  BY <1>6 DEF HoldQueuedOnTrip, MoveRows, TypeOK, Status, Settled, Leaving
<1>7. CASE Guard(w)
  BY <1>7, PassType, AnswerType DEF Guard, Busy, Unlocked, Locked, Status, Settled
<1>8. CASE AcquireLock(w)
  BY <1>8, <1>0, SendDispatchAssumption DEF AcquireLock, TypeOK, Locked
<1>9. CASE LockTimeout(w)
  BY <1>9, RequeueType, SendDispatchAssumption DEF LockTimeout, LockBusy, TypeOK, Status
<1>10. CASE Recheck(w)
  BY <1>10, PassType, AnswerType DEF Recheck, Busy, Locked, Status, Settled
<1>11. CASE PolicySend(w)
  BY <1>11, PassType DEF PolicySend, Busy, Locked
<1>12. CASE PolicyDefer(w)
  <2>1. due' \subseteq Send /\ budget' \in [Rare -> Nat]
    BY <1>12, <1>0, SpendType DEF PolicyDefer, TypeOK
  <2>2. QED
    BY <1>12, <2>1, RequeueType, SendDispatchAssumption DEF PolicyDefer, Status
<1>13. CASE PolicyDrop(w)
  BY <1>13, AnswerType DEF PolicyDrop, Status, Settled
<1>14. CASE Render(w)
  BY <1>14, <1>0 DEF Render, TypeOK, Status, Locked
<1>15. CASE ProviderAccepts(w)
  BY <1>15, <1>0 DEF ProviderAccepts, TypeOK, Locked
<1>16. CASE RecordSent(w)
  BY <1>16, <1>0 DEF RecordSent, TypeOK, Status, Settled, Locked
<1>17. CASE CountSent(w)
  BY <1>17, PassType DEF CountSent, Busy, Leaving
<1>18. CASE GiveUp(w)
  BY <1>18, AnswerType DEF GiveUp, Status, Settled
<1>19. CASE ThrowFailed(w)
  BY <1>19, <1>0 DEF ThrowFailed, TypeOK, Status, Settled, Leaving
<1>20. CASE RecordFails(w)
  <2>1. budget' \in [Rare -> Nat]
    BY <1>20, SpendType DEF RecordFails, TypeOK
  <2>2. QED
    BY <1>20, <1>0, <2>1 DEF RecordFails, TypeOK, Status, Settled, Leaving
<1>21. CASE ThrowStranded(w)
  <2>1. budget' \in [Rare -> Nat]
    BY <1>21, SpendType DEF ThrowStranded, TypeOK
  <2>2. QED
    BY <1>21, <2>1 DEF ThrowStranded, TypeOK, Leaving
<1>22. CASE Leave(w)
  <2>1. pc[w] # "idle"
    BY <1>22 DEF Leave, Leaving
  <2>2. lock' \in [Address -> Worker \cup {Free, Orphan}]
    BY <1>22 DEF Leave, Unlock, TypeOK
  <2>3. jobs' \in [Send -> [1..Retries -> Nat]]
    <3>1. CASE pc[w] = "rethrow" /\ job[w].left > 1
      <4>1. job[w].left - 1 \in 1..Retries
        BY <3>1, <2>1, <1>0, SendDispatchAssumption
      <4>2. jobs' = Plus(jobs, s, job[w].left - 1)
        BY <1>22, <3>1 DEF Leave
      <4>3. s \in Send /\ jobs \in [Send -> [1..Retries -> Nat]]
        BY <2>1, <1>0 DEF TypeOK
      <4>4. QED
        BY <4>1, <4>2, <4>3, PlusType
    <3>2. CASE ~(pc[w] = "rethrow" /\ job[w].left > 1)
      BY <1>22, <3>2 DEF Leave, TypeOK
    <3>3. QED
      BY <3>1, <3>2
  <2>4. QED
    BY <1>22, <2>2, <2>3 DEF Leave, TypeOK
<1>23. QED
  BY <1>1, <1>2, <1>3, <1>4, <1>5, <1>6, <1>7, <1>8, <1>9, <1>10, <1>11, <1>12,
     <1>13, <1>14, <1>15, <1>16, <1>17, <1>18, <1>19, <1>20, <1>21, <1>22 DEF Step

\* Everything else.
LEMMA NextType == TypeOK /\ [Next]_vars => TypeOK'
<1> SUFFICES ASSUME TypeOK, [Next]_vars PROVE TypeOK'
  OBVIOUS
<1> DEFINE Budget == [Rare -> Nat]
<1>b. \A what \in Rare : Spend(what) => budget' \in Budget
  BY SpendType DEF TypeOK
<1>o. \A live : Outlasts(live) => budget' \in Budget
  BY <1>b DEF Outlasts, TypeOK
<1>m. \A S, from : \A to \in Status : MoveRows(S, from, to) => row' \in [Send -> Status]
  BY DEF MoveRows, TypeOK
<1>n. \A w \in Worker : (pc[w] = "idle") <=> (job[w] = NoJob)
  BY DEF TypeOK
<1>1. CASE \E w \in Worker : Step(w)
  BY <1>1, StepType
<1>2. ASSUME NEW w \in Worker, Crash(w) PROVE TypeOK'
  <2>1. budget' \in Budget
    BY <1>2, <1>b DEF Crash
  <2>2. job[w].send \in Send /\ job[w].left \in 1..Retries
    BY <1>2, BusyJob DEF Crash
  <2>3. jobs' \in [Send -> [1..Retries -> Nat]]
    <3>1. jobs' = Plus(jobs, job[w].send, job[w].left) \/ jobs' = jobs
      BY <1>2 DEF Crash
    <3>2. jobs \in [Send -> [1..Retries -> Nat]]
      BY DEF TypeOK
    <3>3. QED
      BY <2>2, <3>1, <3>2, PlusType
  <2>4. lock' \in [Address -> Worker \cup {Free, Orphan}]
    BY <1>2 DEF Crash, TypeOK
  <2>5. unsure' \subseteq Send
    BY <1>2, <2>2 DEF Crash, TypeOK
  <2>6. QED
    BY <1>2, <2>1, <2>3, <2>4, <2>5 DEF Crash, TypeOK
<1>3. ASSUME NEW s \in Send, Insert(s) PROVE TypeOK'
  BY <1>3, ReopenType DEF Insert, TypeOK
<1>4. ASSUME NEW s \in Send, NEW k \in 1..Retries, Post(s, k) PROVE TypeOK'
  <2>1. unposted' \in [Send -> [1..Retries -> Nat]] /\ jobs' \in [Send -> [1..Retries -> Nat]]
    BY <1>4, PlusType, MinusType DEF Post, TypeOK
  <2>2. QED
    BY <1>4, <2>1 DEF Post, TypeOK
<1>5. ASSUME NEW s \in Send, NEW k \in 1..Retries, LosePost(s, k) PROVE TypeOK'
  <2>1. unposted' \in [Send -> [1..Retries -> Nat]] /\ budget' \in Budget
    BY <1>5, <1>b, MinusType DEF LosePost, TypeOK
  <2>2. QED
    BY <1>5, <2>1 DEF LosePost, TypeOK
<1>6. ASSUME NEW w \in Worker, NEW s \in Send, NEW k \in 1..Retries, Claim(w, s, k)
      PROVE  TypeOK'
  <2>1. jobs' \in [Send -> [1..Retries -> Nat]]
    BY <1>6, MinusType DEF Claim, TypeOK
  <2>2. [send |-> s, left |-> k] \in Job /\ [send |-> s, left |-> k] # NoJob
    BY SendDispatchAssumption DEF Job
  <2>3. QED
    BY <1>6, <2>1, <2>2 DEF Claim, TypeOK, Status, Unlocked
<1>7. ASSUME NEW w \in Worker, NEW s \in Send, NEW k \in 1..Retries, DropJob(w, s, k)
      PROVE  TypeOK'
  <2>1. jobs' \in [Send -> [1..Retries -> Nat]]
    BY <1>7, MinusType DEF DropJob, TypeOK
  <2>2. QED
    BY <1>7, <2>1 DEF DropJob, TypeOK
<1>8. ASSUME NEW s \in Send, SweepStranded(s) PROVE TypeOK'
  BY <1>8, <1>o, ReopenType DEF SweepStranded, Stranded
<1>9. ASSUME NEW s \in Send, ReleaseDue(s) PROVE TypeOK'
  BY <1>9, ReopenType DEF ReleaseDue, TypeOK
<1>10. ASSUME NEW s \in Send, BecomeDue(s) PROVE TypeOK'
  BY <1>10 DEF BecomeDue, TypeOK
<1>11. ASSUME NEW s \in Send, GapElapses(s) PROVE TypeOK'
  BY <1>11 DEF GapElapses, TypeOK
<1>12. ASSUME NEW a \in Address, ExpireLock(a) PROVE TypeOK'
  <2>1. budget' \in Budget
    BY <1>12, <1>o DEF ExpireLock
  <2>2. QED
    BY <1>12, <2>1 DEF ExpireLock, TypeOK
<1>13. ASSUME NEW a \in Address, Unsubscribe(a) PROVE TypeOK'
  BY <1>13, <1>b DEF Unsubscribe, TypeOK
<1>14. CASE Trip \/ ResetBreaker
  BY <1>14, <1>b DEF Trip, ResetBreaker, TypeOK
<1>15. ASSUME NEW s \in Send, EndRun(s) \/ AbortRun(s) PROVE TypeOK'
  BY <1>15, <1>b DEF EndRun, AbortRun, TypeOK
<1>16. ASSUME NEW s \in Send, AbortSweep(s) PROVE TypeOK'
  <2>1. row' \in [Send -> Status]
    BY <1>16, <1>m DEF AbortSweep, Status, Settled
  <2>2. QED
    BY <1>16, <2>1 DEF AbortSweep, TypeOK
<1>17. ASSUME NEW s \in Send, AbortEnded(s) PROVE TypeOK'
  BY <1>17, <1>b DEF AbortEnded, TypeOK, Status, Settled
<1>18. CASE ParkAtCap \/ CancelCampaign
  BY <1>18, <1>b DEF ParkAtCap, CancelCampaign, TypeOK, PauseCode
<1>19. ASSUME NEW code \in {"manual", "stop_rule"}, PauseCampaign(code) PROVE TypeOK'
  BY <1>19, <1>b DEF PauseCampaign, TypeOK, PauseCode
<1>20. CASE ResumeCampaign
  BY <1>20, <1>b DEF ResumeCampaign, TypeOK, PauseCode
<1>21. CASE HoldQueued \/ CancelPending
  <2>1. row' \in [Send -> Status]
    BY <1>21, <1>m DEF HoldQueued, CancelPending, Finish, Status, Settled
  <2>2. QED
    BY <1>21, <2>1 DEF HoldQueued, CancelPending, Finish, TypeOK
<1>22. CASE ReleaseHeld
  <2>1. row' \in [Send -> Status]
    BY <1>22, <1>m DEF ReleaseHeld, Finish, Status
  <2>2. \A s \in Send : [unposted[s] EXCEPT ![Retries] = @ + 1] \in [1..Retries -> Nat]
    BY SendDispatchAssumption DEF TypeOK
  <2>3. unposted' \in [Send -> [1..Retries -> Nat]]
    BY <1>22, <2>2 DEF ReleaseHeld, TypeOK
  <2>4. QED
    BY <1>22, <2>1, <2>3 DEF ReleaseHeld, Finish, TypeOK
<1>23. CASE UNCHANGED vars
  BY <1>23 DEF vars, TypeOK
<1>24. QED
  BY <1>1, <1>2, <1>3, <1>4, <1>5, <1>6, <1>7, <1>8, <1>9, <1>10, <1>11, <1>12, <1>13,
     <1>14, <1>15, <1>16, <1>17, <1>18, <1>19, <1>20, <1>21, <1>22, <1>23
  DEF Next, Queue, Take, Tick, Flows, Control, Operator

\* Every reachable state is well typed.
THEOREM TypeCorrect == Spec => []TypeOK
<1>1. QED
  BY InitType, NextType, PTL DEF Spec

-----------------------------------------------------------------------------
(* What must not be sent.                                                  *)

\* A worker whose row must not be sent has the check that stops it before it,
\* and the reason it is doomed for still stands; or it was stopped.
OnHold == campaign \in Holding \cup {"cancelled"}
DoomedAt(w) ==
  LET s == job[w].send IN
  \/ pc[w] \in Leaving \cup {"hold", "pause", "holdQueued"}
  \/ AddressOf[s] \in suppressed /\ pc[w] \in {"campaign", "suppression", "recheck"}
  \/ s \in Broadcast /\ OnHold /\ pc[w] = "campaign"
  \/ run[s] = "aborted" /\ pc[w] \in {"campaign", "suppression", "breaker", "guard"}
DoomedInv == \A w \in doomed : DoomedAt(w)

\* A worker that did not move is as doomed as it was.
LEMMA DoomedFrame ==
  ASSUME TypeOK, DoomedInv, NEW v \in doomed, pc'[v] = pc[v], job'[v] = job[v],
         suppressed \subseteq suppressed',
         \A s \in Send : run[s] = "aborted" => run'[s] = "aborted",
         OnHold => OnHold' \/ job[v].send \notin Broadcast \/ AddressOf[job[v].send] \in suppressed
  PROVE  DoomedAt(v)'
<1>1. DoomedAt(v) /\ v \in Worker
  BY DEF DoomedInv, TypeOK
<1>2. pc[v] # "idle"
  BY <1>1 DEF DoomedAt, Leaving
<1>3. job[v].send \in Send
  BY <1>1, <1>2, BusyJob
<1>4. QED
  BY <1>1, <1>3 DEF DoomedAt

LEMMA DoomedStep ==
  ASSUME TypeOK, DoomedInv, NEW w \in Worker, Step(w)
  PROVE  DoomedInv'
<1> USE DEF Leaving, Pass, Answer, Requeue
<1>1. /\ \A v \in Worker \ {w} : pc'[v] = pc[v] /\ job'[v] = job[v]
      /\ UNCHANGED <<suppressed, run>>
  BY DEF Step, ReadCampaign, HoldRow, CheckSuppression, CheckBreaker, PauseOnTrip, HoldQueuedOnTrip,
         Guard, AcquireLock, LockTimeout, Recheck, PolicySend, PolicyDefer, PolicyDrop, Render,
         ProviderAccepts, RecordSent, CountSent, GiveUp, ThrowFailed, RecordFails, ThrowStranded,
         Leave, TypeOK
<1>2. OnHold => OnHold'
  BY DEF Step, ReadCampaign, HoldRow, CheckSuppression, CheckBreaker, PauseOnTrip, HoldQueuedOnTrip,
         Guard, AcquireLock, LockTimeout, Recheck, PolicySend, PolicyDefer, PolicyDrop, Render,
         ProviderAccepts, RecordSent, CountSent, GiveUp, ThrowFailed, RecordFails, ThrowStranded,
         Leave, OnHold, Holding, PauseCode
<1>3. doomed' \subseteq doomed \cup {w} /\ doomed \subseteq Worker
  BY DEF Step, ReadCampaign, HoldRow, CheckSuppression, CheckBreaker, PauseOnTrip, HoldQueuedOnTrip,
         Guard, AcquireLock, LockTimeout, Recheck, PolicySend, PolicyDefer, PolicyDrop, Render,
         ProviderAccepts, RecordSent, CountSent, GiveUp, ThrowFailed, RecordFails, ThrowStranded,
         Leave, TypeOK
<1>4. \A v \in doomed' : v # w => DoomedAt(v)'
  BY <1>1, <1>2, <1>3, DoomedFrame
<1>5. w \in doomed' => DoomedAt(w)'
  <2> SUFFICES ASSUME w \in doomed' PROVE DoomedAt(w)'
    OBVIOUS
  <2>1. CASE AcquireLock(w)
    BY <2>1, <1>1 DEF AcquireLock, DoomedAt, DoomedInv, TypeOK
  <2>2. CASE Leave(w)
    BY <2>2 DEF Leave
  <2>3. ASSUME ~AcquireLock(w), ~Leave(w) PROVE w \in doomed /\ UNCHANGED job
    BY <2>3 DEF Step, ReadCampaign, HoldRow, CheckSuppression, CheckBreaker, PauseOnTrip,
       HoldQueuedOnTrip, Guard, LockTimeout, Recheck, PolicySend, PolicyDefer, PolicyDrop, Render,
       ProviderAccepts, RecordSent, CountSent, GiveUp, ThrowFailed, RecordFails, ThrowStranded
  <2>4. ASSUME ~AcquireLock(w), ~Leave(w) PROVE DoomedAt(w) /\ UNCHANGED job
    BY <2>3, <2>4 DEF DoomedInv
  <2>5. CASE ReadCampaign(w)
    BY <2>4, <2>5, <1>1 DEF ReadCampaign, AcquireLock, Leave, DoomedAt, OnHold, TypeOK
  <2>6. CASE CheckSuppression(w)
    BY <2>4, <2>6, <1>1 DEF CheckSuppression, AcquireLock, Leave, DoomedAt, TypeOK
  <2>7. CASE CheckBreaker(w)
    BY <2>4, <2>7, <1>1 DEF CheckBreaker, AcquireLock, Leave, DoomedAt, TypeOK
  <2>8. CASE Guard(w) \/ Recheck(w)
    BY <2>4, <2>8, <1>1 DEF Guard, Recheck, AcquireLock, Leave, DoomedAt, TypeOK
  <2>9. CASE HoldRow(w) \/ PauseOnTrip(w) \/ HoldQueuedOnTrip(w) \/ LockTimeout(w)
             \/ PolicyDefer(w) \/ PolicyDrop(w) \/ GiveUp(w) \/ CountSent(w)
    BY <2>9 DEF HoldRow, PauseOnTrip, HoldQueuedOnTrip, LockTimeout, LockBusy, PolicyDefer, PolicyDrop,
       GiveUp, CountSent, DoomedAt, TypeOK
  <2>10. CASE ThrowFailed(w) \/ RecordFails(w) \/ ThrowStranded(w)
    BY <2>10 DEF ThrowFailed, RecordFails, ThrowStranded, DoomedAt, TypeOK
  <2>11. CASE PolicySend(w) \/ Render(w) \/ ProviderAccepts(w) \/ RecordSent(w)
    BY <2>4, <2>11 DEF PolicySend, Render, ProviderAccepts, RecordSent, AcquireLock, Leave, DoomedAt
  <2>12. QED
    BY <2>1, <2>2, <2>5, <2>6, <2>7, <2>8, <2>9, <2>10, <2>11 DEF Step
<1>6. QED
  BY <1>4, <1>5 DEF DoomedInv

LEMMA DoomedNext == TypeOK /\ DoomedInv /\ [Next]_vars => DoomedInv'
<1> SUFFICES ASSUME TypeOK, DoomedInv, [Next]_vars PROVE DoomedInv'
  OBVIOUS
<1>1. CASE \E w \in Worker : Step(w)
  BY <1>1, DoomedStep
\* The worker that leaves is not doomed, and nobody else moves.
<1>2. ASSUME NEW w \in Worker, Crash(w) PROVE DoomedInv'
  <2>1. /\ \A v \in doomed' : v \in doomed /\ pc'[v] = pc[v] /\ job'[v] = job[v]
        /\ UNCHANGED <<suppressed, run, campaign>>
    BY <1>2 DEF Crash, TypeOK
  <2>2. QED
    BY <2>1, DoomedFrame DEF DoomedInv, OnHold
<1>3. ASSUME NEW w \in Worker, NEW s \in Send, NEW k \in 1..Retries, Claim(w, s, k)
      PROVE  DoomedInv'
  <2>1. /\ pc'[w] = "campaign" /\ job'[w].send = s
        /\ \A v \in doomed' : v # w => v \in doomed /\ pc'[v] = pc[v] /\ job'[v] = job[v]
        /\ UNCHANGED <<suppressed, run, campaign>>
    BY <1>3 DEF Claim, TypeOK
  <2>2. w \notin doomed
    BY <1>3 DEF Claim, DoomedInv, DoomedAt, Leaving
  <2>3. w \in doomed' => DoomedAt(w)'
    BY <1>3, <2>1, <2>2 DEF Claim, Doomed, DoomedAt, OnHold
  <2>4. QED
    BY <2>1, <2>3, DoomedFrame DEF DoomedInv, OnHold
<1>4. CASE ResumeCampaign
  BY <1>4, DoomedFrame DEF ResumeCampaign, DoomedInv
<1>5. ASSUME UNCHANGED <<pc, job, doomed>>, suppressed \subseteq suppressed', OnHold => OnHold',
             \A s \in Send : run[s] = "aborted" => run'[s] = "aborted"
      PROVE  DoomedInv'
  BY <1>5, DoomedFrame DEF DoomedInv
<1>6. ASSUME NEW s \in Send, \/ Insert(s) \/ Tick(s) \/ \E k \in 1..Retries : Post(s, k) \/ LosePost(s, k)
                             \/ \E v \in Worker, k \in 1..Retries : DropJob(v, s, k)
      PROVE  DoomedInv'
  BY <1>5, <1>6 DEF Insert, Tick, SweepStranded, ReleaseDue, BecomeDue, GapElapses, Reopen, Post,
                    LosePost, DropJob, OnHold
<1>7. ASSUME NEW s \in Send, Flows(s) PROVE DoomedInv'
  BY <1>5, <1>7 DEF Flows, EndRun, AbortRun, AbortSweep, AbortEnded, OnHold, TypeOK
<1>8. ASSUME NEW a \in Address, ExpireLock(a) \/ Unsubscribe(a) PROVE DoomedInv'
  BY <1>5, <1>8 DEF ExpireLock, Unsubscribe, OnHold
<1>9. CASE Control
  BY <1>5, <1>9 DEF Control, HoldQueued, ReleaseHeld, CancelPending, Finish, OnHold
<1>10. CASE Trip \/ ResetBreaker \/ ParkAtCap \/ CancelCampaign
            \/ \E code \in {"manual", "stop_rule"} : PauseCampaign(code)
  BY <1>5, <1>10 DEF Trip, ResetBreaker, ParkAtCap, CancelCampaign, PauseCampaign, CanPause, OnHold,
                     Holding, PauseCode
<1>11. CASE UNCHANGED vars
  BY <1>5, <1>11 DEF vars, OnHold
<1>12. QED
  BY <1>1, <1>2, <1>3, <1>4, <1>6, <1>7, <1>8, <1>9, <1>10, <1>11 DEF Next, Queue, Take, Operator

\* A worker that claimed its row, or got the recipient lock, when the address
\* was suppressed, the broadcast on hold or cancelled, or the run aborted never
\* gets to the provider, whatever races, stalls and crashes there are.
THEOREM DoomedStopped == Spec => []DoomedNeverSent
<1>1. Init => DoomedInv
  BY DEF Init, DoomedInv
<1>2. DoomedInv => DoomedNeverSent
  BY DEF DoomedInv, DoomedAt, DoomedNeverSent, Leaving
<1>3. QED
  BY <1>1, <1>2, TypeCorrect, DoomedNext, PTL DEF Spec

-----------------------------------------------------------------------------
(* No queued row is forgotten.                                             *)

\* The bounds leave no room for a crash between a row and its job.
NoLosses == \A b \in Bounds : b["lost"] = 0
NoLoss   == budget["lost"] = 0

Promised(s) == \E k \in 1..Retries : jobs[s][k] + unposted[s][k] > 0

\* No job or promise of a job for s goes away.
Kept(s) == \A k \in 1..Retries : jobs'[s][k] >= jobs[s][k] /\ unposted'[s][k] >= unposted[s][k]

\* What Plus and Minus do, entry by entry.
LEMMA PlusAt ==
  ASSUME NEW f \in [Send -> [1..Retries -> Nat]], NEW s \in Send, NEW k \in 1..Retries
  PROVE  \A t \in Send, i \in 1..Retries :
           Plus(f, s, k)[t][i] = IF t = s /\ i = k THEN f[t][i] + 1 ELSE f[t][i]
<1>1. f[s] \in [1..Retries -> Nat]
  OBVIOUS
<1>2. \A i \in 1..Retries : [f[s] EXCEPT ![k] = @ + 1][i] = IF i = k THEN f[s][i] + 1 ELSE f[s][i]
  BY <1>1
<1>3. \A t \in Send : Plus(f, s, k)[t] = IF t = s THEN [f[s] EXCEPT ![k] = @ + 1] ELSE f[t]
  BY DEF Plus
<1>4. QED
  BY <1>2, <1>3

LEMMA MinusAt ==
  ASSUME NEW f \in [Send -> [1..Retries -> Nat]], NEW s \in Send, NEW k \in 1..Retries
  PROVE  \A t \in Send, i \in 1..Retries :
           Minus(f, s, k)[t][i] = IF t = s /\ i = k THEN f[t][i] - 1 ELSE f[t][i]
<1>1. f[s] \in [1..Retries -> Nat]
  OBVIOUS
<1>2. \A i \in 1..Retries : [f[s] EXCEPT ![k] = @ - 1][i] = IF i = k THEN f[s][i] - 1 ELSE f[s][i]
  BY <1>1
<1>3. \A t \in Send : Minus(f, s, k)[t] = IF t = s THEN [f[s] EXCEPT ![k] = @ - 1] ELSE f[t]
  BY DEF Minus
<1>4. QED
  BY <1>2, <1>3

\* Adding to either count keeps both; the row it is added for has its job.
LEMMA AddedKeeps ==
  ASSUME TypeOK, NEW s \in Send, NEW k \in 1..Retries,
         \/ unposted' = Plus(unposted, s, k) /\ jobs' = jobs
         \/ jobs' = Plus(jobs, s, k) /\ unposted' = unposted
  PROVE  Promised(s)' /\ \A t \in Send : Kept(t)
<1>1. jobs \in [Send -> [1..Retries -> Nat]] /\ unposted \in [Send -> [1..Retries -> Nat]]
  BY DEF TypeOK
<1>2. \A t \in Send, i \in 1..Retries : jobs[t][i] \in Nat /\ unposted[t][i] \in Nat
  BY <1>1
<1>3. \A t \in Send, i \in 1..Retries :
        Plus(jobs, s, k)[t][i] = IF t = s /\ i = k THEN jobs[t][i] + 1 ELSE jobs[t][i]
  <2>1. jobs \in [Send -> [1..Retries -> Nat]]
    BY <1>1
  <2>2. QED
    BY ONLY <2>1, PlusAt, s \in Send, k \in 1..Retries
<1>4. \A t \in Send, i \in 1..Retries :
        Plus(unposted, s, k)[t][i]
          = IF t = s /\ i = k THEN unposted[t][i] + 1 ELSE unposted[t][i]
  <2>1. unposted \in [Send -> [1..Retries -> Nat]]
    BY <1>1
  <2>2. QED
    BY ONLY <2>1, PlusAt, s \in Send, k \in 1..Retries
<1>5. \A t \in Send, i \in 1..Retries :
        /\ jobs'[t][i] >= jobs[t][i] /\ unposted'[t][i] >= unposted[t][i]
        /\ t = s /\ i = k => jobs'[t][i] + unposted'[t][i] > 0
  <2>1. CASE unposted' = Plus(unposted, s, k) /\ jobs' = jobs
    BY <1>2, <1>4, <2>1
  <2>2. CASE jobs' = Plus(jobs, s, k) /\ unposted' = unposted
    BY <1>2, <1>3, <2>2
  <2>3. QED
    BY <2>1, <2>2
<1>6. QED
  BY <1>5 DEF Promised, Kept

LEMMA SameKeeps ==
  ASSUME TypeOK, UNCHANGED <<jobs, unposted>>
  PROVE  \A t \in Send : Kept(t)
<1>1. \A t \in Send : jobs[t] \in [1..Retries -> Nat] /\ unposted[t] \in [1..Retries -> Nat]
  BY DEF TypeOK
<1>2. \A t \in Send, i \in 1..Retries : jobs[t][i] \in Nat /\ unposted[t][i] \in Nat
  BY <1>1
<1>3. QED
  BY <1>2 DEF Kept

LEMMA KeptPromise ==
  ASSUME TypeOK, NEW s \in Send, Promised(s), Kept(s), TypeOK'
  PROVE  Promised(s)'
<1>1. PICK k \in 1..Retries : jobs[s][k] + unposted[s][k] > 0
  BY DEF Promised
<1>2. /\ jobs[s] \in [1..Retries -> Nat] /\ unposted[s] \in [1..Retries -> Nat]
      /\ jobs'[s] \in [1..Retries -> Nat] /\ unposted'[s] \in [1..Retries -> Nat]
  BY DEF TypeOK
<1>3. /\ jobs[s][k] \in Nat /\ unposted[s][k] \in Nat
      /\ jobs'[s][k] \in Nat /\ unposted'[s][k] \in Nat
  BY <1>2
<1>4. jobs'[s][k] >= jobs[s][k] /\ unposted'[s][k] >= unposted[s][k]
  BY DEF Kept
<1>5. jobs'[s][k] + unposted'[s][k] > 0
  BY <1>1, <1>3, <1>4
<1>6. QED
  BY <1>5 DEF Promised

\* A step that takes no job away writes 'queued' only along with a job.
LEMMA QueuedKept ==
  ASSUME TypeOK, TypeOK', QueuedHasJob,
         \A t \in Send : Kept(t),
         \A t \in Send : row'[t] = "queued" => row[t] = "queued" \/ Promised(t)'
  PROVE  QueuedHasJob'
BY KeptPromise DEF QueuedHasJob, Promised

LEMMA QueuedStep ==
  ASSUME TypeOK, TypeOK', QueuedHasJob, NEW w \in Worker, Step(w)
  PROVE  QueuedHasJob'
<1> DEFINE s == job[w].send
<1>0. pc[w] # "idle" => s \in Send /\ job[w].left \in 1..Retries
  BY BusyJob
<1>r. row \in [Send -> Status]
  BY DEF TypeOK
<1>1. ASSUME NEW st, NEW k \in 1..Retries, Requeue(w, st, k), pc[w] # "idle" PROVE QueuedHasJob'
  <2> PICK u \in Send : u = job[w].send
    BY <1>1, <1>0
  <2>1. Promised(u)' /\ \A t \in Send : Kept(t)
    BY <1>1, AddedKeeps DEF Requeue
  <2>2. \A t \in Send : t # u => row'[t] = row[t]
    BY <1>1, <1>r DEF Requeue
  <2>3. QED
    BY <2>1, <2>2, QueuedKept
<1>2. ASSUME UNCHANGED <<jobs, unposted>>,
             \A t \in Send : row'[t] = "queued" => row[t] = "queued"
      PROVE  QueuedHasJob'
  BY <1>2, SameKeeps, QueuedKept
<1>3. ASSUME NEW st \in Status \ {"queued"}, row' = [row EXCEPT ![s] = st], UNCHANGED <<jobs, unposted>>
      PROVE  QueuedHasJob'
  BY <1>2, <1>3, <1>r
<1>4. CASE ReadCampaign(w) \/ HoldRow(w) \/ CheckSuppression(w) \/ Guard(w) \/ Recheck(w)
  BY <1>4, <1>2, <1>3 DEF ReadCampaign, HoldRow, CheckSuppression, Guard, Recheck, Pass, Answer,
     Status, Settled
<1>5. CASE CheckBreaker(w)
  BY <1>5, <1>1, <1>2, <1>3, SendDispatchAssumption DEF CheckBreaker, Pass, Status, Settled
<1>6. CASE HoldQueuedOnTrip(w)
  BY <1>6, <1>2 DEF HoldQueuedOnTrip, MoveRows
<1>7. CASE PauseOnTrip(w) \/ AcquireLock(w) \/ PolicySend(w) \/ ProviderAccepts(w)
           \/ CountSent(w) \/ ThrowStranded(w)
  BY <1>7, <1>2 DEF PauseOnTrip, AcquireLock, PolicySend, ProviderAccepts, CountSent, ThrowStranded, Pass
<1>8. CASE LockTimeout(w)
  BY <1>8, <1>1, SendDispatchAssumption DEF LockTimeout, LockBusy
<1>9. CASE PolicyDefer(w)
  BY <1>9, <1>1, SendDispatchAssumption DEF PolicyDefer
<1>10. CASE PolicyDrop(w) \/ Render(w) \/ RecordSent(w) \/ GiveUp(w)
            \/ ThrowFailed(w) \/ RecordFails(w)
  BY <1>10, <1>3 DEF PolicyDrop, Render, RecordSent, GiveUp, ThrowFailed, RecordFails, Answer,
     Status, Settled
<1>11. CASE Leave(w)
  <2>1. CASE pc[w] = "rethrow" /\ job[w].left > 1
    <3>1. s \in Send /\ job[w].left - 1 \in 1..Retries
      BY <2>1, <1>0, SendDispatchAssumption
    <3> PICK u \in Send, k \in 1..Retries : u = job[w].send /\ k = job[w].left - 1
      BY <3>1
    <3>2. jobs' = Plus(jobs, u, k) /\ UNCHANGED <<row, unposted>>
      BY <1>11, <2>1 DEF Leave
    <3>3. \A t \in Send : Kept(t)
      BY <3>2, AddedKeeps
    <3>4. QED
      BY <3>2, <3>3, QueuedKept
  <2>2. CASE ~(pc[w] = "rethrow" /\ job[w].left > 1)
    BY <1>11, <2>2, <1>2 DEF Leave
  <2>3. QED
    BY <2>1, <2>2
<1>12. QED
  BY <1>4, <1>5, <1>6, <1>7, <1>8, <1>9, <1>10, <1>11 DEF Step

\* A budget for lost jobs that is empty stays so.
LEMMA NoLossStep ==
  ASSUME TypeOK, NoLoss, [Next]_vars
  PROVE  NoLoss'
<1>1. \A what \in {"defer", "fault", "stall", "ops"} : Spend(what) => NoLoss'
  BY DEF Spend, NoLoss, TypeOK
<1>2. Spend("lost") => FALSE
  BY DEF Spend, NoLoss
<1>3. \A live : Outlasts(live) => NoLoss'
  BY <1>1 DEF Outlasts, NoLoss
<1>4. UNCHANGED budget => NoLoss'
  BY DEF NoLoss
<1>5. ASSUME NEW w \in Worker, Step(w) PROVE NoLoss'
  BY <1>5, <1>1, <1>4 DEF Step, ReadCampaign, HoldRow, CheckSuppression, CheckBreaker,
     PauseOnTrip, HoldQueuedOnTrip, Guard, AcquireLock, LockTimeout, Recheck, PolicySend,
     PolicyDefer, PolicyDrop, Render, ProviderAccepts, RecordSent, CountSent, GiveUp,
     ThrowFailed, RecordFails, ThrowStranded, Leave, Pass, Answer, Requeue
<1>6. ASSUME NEW w \in Worker, Crash(w) PROVE NoLoss'
  BY <1>6, <1>1 DEF Crash
<1>7. ASSUME NEW s \in Send, Queue(s) PROVE NoLoss'
  BY <1>7, <1>2, <1>4 DEF Queue, Take, Insert, Post, LosePost, Claim, DropJob
<1>8. ASSUME NEW s \in Send, Tick(s) PROVE NoLoss'
  BY <1>8, <1>3, <1>4 DEF Tick, SweepStranded, Stranded, ReleaseDue, BecomeDue, GapElapses
<1>9. ASSUME NEW s \in Send, Flows(s) PROVE NoLoss'
  BY <1>9, <1>1, <1>4 DEF Flows, EndRun, AbortRun, AbortSweep, AbortEnded
<1>10. ASSUME NEW a \in Address, ExpireLock(a) \/ Unsubscribe(a) PROVE NoLoss'
  BY <1>10, <1>1, <1>3 DEF ExpireLock, Unsubscribe
<1>11. CASE Control \/ Operator
  BY <1>11, <1>1, <1>4 DEF Control, HoldQueued, ReleaseHeld, CancelPending, Finish,
     Operator, Trip, ResetBreaker, ParkAtCap, ResumeCampaign, CancelCampaign, PauseCampaign
<1>12. CASE UNCHANGED vars
  BY <1>12, <1>4 DEF vars
<1>13. QED
  BY <1>5, <1>6, <1>7, <1>8, <1>9, <1>10, <1>11, <1>12 DEF Next

LEMMA QueuedNext == TypeOK /\ NoLoss /\ QueuedHasJob /\ [Next]_vars => QueuedHasJob'
<1> SUFFICES ASSUME TypeOK, NoLoss, QueuedHasJob, [Next]_vars PROVE QueuedHasJob'
  OBVIOUS
<1>t. TypeOK'
  BY NextType
<1>r. row \in [Send -> Status]
  BY DEF TypeOK
<1>f. jobs \in [Send -> [1..Retries -> Nat]] /\ unposted \in [Send -> [1..Retries -> Nat]]
  BY DEF TypeOK
<1>1. CASE \E w \in Worker : Step(w)
  BY <1>1, <1>t, QueuedStep
<1>2. ASSUME UNCHANGED <<jobs, unposted>>,
             \A t \in Send : row'[t] = "queued" => row[t] = "queued"
      PROVE  QueuedHasJob'
  BY <1>2, <1>t, SameKeeps, QueuedKept
<1>3. ASSUME NEW w \in Worker, Crash(w) PROVE QueuedHasJob'
  <2>1. job[w].send \in Send /\ job[w].left \in 1..Retries
    BY <1>3, BusyJob DEF Crash
  <2> PICK s \in Send, k \in 1..Retries : s = job[w].send /\ k = job[w].left
    BY <2>1
  <2>2. UNCHANGED <<row, unposted>> /\ (jobs' = Plus(jobs, s, k) \/ jobs' = jobs)
    BY <1>3 DEF Crash
  <2>3. CASE jobs' = Plus(jobs, s, k)
    BY <2>2, <2>3, <1>t, AddedKeeps, QueuedKept
  <2>4. CASE jobs' = jobs
    BY <2>2, <2>4, <1>2
  <2>5. QED
    BY <2>2, <2>3, <2>4
\* A row written back to 'queued' is promised its job.
<1>4. ASSUME NEW s \in Send, Reopen(s) PROVE QueuedHasJob'
  <2>1. Retries \in 1..Retries
    BY SendDispatchAssumption
  <2>2. Promised(s)' /\ \A t \in Send : Kept(t)
    BY <1>4, <2>1, AddedKeeps DEF Reopen
  <2>3. \A t \in Send : t # s => row'[t] = row[t]
    BY <1>4, <1>r DEF Reopen
  <2>4. QED
    BY <2>2, <2>3, <1>t, QueuedKept
<1>5. ASSUME NEW s \in Send, Insert(s) \/ Tick(s) PROVE QueuedHasJob'
  BY <1>5, <1>4, <1>2 DEF Insert, Tick, SweepStranded, ReleaseDue, BecomeDue, GapElapses
\* The promise becomes a job.
<1>6. ASSUME NEW s \in Send, NEW k \in 1..Retries, Post(s, k) PROVE QueuedHasJob'
  <2>1. \A t \in Send, i \in 1..Retries :
          /\ jobs'[t][i] = IF t = s /\ i = k THEN jobs[t][i] + 1 ELSE jobs[t][i]
          /\ unposted'[t][i] = IF t = s /\ i = k THEN unposted[t][i] - 1 ELSE unposted[t][i]
    BY <1>6, <1>f, PlusAt, MinusAt DEF Post
  <2>2. \A t \in Send, i \in 1..Retries : jobs[t][i] \in Nat /\ unposted[t][i] \in Nat
    BY <1>f
  <2>3. \A t \in Send, i \in 1..Retries :
          jobs'[t][i] + unposted'[t][i] = jobs[t][i] + unposted[t][i]
    BY <2>1, <2>2
  <2>4. row' = row
    BY <1>6 DEF Post
  <2>5. QED
    BY <2>3, <2>4 DEF QueuedHasJob
<1>7. ASSUME NEW s \in Send, NEW k \in 1..Retries, LosePost(s, k) PROVE QueuedHasJob'
  BY <1>7 DEF LosePost, Spend, NoLoss
\* A job is taken from a row that leaves 'queued', or that was not.
<1>8. ASSUME NEW w \in Worker, NEW s \in Send, NEW k \in 1..Retries, Claim(w, s, k) \/ DropJob(w, s, k)
      PROVE  QueuedHasJob'
  <2>1. \A t \in Send, i \in 1..Retries : t # s => jobs'[t][i] = jobs[t][i]
    BY <1>8, <1>f, MinusAt DEF Claim, DropJob
  <2>2. unposted' = unposted /\ row'[s] # "queued" /\ \A t \in Send : t # s => row'[t] = row[t]
    BY <1>8, <1>r DEF Claim, DropJob, Claimable
  <2>3. QED
    BY <2>1, <2>2 DEF QueuedHasJob
<1>9. ASSUME NEW s \in Send, Flows(s) PROVE QueuedHasJob'
  BY <1>9, <1>2, <1>r DEF Flows, EndRun, AbortRun, AbortSweep, AbortEnded, MoveRows
<1>10. ASSUME NEW a \in Address, ExpireLock(a) \/ Unsubscribe(a) PROVE QueuedHasJob'
  BY <1>10, <1>2 DEF ExpireLock, Unsubscribe
<1>11. CASE HoldQueued \/ CancelPending \/ Operator
  BY <1>11, <1>2 DEF HoldQueued, CancelPending, Finish, MoveRows, Operator, Trip, ResetBreaker,
     ParkAtCap, ResumeCampaign, CancelCampaign, PauseCampaign
\* Each released row is promised its job.
<1>12. CASE ReleaseHeld
  <2>1. Retries \in 1..Retries
    BY SendDispatchAssumption
  <2>2. \A t \in Send : unposted[t] \in [1..Retries -> Nat] /\ jobs[t] \in [1..Retries -> Nat]
    BY <1>f
  <2>3. \A t \in Send : unposted'[t] = IF t \in Broadcast /\ row[t] = "held"
                                       THEN [unposted[t] EXCEPT ![Retries] = @ + 1] ELSE unposted[t]
    BY <1>12 DEF ReleaseHeld
  <2>4. \A t \in Send, i \in 1..Retries : unposted'[t][i] >= unposted[t][i] /\ jobs'[t][i] >= jobs[t][i]
    BY <1>12, <2>1, <2>2, <2>3 DEF ReleaseHeld
  <2>5. ASSUME NEW t \in Send, row'[t] = "queued", row[t] # "queued" PROVE Promised(t)'
    <3>1. t \in Broadcast /\ row[t] = "held"
      BY <1>12, <2>5 DEF ReleaseHeld, Finish, MoveRows
    <3>2. unposted'[t][Retries] = unposted[t][Retries] + 1 /\ jobs' = jobs
      BY <1>12, <3>1, <2>1, <2>2, <2>3 DEF ReleaseHeld
    <3>3. jobs'[t][Retries] + unposted'[t][Retries] > 0
      BY <3>2, <2>1, <2>2
    <3>4. QED
      BY <3>3, <2>1 DEF Promised
  <2>6. QED
    BY <2>4, <2>5, <1>t, QueuedKept DEF Kept
<1>13. CASE UNCHANGED vars
  BY <1>13, <1>2 DEF vars
<1>14. QED
  BY <1>1, <1>3, <1>5, <1>6, <1>7, <1>8, <1>9, <1>10, <1>11, <1>12, <1>13 DEF Next, Queue, Take, Control

\* A row in the state 'queued', which no sweep of the tick looks at, has a job in
\* the queue or one about to be added: every write of 'queued' (the inserts, the
\* handbacks of dispatchSend, the sweeps, the resume) is followed by an add, and
\* no job of a claimable row is dropped.  Only a crash between the two breaks it.
THEOREM QueuedIsServed == ASSUME NoLosses PROVE Spec => []QueuedHasJob
<1>1. Init => NoLoss /\ QueuedHasJob
  BY DEF Init, NoLoss, NoLosses, QueuedHasJob
<1>2. TypeOK /\ NoLoss /\ [Next]_vars => NoLoss'
  BY NoLossStep
<1>3. QED
  BY <1>1, <1>2, QueuedNext, TypeCorrect, PTL DEF Spec
-----------------------------------------------------------------------------
(***************************************************************************)
(* At most one mail per row.  That no live worker is taken for dead        *)
(* (NoStalls) is the one assumption: with it the claim is exclusive,       *)
(* and a row that the provider accepted is 'sent', or in the hands of the  *)
(* worker that is about to write so, or its receipt was lost.              *)
(***************************************************************************)
\* Places at which the worker owns its row.
ClaimPlaces == (Unlocked \cup Locked) \ {"pause", "holdQueued"}

\* The bounds leave no room for a stall, and none is left.
NoStalls == \A b \in Bounds : b["stall"] = 0
NoStall  == budget["stall"] = 0
ClaimRow == \A w \in Worker, s \in Send :
              Claimed(w, s) => row[s] = IF pc[w] = "count" THEN "sent" ELSE "sending"
AtRecord(s) == \E w \in Worker : pc[w] = "record" /\ job[w].send = s
HandedOver  == \A s \in Send \ unsure :
                 /\ accepted[s] <= 1
                 /\ accepted[s] > 0 => row[s] = "sent" \/ AtRecord(s)
Receipt     == \A w \in Worker : pc[w] \in {"record", "count"} => accepted[job[w].send] > 0

DeliveryInv == TypeOK /\ NoStall /\ ClaimRow /\ SingleClaim /\ HandedOver /\ Receipt

(***************************************************************************)
(* Every step, seen by this invariant, is one of eight.                    *)
(***************************************************************************)
Same == UNCHANGED <<accepted, unsure>>

\* A worker claims a row.
Starts(w, s) ==
  /\ pc[w] = "idle" /\ Claimable(s)
  /\ pc' = [pc EXCEPT ![w] = "campaign"]
  /\ \E j \in Job : j.send = s /\ job' = [job EXCEPT ![w] = j]
  /\ row' = [row EXCEPT ![s] = "sending"]
  /\ Same

\* The owner of a row goes on, or gives the row a state that is not 'sent'.
Works(w, place, st) ==
  /\ pc[w] \in ClaimPlaces \ {"record", "count"}
  /\ place \in Busy \ {"record", "count"}
  /\ place \in ClaimPlaces => st = "sending"
  /\ pc' = [pc EXCEPT ![w] = place]
  /\ row' = [row EXCEPT ![job[w].send] = st]
  /\ st # "sent"
  /\ UNCHANGED job /\ Same

Accepts(w) ==
  /\ pc[w] = "provider"
  /\ pc' = [pc EXCEPT ![w] = "record"]
  /\ accepted' = [accepted EXCEPT ![job[w].send] = @ + 1]
  /\ UNCHANGED <<job, row, unsure>>

Records(w) ==
  /\ pc[w] = "record"
  /\ pc' = [pc EXCEPT ![w] = "count"]
  /\ row' = [row EXCEPT ![job[w].send] = "sent"]
  /\ UNCHANGED job /\ Same

Counts(w) ==
  /\ pc[w] = "count"
  /\ pc' = [pc EXCEPT ![w] = "release"]
  /\ UNCHANGED <<job, row>> /\ Same

Fails(w) ==
  /\ pc[w] \in {"record", "count"}
  /\ pc' = [pc EXCEPT ![w] = "rethrow"]
  /\ row' = [row EXCEPT ![job[w].send] = "failed"]
  /\ unsure' = unsure \cup {job[w].send}
  /\ UNCHANGED <<job, accepted>>

\* A worker is done, or dies.
Quits(w) ==
  /\ pc[w] # "idle"
  /\ pc' = [pc EXCEPT ![w] = "idle"]
  /\ job' = [job EXCEPT ![w] = NoJob]
  /\ unsure' = IF pc[w] = "record" THEN unsure \cup {job[w].send} ELSE unsure
  /\ UNCHANGED <<row, accepted>>

\* Anybody else moves rows that nobody owns and that are not final.
Owned(s) == \E w \in Worker : Claimed(w, s)
Others ==
  /\ \A w \in Worker : pc'[w] = pc[w] \/ (pc[w] \notin ClaimPlaces \cup {"idle"}
                                          /\ pc'[w] \in Busy \ ClaimPlaces)
  /\ \A s \in Send : \/ row'[s] = row[s]
                     \/ /\ row[s] \notin {"sent", "suppressed", "cancelled"}
                        /\ ~Owned(s)
                        /\ row'[s] \notin {"sent", "sending"}
  /\ UNCHANGED job /\ Same

Effect ==
  \/ \E w \in Worker, s \in Send : Starts(w, s)
  \/ \E w \in Worker, place \in Busy, st \in Status : Works(w, place, st)
  \/ \E w \in Worker : Accepts(w) \/ Records(w) \/ Counts(w) \/ Fails(w) \/ Quits(w)
  \/ Others

\* The frames are unions of variable groups; every lemma below needs them.
USE DEF rowVars, queueVars, worldVars, bcastVars, historyVars, workerVars,
        outerVars, RowFrame, WorkerFrame, OutsideFrame, SetRow, Goto, Same

\* A row that is neither 'sending' nor 'sent' has no owner.
LEMMA Unowned ==
  ASSUME ClaimRow, NEW s \in Send, row[s] \notin {"sending", "sent"}
  PROVE  ~Owned(s)
BY DEF ClaimRow, Owned

\* A worker at one of the claim places owns the row of its job.
LEMMA Owner ==
  ASSUME TypeOK, ClaimRow, NEW w \in Worker, pc[w] \in ClaimPlaces
  PROVE  /\ job[w].send \in Send /\ Claimed(w, job[w].send)
         /\ row[job[w].send] = IF pc[w] = "count" THEN "sent" ELSE "sending"
<1>1. pc[w] # "idle"
  BY DEF ClaimPlaces, Unlocked, Locked
<1>2. job[w].send \in Send
  BY <1>1, BusyJob
<1>3. Claimed(w, job[w].send)
  BY DEF Claimed, ClaimPlaces
<1>4. QED
  BY <1>2, <1>3 DEF ClaimRow

\* A worker that only moves on works on.
LEMMA PassWorks ==
  ASSUME TypeOK, ClaimRow, NEW w \in Worker, pc[w] \in ClaimPlaces \ {"record", "count"},
         NEW place \in Busy \ {"record", "count"},
         pc' = [pc EXCEPT ![w] = place], UNCHANGED <<row, job>>, Same
  PROVE  Effect
<1>1. row[job[w].send] = "sending" /\ job[w].send \in Send
  BY Owner
<1>2. row' = [row EXCEPT ![job[w].send] = "sending"]
  BY <1>1 DEF TypeOK
<1>3. Works(w, place, "sending")
  BY <1>2 DEF Works
<1>4. QED
  BY <1>3 DEF Effect, Status

\* A worker that gives its row an answer works on.
LEMMA AnswerWorks ==
  ASSUME NEW w \in Worker, pc[w] \in ClaimPlaces \ {"record", "count"},
         NEW place \in Busy \ {"record", "count"}, NEW st \in Status \ {"sent"},
         place \in ClaimPlaces => st = "sending",
         pc' = [pc EXCEPT ![w] = place], row' = [row EXCEPT ![job[w].send] = st],
         UNCHANGED job, Same
  PROVE  Effect
<1>1. Works(w, place, st)
  BY DEF Works
<1>2. QED
  BY <1>1 DEF Effect

LEMMA StepEffect ==
  ASSUME TypeOK, NoStall, ClaimRow, NEW w \in Worker, Step(w)
  PROVE  Effect
<1> USE DEF ClaimPlaces, Busy, Unlocked, Locked, Leaving, Status, Settled
<1>1. CASE ReadCampaign(w)
  BY <1>1, PassWorks, AnswerWorks DEF ReadCampaign, Pass, Answer
<1>2. CASE HoldRow(w)
  BY <1>2, AnswerWorks DEF HoldRow, Answer
<1>3. CASE CheckSuppression(w)
  BY <1>3, PassWorks, AnswerWorks DEF CheckSuppression, Pass, Answer
<1>4. CASE CheckBreaker(w)
  BY <1>4, PassWorks, AnswerWorks DEF CheckBreaker, Pass, Requeue
<1>5. CASE PauseOnTrip(w)
  BY <1>5 DEF PauseOnTrip, Effect, Others, TypeOK
<1>6. CASE HoldQueuedOnTrip(w)
  <2>1. \A s \in Send : row'[s] = row[s] \/ (row[s] = "queued" /\ row'[s] = "held")
    BY <1>6 DEF HoldQueuedOnTrip, MoveRows
  <2>2. QED
    BY <1>6, <2>1, Unowned DEF HoldQueuedOnTrip, Effect, Others, TypeOK
<1>7. CASE Guard(w)
  BY <1>7, PassWorks, AnswerWorks DEF Guard, Pass, Answer
<1>8. CASE AcquireLock(w)
  BY <1>8, PassWorks DEF AcquireLock
<1>9. CASE LockTimeout(w)
  BY <1>9, AnswerWorks DEF LockTimeout, LockBusy, Requeue
<1>10. CASE Recheck(w)
  BY <1>10, PassWorks, AnswerWorks DEF Recheck, Pass, Answer
<1>11. CASE PolicySend(w)
  BY <1>11, PassWorks DEF PolicySend, Pass
<1>12. CASE PolicyDefer(w)
  BY <1>12, AnswerWorks DEF PolicyDefer, Requeue
<1>13. CASE PolicyDrop(w)
  BY <1>13, AnswerWorks DEF PolicyDrop, Answer
<1>14. CASE Render(w)
  BY <1>14, AnswerWorks DEF Render
<1>15. CASE ProviderAccepts(w)
  BY <1>15 DEF ProviderAccepts, Effect, Accepts
<1>16. CASE RecordSent(w)
  BY <1>16 DEF RecordSent, Effect, Records
<1>17. CASE CountSent(w)
  BY <1>17 DEF CountSent, Pass, Effect, Counts
<1>18. CASE GiveUp(w)
  BY <1>18, AnswerWorks DEF GiveUp, Answer
<1>19. CASE ThrowFailed(w)
  BY <1>19, AnswerWorks DEF ThrowFailed
<1>20. CASE RecordFails(w)
  BY <1>20 DEF RecordFails, Effect, Fails
<1>21. CASE ThrowStranded(w)
  <2>1. CASE pc[w] \in {"pause", "holdQueued"}
    BY <1>21, <2>1 DEF ThrowStranded, Effect, Others, TypeOK
  <2>2. CASE pc[w] \notin {"pause", "holdQueued"}
    BY <1>21, <2>2, PassWorks DEF ThrowStranded, TypeOK
  <2>3. QED
    BY <2>1, <2>2
<1>22. CASE Leave(w)
  BY <1>22 DEF Leave, Effect, Quits
<1>23. QED
  BY <1>1, <1>2, <1>3, <1>4, <1>5, <1>6, <1>7, <1>8, <1>9, <1>10, <1>11, <1>12,
     <1>13, <1>14, <1>15, <1>16, <1>17, <1>18, <1>19, <1>20, <1>21, <1>22 DEF Step

\* Rows that nobody owns, moved between states that are not final.
LEMMA OthersEffect ==
  ASSUME TypeOK, UNCHANGED <<pc, job>>, Same,
         \A s \in Send : \/ row'[s] = row[s]
                         \/ /\ row[s] \notin {"sent", "suppressed", "cancelled"}
                            /\ ~Owned(s)
                            /\ row'[s] \notin {"sent", "sending"}
  PROVE  Effect
BY DEF Effect, Others

LEMMA NextEffect ==
  ASSUME TypeOK, NoStall, ClaimRow, [Next]_vars
  PROVE  Effect
<1> USE DEF Status, Settled
<1>1. CASE \E w \in Worker : Step(w)
  BY <1>1, StepEffect
<1>2. ASSUME NEW w \in Worker, Crash(w) PROVE Effect
  BY <1>2 DEF Crash, Effect, Quits
<1>3. ASSUME NEW s \in Send, Insert(s) \/ ReleaseDue(s) PROVE Effect
  <2>1. \A t \in Send : row'[t] = row[t] \/ (t = s /\ row'[t] = "queued")
    BY <1>3 DEF Insert, ReleaseDue, Reopen, TypeOK
  <2>2. row[s] \in {"absent", "deferred"}
    BY <1>3 DEF Insert, ReleaseDue
  <2>3. QED
    BY <1>3, <2>1, <2>2, Unowned, OthersEffect DEF Insert, ReleaseDue, Reopen
<1>4. ASSUME NEW s \in Send, NEW k \in 1..Retries,
             Post(s, k) \/ LosePost(s, k)
      PROVE  Effect
  BY <1>4, OthersEffect DEF Post, LosePost
<1>5. ASSUME NEW w \in Worker, NEW s \in Send, NEW k \in 1..Retries, Claim(w, s, k)
      PROVE  Effect
  <2>1. [send |-> s, left |-> k] \in Job /\ [send |-> s, left |-> k].send = s
    BY DEF Job
  <2>2. Starts(w, s)
    BY <1>5, <2>1 DEF Claim, Starts
  <2>3. QED
    BY <2>2 DEF Effect
<1>6. ASSUME NEW w \in Worker, NEW s \in Send, NEW k \in 1..Retries, DropJob(w, s, k)
      PROVE  Effect
  BY <1>6, OthersEffect DEF DropJob
<1>7. ASSUME NEW s \in Send, SweepStranded(s) PROVE Effect
  <2>1. \A t \in Send : row'[t] = row[t] \/ (t = s /\ row'[t] = "queued")
    BY <1>7 DEF SweepStranded, Reopen, TypeOK
  <2>2. row[s] = "sending" /\ ~Owned(s)
    BY <1>7 DEF SweepStranded, Stranded, Outlasts, Spend, NoStall, Owned
  <2>3. QED
    BY <1>7, <2>1, <2>2, OthersEffect DEF SweepStranded, Reopen
<1>8. ASSUME NEW s \in Send, BecomeDue(s) \/ GapElapses(s) PROVE Effect
  BY <1>8, OthersEffect DEF BecomeDue, GapElapses
<1>9. ASSUME NEW a \in Address, ExpireLock(a) \/ Unsubscribe(a) PROVE Effect
  BY <1>9, OthersEffect DEF ExpireLock, Unsubscribe
<1>10. ASSUME NEW s \in Send, EndRun(s) \/ AbortRun(s) PROVE Effect
  BY <1>10, OthersEffect DEF EndRun, AbortRun
<1>11. ASSUME NEW s \in Send, AbortSweep(s) \/ AbortEnded(s) PROVE Effect
  <2>1. \A t \in Send : \/ row'[t] = row[t]
                        \/ row[t] \in {"queued", "failed", "deferred"} /\ row'[t] = "cancelled"
    BY <1>11 DEF AbortSweep, AbortEnded, MoveRows, TypeOK
  <2>2. QED
    BY <1>11, <2>1, Unowned, OthersEffect DEF AbortSweep, AbortEnded
<1>12. CASE Control
  <2>1. \A t \in Send : \/ row'[t] = row[t]
                        \/ /\ row[t] \in {"queued", "held", "deferred"}
                           /\ row'[t] \in {"queued", "held", "cancelled"}
    BY <1>12 DEF Control, HoldQueued, ReleaseHeld, CancelPending, Finish, MoveRows
  <2>2. QED
    BY <1>12, <2>1, Unowned, OthersEffect
    DEF Control, HoldQueued, ReleaseHeld, CancelPending, Finish
<1>13. CASE Operator
  BY <1>13, OthersEffect DEF Operator, Trip, ResetBreaker, ParkAtCap, ResumeCampaign,
     CancelCampaign, PauseCampaign
<1>14. CASE UNCHANGED vars
  BY <1>14, OthersEffect DEF vars
<1>15. QED
  BY <1>1, <1>2, <1>3, <1>4, <1>5, <1>6, <1>7, <1>8, <1>9, <1>10, <1>11, <1>12, <1>13,
     <1>14 DEF Next, Queue, Take, Tick, Flows

\* Nothing gives a stall back.
LEMMA NoStallStep ==
  ASSUME TypeOK, NoStall, [Next]_vars
  PROVE  NoStall'
<1>1. Spend("stall") => FALSE
  BY DEF Spend, NoStall
<1>2. \A what \in {"defer", "fault", "lost", "ops"} : Spend(what) => NoStall'
  BY DEF Spend, NoStall, TypeOK
<1>3. \A live : Outlasts(live) => NoStall'
  BY <1>1 DEF Outlasts, NoStall
<1>4. UNCHANGED budget => NoStall'
  BY DEF NoStall
<1>5. ASSUME NEW w \in Worker, Step(w) PROVE NoStall'
  BY <1>5, <1>2, <1>4 DEF Step, ReadCampaign, HoldRow, CheckSuppression, CheckBreaker,
     PauseOnTrip, HoldQueuedOnTrip, Guard, AcquireLock, LockTimeout, Recheck, PolicySend,
     PolicyDefer, PolicyDrop, Render, ProviderAccepts, RecordSent, CountSent, GiveUp,
     ThrowFailed, RecordFails, ThrowStranded, Leave, Pass, Answer, Requeue, WorkerFrame
<1>6. ASSUME NEW w \in Worker, Crash(w) PROVE NoStall'
  BY <1>6, <1>2 DEF Crash
<1>7. ASSUME NEW s \in Send, Queue(s) PROVE NoStall'
  BY <1>7, <1>2, <1>4 DEF Queue, Take, Insert, Post, LosePost, Claim, DropJob
<1>8. ASSUME NEW s \in Send, Tick(s) PROVE NoStall'
  BY <1>8, <1>3, <1>4 DEF Tick, SweepStranded, Stranded, ReleaseDue, BecomeDue, GapElapses
<1>9. ASSUME NEW s \in Send, Flows(s) PROVE NoStall'
  BY <1>9, <1>2, <1>4 DEF Flows, EndRun, AbortRun, AbortSweep, AbortEnded
<1>10. ASSUME NEW a \in Address, ExpireLock(a) \/ Unsubscribe(a) PROVE NoStall'
  BY <1>10, <1>2, <1>3 DEF ExpireLock, Unsubscribe
<1>11. CASE Control \/ Operator
  BY <1>11, <1>2, <1>4 DEF Control, HoldQueued, ReleaseHeld, CancelPending, Finish,
     Operator, Trip, ResetBreaker, ParkAtCap, ResumeCampaign, CancelCampaign, PauseCampaign
<1>12. CASE UNCHANGED vars
  BY <1>12, <1>4 DEF vars
<1>13. QED
  BY <1>5, <1>6, <1>7, <1>8, <1>9, <1>10, <1>11, <1>12 DEF Next

\* The claim stays exclusive, and its row 'sending' until it is 'sent'.
LEMMA ClaimStep ==
  ASSUME TypeOK, ClaimRow, SingleClaim, Effect, TypeOK'
  PROVE  ClaimRow' /\ SingleClaim'
<1> USE DEF ClaimPlaces, Busy, Unlocked, Locked, Leaving
<1>0. \A w \in Worker, s \in Send : Claimed(w, s) <=> pc[w] \in ClaimPlaces /\ job[w].send = s
  BY DEF Claimed
<1>0p. \A w \in Worker, s \in Send :
         Claimed(w, s)' <=> pc'[w] \in ClaimPlaces /\ job'[w].send = s
  BY DEF Claimed
<1> SUFFICES ASSUME NEW v \in Worker, NEW t \in Send, Claimed(v, t)'
             PROVE  /\ row'[t] = IF pc'[v] = "count" THEN "sent" ELSE "sending"
                    /\ \A u \in Worker : Claimed(u, t)' => u = v
  BY DEF ClaimRow, SingleClaim
<1>1. ASSUME NEW w \in Worker, NEW s \in Send, Starts(w, s)
      PROVE  /\ row'[t] = IF pc'[v] = "count" THEN "sent" ELSE "sending"
             /\ \A u \in Worker : Claimed(u, t)' => u = v
  <2>1. row[s] \notin {"sending", "sent"}
    BY <1>1 DEF Starts, Claimable
  <2>2. ~Owned(s)
    BY <2>1, Unowned
  <2>3. job'[w].send = s /\ \A u \in Worker : u # w => pc'[u] = pc[u] /\ job'[u] = job[u]
    BY <1>1 DEF Starts, TypeOK
  <2>4. \A u \in Worker : Claimed(u, t)' /\ u # w => Claimed(u, t) /\ t # s
    BY <2>2, <2>3, <1>0, <1>0p DEF Owned
  <2>5. CASE v = w
    <3>1. t = s
      BY <2>3, <2>5, <1>0p
    <3>2. QED
      BY <1>1, <2>4, <2>5, <3>1 DEF Starts, TypeOK
  <2>6. CASE v # w
    <3>1. Claimed(v, t) /\ t # s
      BY <2>4, <2>6
    <3>2. row'[t] = row[t] /\ pc'[v] = pc[v]
      BY <1>1, <3>1, <2>3, <2>6 DEF Starts, TypeOK
    <3>3. \A u \in Worker : Claimed(u, t)' => Claimed(u, t)
      BY <2>3, <2>4, <3>1, <1>0p
    <3>4. QED
      BY <3>1, <3>2, <3>3 DEF ClaimRow, SingleClaim
  <2>7. QED
    BY <2>5, <2>6
<1>2. ASSUME NEW w \in Worker, NEW place \in Busy, NEW st \in Status, Works(w, place, st)
      PROVE  /\ row'[t] = IF pc'[v] = "count" THEN "sent" ELSE "sending"
             /\ \A u \in Worker : Claimed(u, t)' => u = v
  <2>1. Claimed(w, job[w].send) /\ job[w].send \in Send
    BY <1>2, Owner DEF Works
  <2>2. \A u \in Worker : u # w => pc'[u] = pc[u]
    BY <1>2 DEF Works, TypeOK
  <2>3. \A u \in Worker : Claimed(u, t)' => Claimed(u, t)
    BY <1>2, <2>1, <2>2, <1>0, <1>0p DEF Works
  <2>4. \A u \in Worker : Claimed(u, t)' => u = v
    BY <2>3 DEF SingleClaim
  <2>5. CASE v = w
    <3>1. job[w].send = t /\ pc'[w] = place /\ place \in ClaimPlaces \ {"count"}
      BY <1>2, <2>5, <1>0p DEF Works, TypeOK
    <3>2. QED
      BY <1>2, <2>4, <2>5, <3>1 DEF Works, TypeOK
  <2>6. CASE v # w
    <3>1. t # job[w].send
      BY <2>1, <2>3, <2>6 DEF SingleClaim
    <3>2. row'[t] = row[t]
      BY <1>2, <3>1 DEF Works, TypeOK
    <3>3. QED
      BY <2>2, <2>3, <2>4, <2>6, <3>2 DEF ClaimRow
  <2>7. QED
    BY <2>5, <2>6
<1>3. ASSUME NEW w \in Worker, Accepts(w) \/ Records(w) \/ Counts(w) \/ Fails(w) \/ Quits(w)
      PROVE  /\ row'[t] = IF pc'[v] = "count" THEN "sent" ELSE "sending"
             /\ \A u \in Worker : Claimed(u, t)' => u = v
  <2>1. \A u \in Worker : u # w => pc'[u] = pc[u] /\ job'[u] = job[u]
    BY <1>3 DEF Accepts, Records, Counts, Fails, Quits, TypeOK
  <2>0. pc'[w] \in ClaimPlaces => pc[w] \in ClaimPlaces /\ job'[w] = job[w]
    BY <1>3 DEF Accepts, Records, Counts, Fails, Quits, TypeOK
  <2>2. \A u \in Worker : Claimed(u, t)' => Claimed(u, t)
    BY <2>0, <2>1, <1>0, <1>0p
  <2>3. \A u \in Worker : Claimed(u, t)' => u = v
    BY <2>2 DEF SingleClaim
  <2>4. CASE v = w
    <3>1. job[w].send = t /\ (Accepts(w) \/ Records(w))
      <4>1. pc'[w] \in ClaimPlaces /\ job[w].send = t
        BY <2>2, <2>4, <1>0, <1>0p
      <4>2. QED
        BY <1>3, <4>1 DEF Counts, Fails, Quits, TypeOK
    <3>2. row[t] = "sending"
      BY <3>1, <2>2, <2>4 DEF ClaimRow, Accepts, Records
    <3>3. QED
      BY <2>3, <2>4, <3>1, <3>2 DEF Accepts, Records, TypeOK
  <2>5. CASE v # w
    <3>1. row'[t] = row[t]
      <4>1. CASE pc[w] \in {"record", "count"}
        <5>1. Claimed(w, job[w].send) /\ job[w].send \in Send
          BY <4>1, Owner
        <5>2. t # job[w].send
          BY <5>1, <2>2, <2>5 DEF SingleClaim
        <5>3. QED
          BY <1>3, <5>2 DEF Accepts, Records, Counts, Fails, Quits, TypeOK
      <4>2. CASE pc[w] \notin {"record", "count"}
        BY <1>3, <4>2 DEF Accepts, Records, Counts, Fails, Quits
      <4>3. QED
        BY <4>1, <4>2
    <3>2. QED
      BY <2>1, <2>2, <2>3, <2>5, <3>1 DEF ClaimRow
  <2>6. QED
    BY <2>4, <2>5
<1>4. CASE Others
  <2>1. \A u \in Worker : Claimed(u, t)' => Claimed(u, t) /\ pc'[u] = pc[u]
    BY <1>4, <1>0, <1>0p DEF Others
  <2>2. row'[t] = row[t]
    BY <1>4, <2>1 DEF Others, Owned
  <2>3. QED
    BY <2>1, <2>2 DEF ClaimRow, SingleClaim
<1>5. QED
  BY <1>1, <1>2, <1>3, <1>4 DEF Effect

\* A row that nobody owns, or whose owner has not reached the provider's answer,
\* and that is not 'sent', was not accepted, unless the receipt was lost.
LEMMA NotHandedOver ==
  ASSUME ClaimRow, SingleClaim, HandedOver, NEW s \in Send \ unsure, row[s] # "sent",
         ~Owned(s) \/ \E w \in Worker : Claimed(w, s) /\ pc[w] # "record"
  PROVE  ~(accepted[s] > 0)
<1>1. \A w \in Worker : pc[w] = "record" /\ job[w].send = s => Claimed(w, s)
  BY DEF Claimed, Locked
<1>2. ~AtRecord(s)
  BY <1>1 DEF AtRecord, Owned, SingleClaim
<1>3. QED
  BY <1>2 DEF HandedOver

LEMMA HandedOverStep ==
  ASSUME TypeOK, ClaimRow, SingleClaim, HandedOver, Receipt, Effect, TypeOK'
  PROVE  HandedOver'
<1> USE DEF ClaimPlaces, Busy, Unlocked, Locked, Leaving
<1> SUFFICES ASSUME NEW t \in Send \ unsure'
             PROVE  /\ accepted'[t] <= 1
                    /\ accepted'[t] > 0 => row'[t] = "sent" \/ AtRecord(t)'
  BY DEF HandedOver
<1>t. t \in Send \ unsure /\ accepted[t] \in Nat
  BY DEF Effect, Starts, Works, Accepts, Records, Counts, Fails, Quits, Others, TypeOK
<1>1. ASSUME UNCHANGED accepted, row'[t] = row[t],
             \A w \in Worker : pc[w] = "record" /\ job[w].send = t
                               => pc'[w] = "record" /\ job'[w].send = t
      PROVE  /\ accepted'[t] <= 1
             /\ accepted'[t] > 0 => row'[t] = "sent" \/ AtRecord(t)'
  BY <1>t, <1>1 DEF HandedOver, AtRecord
<1>2. ASSUME UNCHANGED accepted, ~(accepted[t] > 0)
      PROVE  /\ accepted'[t] <= 1
             /\ accepted'[t] > 0 => row'[t] = "sent" \/ AtRecord(t)'
  BY <1>t, <1>2
<1>3. ASSUME NEW w \in Worker, NEW s \in Send, Starts(w, s)
      PROVE  /\ accepted'[t] <= 1
             /\ accepted'[t] > 0 => row'[t] = "sent" \/ AtRecord(t)'
  <2>1. CASE t = s
    <3>1. row[t] \notin {"sending", "sent"} /\ ~Owned(t)
      BY <1>3, <2>1, Unowned DEF Starts, Claimable
    <3>2. QED
      BY <1>2, <1>3, <1>t, <3>1, NotHandedOver DEF Starts
  <2>2. CASE t # s
    BY <1>1, <1>3, <2>2 DEF Starts, TypeOK
  <2>3. QED
    BY <2>1, <2>2
<1>4. ASSUME NEW w \in Worker, NEW place \in Busy, NEW st \in Status, Works(w, place, st)
      PROVE  /\ accepted'[t] <= 1
             /\ accepted'[t] > 0 => row'[t] = "sent" \/ AtRecord(t)'
  <2>1. CASE t = job[w].send
    <3>1. Claimed(w, t) /\ row[t] = "sending" /\ pc[w] # "record"
      BY <1>4, <2>1, Owner DEF Works
    <3>2. QED
      BY <1>2, <1>4, <1>t, <3>1, NotHandedOver DEF Works
  <2>2. CASE t # job[w].send
    BY <1>1, <1>4, <2>2 DEF Works, TypeOK
  <2>3. QED
    BY <2>1, <2>2
<1>5. ASSUME NEW w \in Worker, Accepts(w)
      PROVE  /\ accepted'[t] <= 1
             /\ accepted'[t] > 0 => row'[t] = "sent" \/ AtRecord(t)'
  <2>1. CASE t = job[w].send
    <3>1. Claimed(w, t) /\ row[t] = "sending" /\ pc[w] # "record"
      BY <1>5, <2>1, Owner DEF Accepts
    <3>2. ~(accepted[t] > 0)
      BY <1>t, <3>1, NotHandedOver
    <3>3. accepted'[t] <= 1
      BY <1>5, <1>t, <2>1, <3>2 DEF Accepts, TypeOK
    <3>4. AtRecord(t)'
      BY <1>5, <2>1 DEF Accepts, AtRecord, TypeOK
    <3>5. QED
      BY <3>3, <3>4
  <2>2. CASE t # job[w].send
    <3>1. accepted'[t] = accepted[t]
      BY <1>5, <2>2 DEF Accepts, TypeOK
    <3>2. AtRecord(t) => AtRecord(t)'
      BY <1>5 DEF Accepts, AtRecord, TypeOK
    <3>3. row'[t] = row[t]
      BY <1>5 DEF Accepts
    <3>4. QED
      BY <1>t, <3>1, <3>2, <3>3 DEF HandedOver
  <2>3. QED
    BY <2>1, <2>2
<1>6. ASSUME NEW w \in Worker, Records(w) \/ Counts(w) \/ Fails(w) \/ Quits(w)
      PROVE  /\ accepted'[t] <= 1
             /\ accepted'[t] > 0 => row'[t] = "sent" \/ AtRecord(t)'
  <2>1. UNCHANGED accepted
    BY <1>6 DEF Records, Counts, Fails, Quits
  <2>2. CASE t = job[w].send /\ pc[w] \in {"record", "count"}
    <3>1. row'[t] = "sent"
      <4>1. CASE pc[w] = "record"
        BY <1>6, <2>2, <4>1, <1>t DEF Records, Counts, Fails, Quits, TypeOK
      <4>2. CASE pc[w] = "count"
        <5>1. row[t] = "sent"
          BY <2>2, <4>2, Owner
        <5>2. QED
          BY <1>6, <2>2, <4>2, <5>1 DEF Records, Counts, Fails, Quits
      <4>3. QED
        BY <2>2, <4>1, <4>2
    <3>2. QED
      BY <2>1, <1>t, <3>1 DEF HandedOver
  <2>3. CASE ~(t = job[w].send /\ pc[w] \in {"record", "count"})
    <3>1. row'[t] = row[t]
      BY <1>6, <2>3 DEF Records, Counts, Fails, Quits, TypeOK
    <3>2. \A u \in Worker : pc[u] = "record" /\ job[u].send = t
                            => pc'[u] = "record" /\ job'[u].send = t
      BY <1>6, <2>3 DEF Records, Counts, Fails, Quits, TypeOK
    <3>3. QED
      BY <1>1, <2>1, <3>1, <3>2
  <2>4. QED
    BY <2>2, <2>3
<1>7. CASE Others
  <2>1. CASE row'[t] = row[t]
    BY <1>1, <1>7, <2>1 DEF Others
  <2>2. CASE row'[t] # row[t]
    BY <1>2, <1>7, <1>t, <2>2, NotHandedOver DEF Others
  <2>3. QED
    BY <2>1, <2>2
<1>8. QED
  BY <1>3, <1>4, <1>5, <1>6, <1>7 DEF Effect

LEMMA ReceiptStep ==
  ASSUME TypeOK, Receipt, Effect, TypeOK'
  PROVE  Receipt'
<1> USE DEF ClaimPlaces, Busy, Unlocked, Locked, Leaving
<1> SUFFICES ASSUME NEW v \in Worker, pc'[v] \in {"record", "count"}
             PROVE  accepted'[job'[v].send] > 0
  BY DEF Receipt
<1>1. ASSUME NEW w \in Worker, Accepts(w) PROVE accepted'[job'[v].send] > 0
  <2>1. job[w].send \in Send /\ accepted[job[w].send] \in Nat
    BY <1>1, BusyJob DEF Accepts, TypeOK
  <2>2. \A s \in Send : accepted'[s] \in Nat /\ accepted[s] \in Nat /\ accepted'[s] >= accepted[s]
    BY <1>1, <2>1 DEF Accepts, TypeOK
  <2>3. CASE v = w
    BY <1>1, <2>1, <2>3 DEF Accepts, TypeOK
  <2>4. CASE v # w
    <3>1. pc[v] \in {"record", "count"} /\ job'[v].send = job[v].send
      BY <1>1, <2>4 DEF Accepts, TypeOK
    <3>2. job[v].send \in Send /\ accepted[job[v].send] > 0
      BY <3>1, BusyJob DEF Receipt
    <3>3. QED
      BY <2>2, <3>1, <3>2
  <2>5. QED
    BY <2>3, <2>4
<1>2. ASSUME UNCHANGED accepted,
             pc[v] \in {"record", "count"}, job'[v] = job[v]
      PROVE  accepted'[job'[v].send] > 0
  BY <1>2 DEF Receipt
<1>3. ASSUME NEW w \in Worker, NEW s \in Send, Starts(w, s)
      PROVE  accepted'[job'[v].send] > 0
  BY <1>2, <1>3 DEF Starts, TypeOK
<1>4. ASSUME NEW w \in Worker, NEW place \in Busy, NEW st \in Status, Works(w, place, st)
      PROVE  accepted'[job'[v].send] > 0
  BY <1>2, <1>4 DEF Works, TypeOK
<1>5. ASSUME NEW w \in Worker, Records(w) \/ Counts(w) \/ Fails(w) \/ Quits(w)
      PROVE  accepted'[job'[v].send] > 0
  BY <1>2, <1>5 DEF Records, Counts, Fails, Quits, TypeOK
<1>6. CASE Others
  BY <1>2, <1>6 DEF Others
<1>7. QED
  BY <1>1, <1>3, <1>4, <1>5, <1>6 DEF Effect

\* The invariant holds initially if no stall is allowed, and is inductive.
LEMMA DeliveryInit ==
  ASSUME NoStalls
  PROVE  Init => DeliveryInv
<1>1. SUFFICES ASSUME Init PROVE DeliveryInv
  OBVIOUS
<1>2. TypeOK
  BY <1>1, InitType
<1>3. \A w \in Worker : pc[w] = "idle"
  BY <1>1 DEF Init
<1>4. NoStall /\ \A s \in Send : accepted[s] = 0
  BY <1>1 DEF Init, NoStall, NoStalls
<1>5. ClaimRow /\ SingleClaim /\ Receipt
  BY <1>3 DEF ClaimRow, SingleClaim, Receipt, Claimed, Unlocked, Locked
<1>6. HandedOver
  BY <1>4 DEF HandedOver
<1>7. QED
  BY <1>2, <1>4, <1>5, <1>6 DEF DeliveryInv

LEMMA DeliveryStep == DeliveryInv /\ [Next]_vars => DeliveryInv'
<1>1. SUFFICES ASSUME DeliveryInv, [Next]_vars PROVE DeliveryInv'
  OBVIOUS
<1>2. TypeOK'
  BY <1>1, NextType DEF DeliveryInv
<1>3. NoStall'
  BY <1>1, NoStallStep DEF DeliveryInv
<1>4. Effect
  BY <1>1, NextEffect DEF DeliveryInv
<1>5. QED
  BY <1>1, <1>2, <1>3, <1>4, ClaimStep, HandedOverStep, ReceiptStep DEF DeliveryInv

LEMMA DeliveryInvariant == ASSUME NoStalls PROVE Spec => []DeliveryInv
<1>1. Init => DeliveryInv
  BY DeliveryInit
<1>2. QED
  BY <1>1, DeliveryStep, PTL DEF Spec

\* The claim is exclusive: two workers are never between the claim of a row in
\* dispatchSend and its last write, as long as no live worker is taken for dead.
THEOREM ClaimIsExclusive == ASSUME NoStalls PROVE Spec => []SingleClaim
<1>1. DeliveryInv => SingleClaim
  BY DEF DeliveryInv
<1>2. QED
  BY <1>1, DeliveryInvariant, PTL

\* The provider accepts a row at most once, however many crashes, retries, sweeps,
\* operators and lock timeouts there are, unless the receipt of one was lost.
THEOREM DeliveredAtMostOnce == ASSUME NoStalls PROVE Spec => []AtMostOnce
<1>1. DeliveryInv => AtMostOnce
  BY DEF DeliveryInv, HandedOver, AtMostOnce, TypeOK
<1>2. QED
  BY <1>1, DeliveryInvariant, PTL

\* States that no step leaves, a failed bookkeeping apart.
Final == {"sent", "suppressed", "cancelled"}

LEMMA FinalStep ==
  ASSUME DeliveryInv, [Next]_vars, NEW s \in Send
  PROVE  /\ row[s] \in {"suppressed", "cancelled"} => row'[s] = row[s]
         /\ row[s] = "sent" => row'[s] = "sent" \/ s \in unsure'
<1>1. TypeOK /\ ClaimRow /\ Effect
  BY NextEffect DEF DeliveryInv
<1>2. \A w \in Worker : pc[w] \in ClaimPlaces =>
        row[job[w].send] = IF pc[w] = "count" THEN "sent" ELSE "sending"
  BY <1>1, Owner
<1>3. \A w \in Worker : Records(w) \/ Fails(w) => pc[w] \in ClaimPlaces
  BY DEF Records, Fails, ClaimPlaces, Locked, Unlocked
<1>4. ASSUME NEW w \in Worker, NEW t \in Send, Starts(w, t)
      PROVE  row[s] \in Final => row'[s] = row[s]
  BY <1>1, <1>4 DEF Starts, Claimable, Final, TypeOK
<1>5. ASSUME NEW w \in Worker, NEW place \in Busy, NEW st \in Status, Works(w, place, st)
      PROVE  row[s] \in Final => row'[s] = row[s]
  BY <1>1, <1>2, <1>5 DEF Works, Final, TypeOK
<1>6. ASSUME NEW w \in Worker, Accepts(w) \/ Counts(w) \/ Quits(w)
      PROVE  row'[s] = row[s]
  BY <1>6 DEF Accepts, Counts, Quits
<1>7. ASSUME NEW w \in Worker, Records(w)
      PROVE  row[s] \in Final => row'[s] = row[s]
  BY <1>1, <1>2, <1>3, <1>7 DEF Records, Final, TypeOK
<1>8. ASSUME NEW w \in Worker, Fails(w)
      PROVE  /\ row[s] \in {"suppressed", "cancelled"} => row'[s] = row[s]
             /\ row[s] = "sent" => row'[s] = "sent" \/ s \in unsure'
  BY <1>1, <1>2, <1>3, <1>8 DEF Fails, TypeOK
<1>9. CASE Others
  BY <1>9 DEF Others
<1>10. QED
  BY <1>1, <1>4, <1>5, <1>6, <1>7, <1>8, <1>9 DEF Effect, Final

\* Suppressed and cancelled rows stay so, and sent ones too, except for those whose
\* bookkeeping after the acceptance failed.
THEOREM FinalStatesStay == ASSUME NoStalls PROVE Spec => FinalStays
<1>1. DeliveryInv /\ [Next]_vars =>
        [\A s \in Send :
           /\ row[s] \in {"suppressed", "cancelled"} => row'[s] = row[s]
           /\ row[s] = "sent" => row'[s] = "sent" \/ s \in unsure']_vars
  BY FinalStep
<1>2. QED
  BY <1>1, DeliveryInvariant, PTL DEF Spec, FinalStays

-----------------------------------------------------------------------------
(* The pipeline implements SendOnce.                                       *)

phi == [s \in Send |-> Phase(s)]

LEMMA PhaseCases ==
  ASSUME NEW s \in Send
  PROVE  /\ phi[s] = IF row[s] = "sent" THEN "delivered"
                     ELSE IF row[s] \in {"suppressed", "cancelled"} THEN "withdrawn"
                     ELSE "pending"
         /\ phi'[s] = IF row'[s] = "sent" THEN "delivered"
                      ELSE IF row'[s] \in {"suppressed", "cancelled"} THEN "withdrawn"
                      ELSE "pending"
BY DEF phi, Phase

\* A step of the abstract specification, or one that it does not see.
AbstractStep == [Once!OnceNext]_(Once!onceVars)

LEMMA Stutter ==
  ASSUME Same, \A s \in Send : phi'[s] = phi[s]
  PROVE  AbstractStep
<1>1. phi' = phi
  BY DEF phi
<1>2. QED
  BY <1>1 DEF AbstractStep, Once!onceVars, phi

\* Withdrawing rows that were not handed over.
LEMMA Withdrawn ==
  ASSUME TypeOK, HandedOver, ClaimRow, SingleClaim, Same,
         \A s \in Send : phi'[s] = phi[s] \/
           /\ phi[s] = "pending" /\ phi'[s] = "withdrawn"
           /\ s \notin unsure => ~(accepted[s] > 0)
  PROVE  AbstractStep
<1> DEFINE S == {s \in Send : phi'[s] # phi[s]}
<1>1. phi' = [s \in Send |-> IF s \in S THEN "withdrawn" ELSE phi[s]]
  BY DEF phi
<1>2. \A s \in S : phi[s] = "pending" /\ (accepted[s] = 0 \/ s \in unsure)
  BY DEF TypeOK
<1>3. S \in SUBSET Send
  OBVIOUS
<1>4. Once!Withdraw(S)
  BY <1>1, <1>2 DEF Once!Withdraw, Once!MayHandOver, phi
<1>5. QED
  BY <1>3, <1>4 DEF AbstractStep, Once!OnceNext

LEMMA OnceStep ==
  ASSUME DeliveryInv, [Next]_vars
  PROVE  AbstractStep
<1> USE DEF ClaimPlaces, Busy, Unlocked, Locked, Leaving
<1>1. /\ TypeOK /\ ClaimRow /\ SingleClaim /\ HandedOver /\ Receipt
      /\ TypeOK' /\ Effect
  BY NextEffect, DeliveryStep DEF DeliveryInv
<1>r. row \in [Send -> Status]
  BY <1>1 DEF TypeOK
<1>2. ASSUME NEW w \in Worker, NEW s \in Send, Starts(w, s) PROVE AbstractStep
  <2>0. /\ row[s] \notin {"sent", "suppressed", "cancelled"}
        /\ \A t \in Send : row'[t] = IF t = s THEN "sending" ELSE row[t]
    BY <1>r, <1>2 DEF Starts, Claimable
  <2>1. \A t \in Send : phi'[t] = phi[t]
    BY <2>0, PhaseCases
  <2>2. QED
    BY <1>2, <2>1, Stutter DEF Starts
<1>3. ASSUME NEW w \in Worker, NEW place \in Busy, NEW st \in Status, Works(w, place, st)
      PROVE  AbstractStep
  <2> DEFINE s == job[w].send
  <2>1. s \in Send /\ Claimed(w, s) /\ row[s] = "sending" /\ pc[w] # "record"
    BY <1>1, <1>3, Owner DEF Works
  <2>0. st # "sent" /\ \A t \in Send : row'[t] = IF t = s THEN st ELSE row[t]
    BY <1>r, <1>3 DEF Works
  <2>2. phi[s] = "pending" /\ phi'[s] \in {"pending", "withdrawn"}
    BY <2>0, <2>1, PhaseCases
  <2>3. \A t \in Send \ {s} : phi'[t] = phi[t]
    BY <2>0, PhaseCases
  <2>4. s \notin unsure => ~(accepted[s] > 0)
    BY <1>1, <2>1, NotHandedOver
  <2>5. \A t \in Send : phi'[t] = phi[t] \/
           /\ phi[t] = "pending" /\ phi'[t] = "withdrawn"
           /\ t \notin unsure => ~(accepted[t] > 0)
    BY <2>1, <2>2, <2>3, <2>4
  <2>6. QED
    BY <1>1, <1>3, <2>5, Withdrawn DEF Works
<1>4. ASSUME NEW w \in Worker, Accepts(w) PROVE AbstractStep
  <2> DEFINE s == job[w].send
  <2>1. s \in Send /\ Claimed(w, s) /\ row[s] = "sending" /\ pc[w] # "record"
    BY <1>1, <1>4, Owner DEF Accepts
  <2>2. phi[s] = "pending"
    BY <2>1, PhaseCases
  <2>3. accepted[s] = 0 \/ s \in unsure
    <3>1. accepted[s] \in Nat
      BY <1>1, <2>1 DEF TypeOK
    <3>2. s \notin unsure => ~(accepted[s] > 0)
      BY <1>1, <2>1, NotHandedOver
    <3>3. QED
      BY <3>1, <3>2
  <2>4. phi' = phi
    BY <1>4 DEF Accepts, phi, Phase
  <2>5. Once!HandOver(s)
    BY <1>4, <2>2, <2>3, <2>4 DEF Accepts, Once!HandOver, Once!MayHandOver, phi
  <2>6. QED
    BY <2>1, <2>5 DEF AbstractStep, Once!OnceNext
<1>5. ASSUME NEW w \in Worker, Records(w) PROVE AbstractStep
  <2> DEFINE s == job[w].send
  <2>1. s \in Send /\ row[s] = "sending" /\ accepted[s] > 0
    BY <1>1, <1>5, Owner DEF Records, Receipt
  <2>0. \A t \in Send : row'[t] = IF t = s THEN "sent" ELSE row[t]
    BY <1>r, <1>5 DEF Records
  <2>2. phi[s] = "pending" /\ phi'[s] = "delivered"
    BY <2>0, <2>1, PhaseCases
  <2>3. \A t \in Send \ {s} : phi'[t] = phi[t]
    BY <2>0, PhaseCases
  <2>4. phi' = [phi EXCEPT ![s] = "delivered"]
    BY <2>1, <2>2, <2>3 DEF phi
  <2>5. Once!Confirm(s)
    BY <1>5, <2>1, <2>2, <2>4 DEF Records, Once!Confirm, phi
  <2>6. QED
    BY <2>1, <2>5 DEF AbstractStep, Once!OnceNext
<1>6. ASSUME NEW w \in Worker, Counts(w) PROVE AbstractStep
  BY <1>6, Stutter, PhaseCases DEF Counts
<1>7. ASSUME NEW w \in Worker, Fails(w) \/ (Quits(w) /\ pc[w] = "record")
      PROVE  AbstractStep
  <2> DEFINE s == job[w].send
  <2>1. s \in Send /\ row[s] \in {"sending", "sent"} /\ accepted[s] > 0
    BY <1>1, <1>7, Owner DEF Fails, Receipt
  <2>0. /\ \A t \in Send \ {s} : row'[t] = row[t]
        /\ row'[s] = "failed" \/ (pc[w] = "record" /\ row'[s] = row[s])
    BY <1>r, <1>7, <2>1 DEF Fails, Quits
  <2>r. pc[w] = "record" => row[s] = "sending"
    BY <1>1, Owner
  <2>2. row'[s] \in {"sending", "failed"}
    BY <2>0, <2>r
  <2>3. phi[s] # "withdrawn" /\ phi'[s] = "pending"
    BY <2>1, <2>2, PhaseCases
  <2>4. \A t \in Send \ {s} : phi'[t] = phi[t]
    BY <2>0, PhaseCases
  <2>5. phi' = [phi EXCEPT ![s] = "pending"]
    BY <2>1, <2>3, <2>4 DEF phi
  <2>6. Once!LoseReceipt(s)
    BY <1>7, <2>1, <2>3, <2>5 DEF Fails, Quits, Once!LoseReceipt, phi
  <2>7. QED
    BY <2>1, <2>6 DEF AbstractStep, Once!OnceNext
<1>8. ASSUME NEW w \in Worker, Quits(w), pc[w] # "record" PROVE AbstractStep
  BY <1>8, Stutter, PhaseCases DEF Quits
<1>9. CASE Others
  <2>1. \A s \in Send : row'[s] # row[s] /\ s \notin unsure => ~(accepted[s] > 0)
    BY <1>1, <1>9, NotHandedOver DEF Others
  <2>2. \A s \in Send : phi'[s] = phi[s] \/
           /\ phi[s] = "pending" /\ phi'[s] = "withdrawn"
           /\ s \notin unsure => ~(accepted[s] > 0)
    BY <1>9, <2>1, PhaseCases DEF Others
  <2>3. QED
    BY <1>1, <1>9, <2>2, Withdrawn DEF Others
<1>10. QED
  BY <1>1, <1>2, <1>3, <1>4, <1>5, <1>6, <1>7, <1>8, <1>9 DEF Effect

LEMMA OnceInitially == Init => Once!OnceInit
<1>1. ASSUME Init PROVE Once!OnceInit
  <2>1. phi = [s \in Send |-> "pending"]
    BY <1>1 DEF Init, phi, Phase
  <2>2. QED
    BY <1>1, <2>1 DEF Init, Once!OnceInit, phi
<1>2. QED
  BY <1>1

\* Every behaviour of the pipeline is, seen from outside, one of SendOnce: mail is
\* handed over once unless a receipt is lost, and withdrawn only before.
THEOREM PipelineImplementsSendOnce ==
  ASSUME NoStalls PROVE Spec => ImplementsSendOnce
<1>1. Init => Once!OnceInit
  BY OnceInitially
<1>2. DeliveryInv /\ [Next]_vars => [Once!OnceNext]_(Once!onceVars)
  BY OnceStep DEF AbstractStep
<1>3. QED
  BY <1>1, <1>2, DeliveryInvariant, PTL DEF Spec, ImplementsSendOnce, Once!OnceSpec

-----------------------------------------------------------------------------
(* The minimum gap.  What one worker reads under the recipient lock still  *)
(* holds when it hands the mail over, for nobody else with the policy's    *)
(* mail for this address gets past the lock; and what another sent before  *)
(* is in the history that was read, or its receipt was lost.               *)

\* Places behind the policy's decision, up to the write of sentAt.
Decided == {"render", "provider", "record"}

\* A worker at work under the policy owns the lock of its address.
LockHeld == \A w \in Worker, s \in Policed :
              pc[w] \in Locked /\ job[w].send = s => lock[AddressOf[s]] = w

\* Mail in the gap is in the history, or lost its receipt, or is about to be recorded.
Known == \A s \in Policed \cap inGap : s \in sentAt \cup unsure \/ AtRecord(s)

\* The other rows of the policy to the address of s that are in the gap.
Nearby(s) == {t \in (Policed \cap inGap) \ {s} : AddressOf[t] = AddressOf[s]}

\* What a decided worker has not seen left no sentAt to be seen by.
Clear == \A w \in Worker, s \in Policed :
           pc[w] \in Decided /\ job[w].send = s => Nearby(s) \subseteq unsure \ sentAt

GapInv == LockHeld /\ Known /\ Clear /\ GapRespected

\* A step that leaves the history alone, in which workers get under the lock only
\* by taking it or without the policy, pass no decision, and leave their place
\* before 'sent' is written only as a lost receipt.
Quiet ==
  /\ inGap' \subseteq inGap /\ sentAt' = sentAt /\ unsure \subseteq unsure'
  /\ \A v \in Worker : pc'[v] \in Locked =>
       \/ /\ pc[v] \in Locked /\ job'[v] = job[v]
          /\ pc'[v] \in Decided => pc[v] \in Decided
          /\ \A a \in Address : lock[a] = v => lock'[a] = v
       \/ job'[v].send \notin Policed
       \/ pc'[v] = "recheck" /\ lock'[AddressOf[job'[v].send]] = v
  /\ \A v \in Worker : pc[v] = "record" =>
       \/ pc'[v] = "record" /\ job'[v] = job[v]
       \/ job[v].send \in unsure'

LEMMA PolicedSends == /\ Policed \subseteq Send /\ Policed \subseteq Marketing
                      /\ \A s \in Policed : AddressOf[s] \in Address
BY SendDispatchAssumption

LEMMA QuietKeeps ==
  ASSUME GapInv, Quiet
  PROVE  GapInv'
<1> USE DEF GapInv
<1>1. LockHeld'
  BY PolicedSends DEF LockHeld, Quiet, Decided, Locked
<1>2. Known'
  BY DEF Known, AtRecord, Quiet
<1>3. Clear'
  BY DEF Clear, Nearby, Quiet, Decided, Locked
<1>4. GapRespected'
  BY DEF GapRespected, Quiet
<1>5. QED
  BY <1>1, <1>2, <1>3, <1>4

\* The decision: the history is empty, and nobody else is about to write it.
LEMMA PolicySendKeeps ==
  ASSUME TypeOK, GapInv, NEW w \in Worker, PolicySend(w)
  PROVE  GapInv'
<1> USE DEF GapInv
<1>1. /\ pc[w] = "policy" /\ pc' = [pc EXCEPT ![w] = "render"]
      /\ UNCHANGED <<job, lock, sentAt, unsure, inGap>>
      /\ \A v \in Worker : pc'[v] = IF v = w THEN "render" ELSE pc[v]
  BY DEF PolicySend, Pass, TypeOK
<1>2. LockHeld'
  BY <1>1 DEF LockHeld, Locked
<1>3. Known'
  BY <1>1 DEF Known, AtRecord
<1>4. ASSUME NEW s \in Policed, job[w].send = s PROVE Nearby(s) \subseteq unsure \ sentAt
  <2> SUFFICES ASSUME NEW t \in Nearby(s) PROVE t \in unsure \ sentAt
    OBVIOUS
  <2>1. t \in Policed \cap inGap /\ t # s /\ AddressOf[t] = AddressOf[s]
    BY DEF Nearby
  <2>2. t \notin sentAt
    BY <1>4, <2>1, PolicedSends DEF PolicySend, History
  <2>3. \A v \in Worker : ~(pc[v] = "record" /\ job[v].send = t)
    BY <1>1, <1>4, <2>1 DEF LockHeld, Locked
  <2>4. QED
    BY <2>1, <2>2, <2>3 DEF Known, AtRecord
<1>5. Clear'
  BY <1>1, <1>4 DEF Clear, Nearby, Decided
<1>6. GapRespected'
  BY <1>1 DEF GapRespected
<1>7. QED
  BY <1>2, <1>3, <1>5, <1>6

\* The provider accepts: the row joins the gap, where only lost receipts are near.
LEMMA AcceptKeeps ==
  ASSUME TypeOK, GapInv, NEW w \in Worker, ProviderAccepts(w)
  PROVE  GapInv'
<1> USE DEF GapInv
<1>1. /\ pc[w] = "provider" /\ inGap' = inGap \cup {job[w].send}
      /\ UNCHANGED <<job, lock, sentAt, unsure>>
      /\ \A v \in Worker : pc'[v] = IF v = w THEN "record" ELSE pc[v]
  BY DEF ProviderAccepts, TypeOK
<1>2. LockHeld'
  BY <1>1 DEF LockHeld, Locked
<1>3. Known'
  BY <1>1 DEF Known, AtRecord
<1>4. ASSUME NEW s \in Policed, job[w].send = s PROVE Nearby(s) \subseteq unsure \ sentAt
  BY <1>1, <1>4 DEF Clear, Decided
<1>5. ASSUME NEW v \in Worker, NEW s \in Policed, pc'[v] \in Decided, job[v].send = s
      PROVE  Nearby(s)' \subseteq unsure \ sentAt
  <2>1. CASE v = w
    BY <1>1, <1>4, <1>5, <2>1 DEF Nearby
  <2>2. CASE v # w
    <3>1. lock[AddressOf[s]] = v /\ Nearby(s) \subseteq unsure \ sentAt
      BY <1>1, <1>5, <2>2 DEF LockHeld, Clear, Decided, Locked
    <3>2. ~(job[w].send \in Policed /\ AddressOf[job[w].send] = AddressOf[s])
      BY <1>1, <2>2, <3>1 DEF LockHeld, Locked
    <3>3. QED
      BY <1>1, <3>1, <3>2 DEF Nearby
  <2>3. QED
    BY <2>1, <2>2
<1>6. Clear'
  BY <1>1, <1>5 DEF Clear
<1>7. GapRespected'
  <2> SUFFICES ASSUME NEW s \in Policed, NEW t \in Policed, s # t, AddressOf[s] = AddressOf[t],
                      {s, t} \subseteq inGap'
               PROVE  {s, t} \cap (unsure \ sentAt) # {}
    BY <1>1 DEF GapRespected
  <2>1. CASE {s, t} \subseteq inGap
    BY <2>1 DEF GapRespected
  <2>2. CASE s = job[w].send /\ t \in inGap
    BY <1>4, <2>2 DEF Nearby
  <2>3. CASE t = job[w].send /\ s \in inGap
    BY <1>4, <2>3 DEF Nearby
  <2>4. QED
    BY <1>1, <2>1, <2>2, <2>3
<1>8. QED
  BY <1>2, <1>3, <1>6, <1>7

\* 'sent' and sentAt are written: the row is in the history from now on.
LEMMA RecordKeeps ==
  ASSUME TypeOK, GapInv, NEW w \in Worker, RecordSent(w)
  PROVE  GapInv'
<1> USE DEF GapInv
<1>1. /\ pc[w] = "record" /\ sentAt' = sentAt \cup {job[w].send}
      /\ UNCHANGED <<job, lock, inGap, unsure>>
      /\ \A v \in Worker : pc'[v] = IF v = w THEN "count" ELSE pc[v]
  BY DEF RecordSent, TypeOK
<1>2. LockHeld'
  BY <1>1 DEF LockHeld, Locked
<1>3. Known'
  BY <1>1 DEF Known, AtRecord
<1>4. ASSUME NEW v \in Worker, NEW s \in Policed, pc'[v] \in Decided, job[v].send = s
      PROVE  Nearby(s) \subseteq unsure \ sentAt'
  <2>1. v # w /\ lock[AddressOf[s]] = v /\ Nearby(s) \subseteq unsure \ sentAt
    BY <1>1, <1>4 DEF LockHeld, Clear, Decided, Locked
  <2>2. ~(job[w].send \in Policed /\ AddressOf[job[w].send] = AddressOf[s])
    BY <1>1, <2>1 DEF LockHeld, Locked
  <2>3. QED
    BY <1>1, <2>1, <2>2 DEF Nearby
<1>5. Clear'
  BY <1>1, <1>4 DEF Clear, Nearby
<1>6. GapRespected'
  <2> SUFFICES ASSUME NEW s \in Policed, NEW t \in Policed, s # t, AddressOf[s] = AddressOf[t],
                      {s, t} \subseteq inGap
               PROVE  {s, t} \cap (unsure \ sentAt') # {}
    BY <1>1 DEF GapRespected
  <2>1. s = job[w].send => t \in unsure \ sentAt
    BY <1>1 DEF Clear, Decided, Nearby
  <2>2. t = job[w].send => s \in unsure \ sentAt
    BY <1>1 DEF Clear, Decided, Nearby
  <2>3. QED
    BY <1>1, <2>1, <2>2 DEF GapRespected
<1>7. QED
  BY <1>2, <1>3, <1>5, <1>6

\* Every other step of a worker is quiet.
LEMMA QuietStep ==
  ASSUME TypeOK, GapInv, NEW w \in Worker,
         Step(w), ~PolicySend(w), ~ProviderAccepts(w), ~RecordSent(w)
  PROVE  Quiet
<1> USE DEF Pass, Answer, Requeue, Leaving, Locked, Decided
<1>1. /\ sentAt' = sentAt /\ inGap' = inGap /\ unsure \subseteq unsure'
      /\ \A v \in Worker \ {w} : pc'[v] = pc[v] /\ job'[v] = job[v]
      /\ pc[w] = "record" => job[w].send \in unsure'
  BY DEF Step, ReadCampaign, HoldRow, CheckSuppression, CheckBreaker, PauseOnTrip, HoldQueuedOnTrip,
         Guard, AcquireLock, LockTimeout, LockBusy, Recheck, PolicyDefer, PolicyDrop, Render,
         CountSent, GiveUp, ThrowFailed, RecordFails, ThrowStranded, Leave, TypeOK, Unlocked
<1>2. \A v \in Worker \ {w}, a \in Address : lock[a] = v => lock'[a] = v
  <2>1. CASE AcquireLock(w)
    BY <2>1, SendDispatchAssumption DEF AcquireLock, TypeOK
  <2>2. CASE Leave(w)
    BY <2>2 DEF Leave, Unlock, TypeOK
  <2>3. ASSUME ~AcquireLock(w), ~Leave(w) PROVE lock' = lock
    BY <2>3 DEF Step, ReadCampaign, HoldRow, CheckSuppression, CheckBreaker, PauseOnTrip,
       HoldQueuedOnTrip, Guard, LockTimeout, Recheck, PolicyDefer, PolicyDrop, Render,
       CountSent, GiveUp, ThrowFailed, RecordFails, ThrowStranded
  <2>4. QED
    BY <2>1, <2>2, <2>3
<1>3. pc'[w] \in Locked =>
        \/ /\ pc[w] \in Locked /\ job' = job /\ lock' = lock
           /\ pc'[w] \in Decided => pc[w] \in Decided
        \/ job'[w].send \notin Policed
        \/ pc'[w] = "recheck" /\ lock'[AddressOf[job'[w].send]] = w
  <2>1. CASE AcquireLock(w)
    <3>1. job[w].send \in Send
      BY <2>1, BusyJob DEF AcquireLock
    <3>2. AddressOf[job[w].send] \in Address
      BY <3>1, SendDispatchAssumption
    <3>3. QED
      BY <2>1, <3>2 DEF AcquireLock, TypeOK
  <2>2. CASE Guard(w)
    BY <2>2 DEF Guard, TypeOK
  <2>3. CASE Recheck(w) \/ Render(w) \/ ThrowFailed(w) \/ RecordFails(w) \/ ThrowStranded(w)
    BY <2>3 DEF Recheck, Render, ThrowFailed, RecordFails, ThrowStranded, TypeOK
  <2>4. ASSUME ~AcquireLock(w), ~Guard(w), ~Recheck(w), ~Render(w), ~ThrowFailed(w),
               ~RecordFails(w), ~ThrowStranded(w)
        PROVE  pc'[w] \notin Locked
    BY <2>4 DEF Step, ReadCampaign, HoldRow, CheckSuppression, CheckBreaker, PauseOnTrip,
       HoldQueuedOnTrip, LockTimeout, PolicyDefer, PolicyDrop, CountSent, GiveUp, Leave, TypeOK
  <2>5. QED
    BY <2>1, <2>2, <2>3, <2>4
<1>4. QED
  BY <1>1, <1>2, <1>3 DEF Quiet

\* Steps that leave every worker where it is, and locks that have a live owner.
LEMMA StillQuiet ==
  ASSUME UNCHANGED <<pc, job, sentAt, unsure>>, inGap' \subseteq inGap,
         \A v \in Worker, a \in Address : lock[a] = v => lock'[a] = v
  PROVE  Quiet
BY DEF Quiet

LEMMA GapStep == TypeOK /\ NoStall /\ GapInv /\ [Next]_vars => GapInv'
<1> SUFFICES ASSUME TypeOK, NoStall, GapInv, [Next]_vars PROVE GapInv'
  OBVIOUS
<1>1. ASSUME NEW w \in Worker, Step(w) PROVE GapInv'
  BY <1>1, PolicySendKeeps, AcceptKeeps, RecordKeeps, QuietStep, QuietKeeps
<1>2. ASSUME NEW w \in Worker, Crash(w) PROVE Quiet
  <2>1. /\ sentAt' = sentAt /\ inGap' = inGap /\ unsure \subseteq unsure'
        /\ \A v \in Worker : v # w => pc'[v] = pc[v] /\ job'[v] = job[v]
        /\ pc[w] = "record" => job[w].send \in unsure'
        /\ pc'[w] = "idle"
    BY <1>2 DEF Crash, TypeOK
  <2>2. \A v \in Worker \ {w}, a \in Address : lock[a] = v => lock'[a] = v
    BY <1>2 DEF Crash, TypeOK
  <2>3. QED
    BY <2>1, <2>2 DEF Quiet, Locked
<1>3. ASSUME NEW w \in Worker, NEW s \in Send, NEW k \in 1..Retries, Claim(w, s, k) PROVE Quiet
  <2>1. /\ UNCHANGED <<sentAt, inGap, unsure, lock>>
        /\ \A v \in Worker : v # w => pc'[v] = pc[v] /\ job'[v] = job[v]
        /\ pc[w] = "idle" /\ pc'[w] = "campaign"
    BY <1>3 DEF Claim, TypeOK
  <2>2. QED
    BY <2>1 DEF Quiet, Locked
<1>4. ASSUME NEW s \in Send, \/ Insert(s) \/ Tick(s) \/ Flows(s)
                             \/ \E k \in 1..Retries : Post(s, k) \/ LosePost(s, k)
                             \/ \E w \in Worker, k \in 1..Retries : DropJob(w, s, k)
      PROVE  Quiet
  BY <1>4, StillQuiet DEF Insert, Tick, SweepStranded, ReleaseDue, BecomeDue, GapElapses, Reopen,
     Flows, EndRun, AbortRun, AbortSweep, AbortEnded, Post, LosePost, DropJob
\* A lock that has a live owner does not expire.
<1>5. ASSUME NEW a \in Address, ExpireLock(a) PROVE Quiet
  <2>1. lock[a] \notin Worker
    BY <1>5 DEF ExpireLock, Outlasts, Spend, NoStall
  <2>2. \A v \in Worker, b \in Address : lock[b] = v => lock'[b] = v
    BY <1>5, <2>1 DEF ExpireLock, TypeOK
  <2>3. QED
    BY <1>5, <2>2, StillQuiet DEF ExpireLock
<1>6. ASSUME NEW a \in Address, Unsubscribe(a) PROVE Quiet
  BY <1>6, StillQuiet DEF Unsubscribe
<1>7. ASSUME UNCHANGED <<pc, job, lock, sentAt, unsure, inGap>> PROVE Quiet
  BY <1>7, StillQuiet
<1>8. CASE Control \/ Operator \/ UNCHANGED vars
  <2>1. UNCHANGED <<pc, job, lock, sentAt, unsure, inGap>>
    BY <1>8 DEF Control, HoldQueued, ReleaseHeld, CancelPending, Finish, Operator, Trip,
       ResetBreaker, ParkAtCap, ResumeCampaign, CancelCampaign, PauseCampaign, vars
  <2>2. QED
    BY <1>7, <2>1, QuietKeeps
<1>9. QED
  BY <1>1, <1>2, <1>3, <1>4, <1>5, <1>6, <1>8, QuietKeeps DEF Next, Queue, Take

\* Two rows that contact policy applies to never reach one address within the
\* minimum gap, whatever workers race, crash or retry, unless the acceptance of
\* one left no sentAt behind, as long as no live lock owner is taken for dead.
THEOREM GapIsKept == ASSUME NoStalls PROVE Spec => []GapRespected
<1>1. Init => NoStall /\ GapInv
  BY DEF Init, NoStall, NoStalls, GapInv, LockHeld, Known, Clear, GapRespected, Locked, Decided
<1>2. TypeOK /\ NoStall /\ [Next]_vars => NoStall'
  BY NoStallStep
<1>3. GapInv => GapRespected
  BY DEF GapInv
<1>4. QED
  BY <1>1, <1>2, <1>3, GapStep, TypeCorrect, PTL DEF Spec
=============================================================================
