------------------------- MODULE BroadcastDispatch -------------------------
(***************************************************************************)
(* How a broadcast is turned into rows of mailer_sends.  A dispatch pass   *)
(* walks the recipients page by page in the broadcast's order, under a     *)
(* lease, and inserts a row and adds a job for each that has none, until   *)
(* the rows reach the cap.  Passes are started by the schedule, by resume  *)
(* and by the rescue of stalled broadcasts; they may overlap.              *)
(*                                                                         *)
(* Recipients are numbered in the broadcast's order; a suppressed one is   *)
(* not eligible any more.                                                  *)
(* What pausing does to rows already queued is SendDispatch's.             *)
(***************************************************************************)
EXTENDS Integers, FiniteSets

CONSTANTS
  Dispatcher,  \* concurrent executions of dispatchBroadcastById
  Last,        \* number of the last recipient
  PageSize,    \* config.broadcastEnqueueBatchSize
  FirstCap,    \* recipientCap at the start; Last or more is no cap
  Bounds,      \* how often what is rare may happen in a behaviour, see Rare
  Free, Orphan

\* fault: processes that die, database errors; stall: times a live dispatcher is
\* silent for ten minutes; pause: pauses by an operator and turns of the breaker;
\* ops: resumes, cancels, opt-outs, edits.
Rare == {"fault", "stall", "pause", "ops"}

ASSUME BroadcastDispatchAssumption ==
  /\ Last \in Nat \ {0} /\ PageSize \in Nat \ {0} /\ FirstCap \in Nat \ {0}
  /\ Bounds \subseteq [Rare -> Nat]
  /\ Free \notin Dispatcher /\ Orphan \notin Dispatcher /\ Free # Orphan

Recipient == 1 .. Last
Code      == {"none", "cap_reached", "manual", "circuit_breaker"}

VARIABLES
  status, code,  \* the broadcast and its pause reason
  cap,           \* recipientCap
  lease,         \* dispatchLeaseId: Free, its owner, or one that died
  silent,        \* updatedAt is older than the stall threshold
  tripped,       \* the circuit breaker of the broadcast's sender
  suppressed,    \* recipients that opted out
  starting,      \* starts whose status is written and whose job is not added
  jobs,          \* dispatch jobs waiting, each with a generation of its own
  resuming,      \* caps of resumes that are checked and not yet written
  rows,          \* recipients that have a send row
  added,         \* recipients whose send job was added
  pc, page,      \* each dispatcher's place in the pass
  capAt,         \* the cap each dispatcher read with its lease
  fresh,         \* recipients of its page still to consider or to insert
  inserted,      \* rows of its page whose job it has to add
  capped,        \* capReached
  budget,        \* what is left of the bounds of this behaviour
  overlapped,    \* history: a pass began while another was under way
  ceiling        \* history: the most rows the last resume can lead to

passVars  == <<pc, page, capAt, fresh, inserted, capped>>
worldVars == <<tripped, suppressed, overlapped, ceiling>>
queueVars == <<starting, jobs, resuming>>
rowVars   == <<rows, added>>
docVars   == <<status, code, cap, lease, silent>>
vars == <<docVars, worldVars, queueVars, rowVars, passVars, budget>>

Goto(d, place) == pc' = [pc EXCEPT ![d] = place]
Spend(what) == /\ budget[what] > 0
               /\ budget' = [budget EXCEPT ![what] = @ - 1]
PassFrame  == UNCHANGED <<page, capAt, fresh, inserted, capped>>
WorldFrame == UNCHANGED <<worldVars, queueVars, budget>>
Move(d, place) == Goto(d, place) /\ PassFrame /\ UNCHANGED <<docVars, rowVars>> /\ WorldFrame

\* Places between the lease and the end of the pass.
Passing == {"page", "beat", "breaker", "select", "room", "wait", "insert", "add", "finish"}
Holds(d) == status = "sending" /\ lease = d

Init ==
  /\ status = "scheduled" /\ code = "none" /\ cap = FirstCap
  /\ lease = Free /\ silent = FALSE /\ tripped = FALSE /\ suppressed = {}
  /\ starting = 0 /\ jobs = 0 /\ rows = {} /\ added = {}
  /\ pc = [d \in Dispatcher |-> "idle"] /\ page = [d \in Dispatcher |-> 1]
  /\ capAt = [d \in Dispatcher |-> 0] /\ capped = [d \in Dispatcher |-> FALSE]
  /\ fresh = [d \in Dispatcher |-> {}] /\ inserted = [d \in Dispatcher |-> {}]
  /\ budget \in Bounds /\ resuming = {} /\ overlapped = FALSE /\ ceiling = FirstCap

-----------------------------------------------------------------------------
(* Starting a pass: the status first, the job of a new generation second.  *)

Started == /\ starting' = starting + 1
           /\ UNCHANGED <<jobs, tripped, suppressed, overlapped, rowVars, passVars>>

ClaimScheduled ==
  /\ status = "scheduled"
  /\ status' = "sending" /\ lease' = Free /\ silent' = FALSE
  /\ Started /\ UNCHANGED <<code, cap, resuming, ceiling, budget>>

\* Mutation: the rescue leaves alone what a dispatcher holds.
StalledUnleased == status = "sending" /\ silent /\ lease = Free
Stalled         == status = "sending" /\ silent

\* The lease is taken from whoever has it, dead or slow.
Rescue ==
  /\ Stalled
  /\ lease' = Free /\ silent' = FALSE
  /\ Started /\ UNCHANGED <<status, code, cap, resuming, ceiling, budget>>

\* resumeBroadcast, with any cap that is not below the rows so far; a wave parked
\* at its cap needs room for at least one more.
AskResume(c) ==
  /\ status = "paused" /\ Spend("ops")
  /\ c >= Cardinality(rows)
  /\ code = "cap_reached" => c > Cardinality(rows)
  /\ code = "circuit_breaker" => ~tripped
  /\ resuming' = resuming \cup {c}
  /\ UNCHANGED <<docVars, worldVars, starting, jobs, rowVars, passVars>>

\* A pass that is under way keeps to the cap it read.
InForce(c) == {c, Cardinality(rows)} \cup {capAt[d] : d \in {e \in Dispatcher : pc[e] \in Passing}}

\* What was checked is written if the broadcast is still paused.
WriteResume(c) ==
  /\ c \in resuming /\ resuming' = resuming \ {c}
  /\ IF status = "paused"
     THEN /\ status' = "sending" /\ code' = "none" /\ cap' = c
          /\ lease' = Free /\ silent' = FALSE
          /\ ceiling' \in {m \in InForce(c) : \A n \in InForce(c) : m >= n}
          /\ Started
     ELSE UNCHANGED <<docVars, worldVars, starting, jobs, rowVars, passVars>>
  /\ UNCHANGED budget

AddDispatchJob ==
  /\ starting > 0
  /\ starting' = starting - 1 /\ jobs' = jobs + 1
  /\ UNCHANGED <<docVars, worldVars, resuming, rowVars, passVars, budget>>

LoseStart ==
  /\ starting > 0 /\ Spend("fault")
  /\ starting' = starting - 1
  /\ UNCHANGED <<docVars, worldVars, jobs, resuming, rowVars, passVars>>

-----------------------------------------------------------------------------
(* The pass.                                                               *)

TakeJob(d) ==
  /\ pc[d] = "idle" /\ jobs > 0
  /\ jobs' = jobs - 1
  /\ Goto(d, IF status = "sending" THEN "lease" ELSE "idle")
  /\ PassFrame /\ UNCHANGED <<docVars, rowVars, worldVars, starting, resuming, budget>>

LeaseTakeable == lease = Free \/ silent

TakeLease(d) ==
  /\ pc[d] = "lease"
  /\ IF status = "sending" /\ LeaseTakeable
     THEN /\ lease' = d /\ silent' = FALSE
          /\ page' = [page EXCEPT ![d] = 1]
          /\ capAt' = [capAt EXCEPT ![d] = cap]
          /\ capped' = [capped EXCEPT ![d] = FALSE]
          /\ overlapped' = (overlapped \/ \E e \in Dispatcher : pc[e] \in Passing)
          /\ Goto(d, "page")
     ELSE UNCHANGED <<lease, silent, page, capAt, capped, overlapped>> /\ Goto(d, "idle")
  /\ UNCHANGED <<status, code, cap, fresh, inserted, rowVars, tripped, suppressed,
                 ceiling, queueVars, budget>>

\* The template is gone or no longer a marketing one.
TemplateUnfit(d) ==
  /\ pc[d] = "lease" /\ Spend("ops")
  /\ IF status = "sending" THEN status' = "failed" /\ lease' = Free
                           ELSE UNCHANGED <<status, lease>>
  /\ silent' = FALSE /\ Goto(d, "idle")
  /\ PassFrame /\ UNCHANGED <<code, cap, worldVars, queueVars, rowVars>>

PageOf(d) == {r \in Recipient : r > (page[d] - 1) * PageSize /\ r <= page[d] * PageSize}

\* holdsLease: the heartbeat, and whether this dispatcher may go on.
Beat(d) == silent' = IF Holds(d) THEN FALSE ELSE silent
Onward(d, next) == Goto(d, IF Holds(d) THEN next ELSE "release")

\* eligibleRecipientPages: a page of the adapter's query without the suppressed.
ReadPage(d) ==
  /\ pc[d] = "page"
  /\ fresh' = [fresh EXCEPT ![d] = PageOf(d) \ suppressed]
  /\ Goto(d, IF PageOf(d) = {} THEN "finish" ELSE "beat")
  /\ UNCHANGED <<page, capAt, inserted, capped, docVars, rowVars>> /\ WorldFrame

Heartbeat(d) ==
  /\ pc[d] = "beat"
  /\ Beat(d) /\ Onward(d, "breaker")
  /\ PassFrame /\ UNCHANGED <<status, code, cap, lease, rowVars>> /\ WorldFrame

CheckBreaker(d) ==
  /\ pc[d] = "breaker"
  /\ IF tripped
     THEN /\ IF status \in {"sending", "sent"}
             THEN status' = "paused" /\ code' = "circuit_breaker" /\ silent' = FALSE
             ELSE UNCHANGED <<status, code, silent>>
          /\ Goto(d, "release")
          /\ PassFrame /\ UNCHANGED <<cap, lease, rowVars>> /\ WorldFrame
     ELSE Move(d, "select")

\* alreadyDispatched.
Select(d) ==
  LET new == fresh[d] \ rows IN
  /\ pc[d] = "select"
  /\ fresh' = [fresh EXCEPT ![d] = new]
  /\ page' = [page EXCEPT ![d] = @ + 1]
  /\ Goto(d, IF new = {} THEN "page" ELSE "room")
  /\ UNCHANGED <<capAt, inserted, capped, docVars, rowVars>> /\ WorldFrame

\* fresh.slice(0, room).  Mutations: the whole page; any of them.
FirstOfAll(S, n) == {S}
AnyOf(S, n)   == {T \in SUBSET S : Cardinality(T) = n}
FirstOf(S, n) == {T \in SUBSET S : Cardinality(T) = n /\ \A t \in T, s \in S \ T : t < s}

\* The room under the cap is counted from the rows, earlier waves included.
CountRoom(d) ==
  LET taken == Cardinality(rows) IN
  /\ pc[d] = "room"
  /\ \/ /\ taken >= capAt[d]
        /\ capped' = [capped EXCEPT ![d] = TRUE]
        /\ fresh' = [fresh EXCEPT ![d] = {}]
        /\ Goto(d, "finish")
     \/ /\ taken < capAt[d] /\ Cardinality(fresh[d]) > capAt[d] - taken
        /\ capped' = [capped EXCEPT ![d] = TRUE]
        /\ \E T \in FirstOf(fresh[d], capAt[d] - taken) : fresh' = [fresh EXCEPT ![d] = T]
        /\ Goto(d, "wait")
     \/ /\ taken < capAt[d] /\ Cardinality(fresh[d]) <= capAt[d] - taken
        /\ UNCHANGED <<capped, fresh>>
        /\ Goto(d, "wait")
  /\ UNCHANGED <<page, capAt, inserted, docVars, rowVars>> /\ WorldFrame

\* Backpressure: the queue has drained, or it has not and the lease is checked.
Drained(d) == pc[d] = "wait" /\ Move(d, "insert")
Wait(d) ==
  /\ pc[d] = "wait"
  /\ Beat(d) /\ Onward(d, "wait")
  /\ PassFrame /\ UNCHANGED <<status, code, cap, lease, rowVars>> /\ WorldFrame

\* One insert after the other; a row that exists meets the dedupe key.
Insert(d, r) ==
  /\ pc[d] = "insert" /\ r \in fresh[d] /\ \A s \in fresh[d] : r <= s
  /\ fresh' = [fresh EXCEPT ![d] = @ \ {r}]
  /\ rows' = rows \cup {r}
  /\ inserted' = IF r \in rows THEN inserted ELSE [inserted EXCEPT ![d] = @ \cup {r}]
  /\ UNCHANGED <<added, pc, page, capAt, capped, docVars>> /\ WorldFrame

Inserted(d) == pc[d] = "insert" /\ fresh[d] = {} /\ Move(d, "add")

AddSend(d, r) ==
  /\ pc[d] = "add" /\ r \in inserted[d]
  /\ added' = added \cup {r}
  /\ inserted' = [inserted EXCEPT ![d] = @ \ {r}]
  /\ UNCHANGED <<rows, pc, page, capAt, fresh, capped, docVars>> /\ WorldFrame

Added(d) == pc[d] = "add" /\ inserted[d] = {} /\ Move(d, IF capped[d] THEN "finish" ELSE "page")

\* "Only while still ours and still sending."
\* Mutations: whatever the broadcast is by now; capReached forgotten.
MayFinishAnyStatus(d) == lease = d
MayFinish(d)   == Holds(d)
OutcomeSent(d) == "sent"
Outcome(d)     == IF capped[d] THEN "paused" ELSE "sent"

Finish(d) ==
  /\ pc[d] = "finish"
  /\ IF MayFinish(d)
     THEN /\ status' = Outcome(d)
          /\ code' = IF Outcome(d) = "paused" THEN "cap_reached" ELSE code
          /\ lease' = Free /\ silent' = FALSE
     ELSE UNCHANGED <<status, code, lease, silent>>
  /\ Goto(d, "release")
  /\ PassFrame /\ UNCHANGED <<cap, rowVars>> /\ WorldFrame

\* The finally block; after an error the failure is written next.
Release(d) ==
  /\ pc[d] \in {"release", "unwind"}
  /\ lease' = IF lease = d THEN Free ELSE lease
  /\ Goto(d, IF pc[d] = "release" THEN "idle" ELSE "fail")
  /\ fresh' = [fresh EXCEPT ![d] = {}] /\ inserted' = [inserted EXCEPT ![d] = {}]
  /\ UNCHANGED <<status, code, cap, silent, page, capAt, capped, rowVars>> /\ WorldFrame

\* The failure is written to any broadcast that is sending.
WriteFailure(d) ==
  /\ pc[d] = "fail"
  /\ IF status = "sending" THEN status' = "failed" /\ lease' = Free /\ silent' = FALSE
                           ELSE UNCHANGED <<status, lease, silent>>
  /\ Goto(d, "idle")
  /\ PassFrame /\ UNCHANGED <<code, cap, rowVars>> /\ WorldFrame

Throw(d) ==
  /\ pc[d] \in Passing /\ Spend("fault")
  /\ Goto(d, "unwind")
  /\ PassFrame /\ UNCHANGED <<docVars, rowVars, worldVars, queueVars>>

\* The process dies; the queue may redeliver the job.
Crash(d) ==
  /\ pc[d] # "idle" /\ Spend("fault")
  /\ lease' = IF lease = d THEN Orphan ELSE lease
  /\ jobs' \in {jobs, jobs + 1}
  /\ Goto(d, "idle")
  /\ fresh' = [fresh EXCEPT ![d] = {}] /\ inserted' = [inserted EXCEPT ![d] = {}]
  /\ UNCHANGED <<status, code, cap, silent, worldVars, starting, resuming, rowVars,
                 page, capAt, capped>>

-----------------------------------------------------------------------------
(* Time and the outside world.                                             *)

Working == starting + jobs > 0 \/ \E d \in Dispatcher : pc[d] # "idle"

\* Ten minutes without a heartbeat: nobody works on the broadcast, or someone
\* does and is that slow.
FallSilent ==
  /\ status = "sending" /\ ~silent
  /\ IF Working THEN Spend("stall") ELSE UNCHANGED budget
  /\ silent' = TRUE
  /\ UNCHANGED <<status, code, cap, lease, worldVars, queueVars, rowVars, passVars>>

Pause ==
  /\ status \in {"sending", "sent"} /\ Spend("pause")
  /\ status' = "paused" /\ code' = "manual" /\ silent' = FALSE
  /\ UNCHANGED <<cap, lease, worldVars, queueVars, rowVars, passVars>>

Cancel ==
  /\ status # "cancelled" /\ Spend("ops")
  /\ status' = "cancelled" /\ silent' = FALSE
  /\ UNCHANGED <<code, cap, lease, worldVars, queueVars, rowVars, passVars>>

Breaker ==
  /\ Spend("pause") /\ tripped' = ~tripped
  /\ UNCHANGED <<docVars, suppressed, overlapped, ceiling, queueVars, rowVars, passVars>>

OptOut(r) ==
  /\ r \notin suppressed /\ Spend("ops")
  /\ suppressed' = suppressed \cup {r}
  /\ UNCHANGED <<docVars, tripped, overlapped, ceiling, queueVars, rowVars, passVars>>

-----------------------------------------------------------------------------
Pass(d) ==
  \/ TakeLease(d) \/ ReadPage(d) \/ Heartbeat(d) \/ CheckBreaker(d) \/ Select(d)
  \/ CountRoom(d) \/ Wait(d) \/ Drained(d) \/ Inserted(d) \/ Added(d) \/ Finish(d) \/ Release(d) \/ WriteFailure(d)
  \/ \E r \in Recipient : Insert(d, r) \/ AddSend(d, r)

Next ==
  \/ ClaimScheduled \/ Rescue \/ AddDispatchJob \/ LoseStart
  \/ \E c \in 1 .. Last : AskResume(c) \/ WriteResume(c)
  \/ \E d \in Dispatcher : TakeJob(d) \/ Pass(d) \/ TemplateUnfit(d) \/ Throw(d) \/ Crash(d)
  \/ \E r \in Recipient : OptOut(r)
  \/ FallSilent \/ Pause \/ Cancel \/ Breaker

Spec == Init /\ [][Next]_vars

(***************************************************************************)
(* Fairness: the tick claims and rescues again and again, the queue serves *)
(* its jobs, a started pass goes on, the send queue drains, time passes.   *)
(***************************************************************************)
FairSpec ==
  /\ Spec
  /\ WF_vars(ClaimScheduled) /\ WF_vars(Rescue) /\ WF_vars(AddDispatchJob)
  /\ WF_vars(FallSilent /\ UNCHANGED budget)
  /\ WF_vars(\E d \in Dispatcher : TakeJob(d))
  /\ \A d \in Dispatcher : /\ WF_vars(Pass(d))
                           /\ SF_vars(Drained(d))

-----------------------------------------------------------------------------
(* Properties.                                                             *)

\* Every variable holds a value of its type.
TypeOK ==
  /\ status \in {"scheduled", "sending", "paused", "sent", "failed", "cancelled"}
  /\ code \in Code /\ cap \in Nat /\ lease \in Dispatcher \cup {Free, Orphan}
  /\ silent \in BOOLEAN /\ tripped \in BOOLEAN /\ suppressed \subseteq Recipient
  /\ starting \in Nat /\ jobs \in Nat /\ resuming \subseteq Nat /\ ceiling \in Nat
  /\ added \subseteq rows /\ rows \subseteq Recipient
  /\ pc \in [Dispatcher -> Passing \cup {"idle", "lease", "release", "unwind", "fail"}]
  /\ page \in [Dispatcher -> Nat \ {0}] /\ capAt \in [Dispatcher -> Nat]
  /\ capped \in [Dispatcher -> BOOLEAN]
  /\ fresh \in [Dispatcher -> SUBSET Recipient]
  /\ inserted \in [Dispatcher -> SUBSET rows]
  /\ budget \in [Rare -> Nat] /\ overlapped \in BOOLEAN

\* Whatever crashes, is parked, resumed or rescued, the broadcast never has more
\* rows than its recipientCap allows, unless a pass began while another was under
\* way.  A resume that lowers the cap binds the passes after it: one still at
\* work goes up to the cap it read, and rows made meanwhile stay.
CapRespected == overlapped \/ Cardinality(rows) <= ceiling

\* Waves: the rows are always the first recipients of the order, so that the
\* next wave is the next contacts who have not been sent to.
WavesInOrder == \A r \in rows : 1 .. r \subseteq rows \cup suppressed

\* A broadcast that ends as sent has reached everybody, whatever crashed, was
\* rescued or paused on the way.
SentReachesAll == status = "sent" => rows \cup suppressed = Recipient

\* A cancelled broadcast stays cancelled, whoever is still at work on it.
CancelStands == [][status = "cancelled" => status' = "cancelled"]_vars

\* A broadcast that is sending leaves that state: a dead dispatcher and a lost
\* job are made up for by the rescue.
DispatchEnds == status = "sending" ~> status # "sending"

-----------------------------------------------------------------------------
(* What is said of the code and does not hold of it in every case: the     *)
(* README tells how each is violated.                                      *)

\* A row is inserted before its job is added, and a crash in between leaves one
\* without: "a resumed broadcast picks up where the dead worker left off".
SentIsQueued == status = "sent" => rows = added

\* "A stalled-dispatch rescue racing a slow worker cannot overshoot the cap":
\* the cap of the document at every moment, passes that overlap included.
CapHolds == Cardinality(rows) <= cap

\* A dispatcher without the lease changes nothing about the broadcast: "a
\* dispatcher that was merely slow finds its lease gone and stops".
OnlyHolderConcludes ==
  [][\A d \in Dispatcher :
       /\ pc[d] \in {"finish", "fail"} /\ pc'[d] # pc[d] /\ status' # status
       => \A e \in Dispatcher \ {d} : lease # e]_vars
=============================================================================
