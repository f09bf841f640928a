---------------------- MODULE BroadcastDispatchProofs ----------------------
(***************************************************************************)
(* Proofs about BroadcastDispatch, for every value of its constants.       *)
(***************************************************************************)
EXTENDS BroadcastDispatch, FiniteSetTheorems, TLAPS

USE BroadcastDispatchAssumption DEF Rare, Code

-----------------------------------------------------------------------------
(* The type invariant.                                                     *)

Place == Passing \cup {"idle", "lease", "release", "unwind", "fail"}

\* What a dispatcher has in hand is typed.
PassType ==
  /\ pc \in [Dispatcher -> Place]
  /\ page \in [Dispatcher -> Nat \ {0}] /\ capAt \in [Dispatcher -> Nat]
  /\ capped \in [Dispatcher -> BOOLEAN]
  /\ fresh \in [Dispatcher -> SUBSET Recipient]
  /\ inserted \in [Dispatcher -> SUBSET rows]

\* So are the broadcast, its rows and its queue.
DocType ==
  /\ status \in {"scheduled", "sending", "paused", "sent", "failed", "cancelled"}
  /\ code \in Code /\ cap \in Nat /\ lease \in Dispatcher \cup {Free, Orphan}
  /\ suppressed \subseteq Recipient
  /\ starting \in Nat /\ jobs \in Nat /\ resuming \subseteq Nat /\ ceiling \in Nat
  /\ added \subseteq rows /\ rows \subseteq Recipient
  /\ budget \in [Rare -> Nat]
FlagType == silent \in BOOLEAN /\ tripped \in BOOLEAN /\ overlapped \in BOOLEAN

LEMMA TypeSplit == TypeOK <=> PassType /\ DocType /\ FlagType
BY DEF TypeOK, PassType, DocType, FlagType, Place

LEMMA InitType == Init => TypeOK
<1>1. SUFFICES ASSUME Init PROVE TypeOK
  OBVIOUS
<1>2. PassType BY <1>1 DEF Init, PassType, Place
<1>3. DocType BY <1>1 DEF Init, DocType
<1>4. FlagType BY <1>1, Zenon DEF Init, FlagType
<1>5. QED BY <1>2, <1>3, <1>4, TypeSplit

\* Spending keeps the budget a budget.
LEMMA SpendType ==
  ASSUME DocType, NEW what \in Rare, Spend(what)
  PROVE  budget' \in [Rare -> Nat]
BY DEF Spend, DocType

\* The steps of a pass up to the wait for the queue.
LEMMA EarlyPassType ==
  ASSUME PassType, DocType, NEW d \in Dispatcher,
         \/ TakeJob(d) \/ TakeLease(d) \/ ReadPage(d) \/ Heartbeat(d) \/ CheckBreaker(d)
         \/ Select(d) \/ CountRoom(d)
  PROVE  PassType' /\ DocType'
<1> USE DEF WorldFrame, PassFrame, worldVars, queueVars, rowVars, docVars
<1>1. CASE TakeJob(d)
  BY <1>1 DEF TakeJob, Goto, PassType, DocType, Place
<1>2. CASE TakeLease(d)
  <2>1. DocType' BY <1>2 DEF TakeLease, DocType
  <2>2. /\ page' \in [Dispatcher -> Nat \ {0}] /\ capAt' \in [Dispatcher -> Nat]
        /\ capped' \in [Dispatcher -> BOOLEAN]
    <3>1. CASE status = "sending" /\ LeaseTakeable
      <4>1. /\ page' = [page EXCEPT ![d] = 1] /\ capAt' = [capAt EXCEPT ![d] = cap]
            /\ capped' = [capped EXCEPT ![d] = FALSE]
        BY <1>2, <3>1, Zenon DEF TakeLease
      <4>2. QED BY <4>1 DEF PassType, DocType
    <3>2. CASE ~(status = "sending" /\ LeaseTakeable) BY <1>2, <3>2 DEF TakeLease, PassType
    <3>3. QED BY <3>1, <3>2
  <2>3. QED BY <1>2, <2>1, <2>2 DEF TakeLease, Goto, Passing, PassType, Place
<1>3. CASE ReadPage(d)
  BY <1>3 DEF ReadPage, PageOf, Goto, Passing, PassType, DocType, Place
<1>4. CASE Heartbeat(d)
  BY <1>4 DEF Heartbeat, Onward, Goto, Passing, PassType, DocType, Place
<1>5. CASE CheckBreaker(d)
  BY <1>5 DEF CheckBreaker, Move, Goto, Passing, PassType, DocType, Place
<1>6. CASE Select(d)
  BY <1>6 DEF Select, Goto, Passing, PassType, DocType, Place
<1>7. CASE CountRoom(d)
  <2>1. DocType' BY <1>7 DEF CountRoom, DocType
  <2>2. fresh' \in [Dispatcher -> SUBSET Recipient]
    BY <1>7 DEF CountRoom, FirstOf, PassType
  <2>3. capped' \in [Dispatcher -> BOOLEAN]
    BY <1>7 DEF CountRoom, PassType
  <2>4. QED BY <1>7, <2>1, <2>2, <2>3 DEF CountRoom, Goto, Passing, PassType, Place
<1>8. QED BY <1>1, <1>2, <1>3, <1>4, <1>5, <1>6, <1>7

\* The steps from there to the end, and what ends it early.
LEMMA LatePassType ==
  ASSUME PassType, DocType, NEW d \in Dispatcher,
         \/ Wait(d) \/ Drained(d) \/ Inserted(d) \/ Added(d) \/ Finish(d) \/ Release(d)
         \/ WriteFailure(d) \/ (\E r \in Recipient : Insert(d, r) \/ AddSend(d, r))
         \/ TemplateUnfit(d) \/ Throw(d) \/ Crash(d)
  PROVE  PassType' /\ DocType'
<1> USE DEF WorldFrame, PassFrame, worldVars, queueVars, rowVars, docVars
<1>1. CASE Wait(d)
  BY <1>1 DEF Wait, Onward, Goto, Passing, PassType, DocType, Place
<1>2. CASE Drained(d) \/ Inserted(d) \/ Added(d)
  BY <1>2 DEF Drained, Inserted, Added, Move, Goto, Passing, PassType, DocType, Place
<1>3. CASE Finish(d)
  BY <1>3 DEF Finish, Outcome, Goto, Passing, PassType, DocType, Place
<1>4. CASE Release(d)
  BY <1>4 DEF Release, Goto, Passing, PassType, DocType, Place
<1>5. CASE WriteFailure(d)
  BY <1>5 DEF WriteFailure, Goto, Passing, PassType, DocType, Place
<1>6. ASSUME NEW r \in Recipient, Insert(d, r) PROVE PassType' /\ DocType'
  BY <1>6 DEF Insert, PassType, DocType, Place
<1>7. ASSUME NEW r \in Recipient, AddSend(d, r) PROVE PassType' /\ DocType'
  BY <1>7 DEF AddSend, PassType, DocType, Place
<1>8. CASE TemplateUnfit(d)
  BY <1>8, SpendType DEF TemplateUnfit, Goto, Passing, PassType, DocType, Place
<1>9. CASE Throw(d)
  BY <1>9, SpendType DEF Throw, Goto, Passing, PassType, DocType, Place
<1>10. CASE Crash(d)
  BY <1>10, SpendType DEF Crash, Goto, Passing, PassType, DocType, Place
<1>11. QED BY <1>1, <1>2, <1>3, <1>4, <1>5, <1>6, <1>7, <1>8, <1>9, <1>10

\* The tick, operators, contacts and time.
Outside ==
  \/ ClaimScheduled \/ Rescue \/ AddDispatchJob \/ LoseStart
  \/ (\E c \in 1 .. Last : AskResume(c) \/ WriteResume(c)) \/ (\E r \in Recipient : OptOut(r))
  \/ FallSilent \/ Pause \/ Cancel \/ Breaker

\* The rows can be counted.
LEMMA RowsCounted == ASSUME DocType PROVE Cardinality(rows) \in Nat
<1>1. IsFiniteSet(Recipient) BY FS_Interval DEF Recipient
<1>2. IsFiniteSet(rows) BY <1>1, FS_Subset DEF DocType
<1>3. QED BY <1>2, FS_CardinalityType

LEMMA OutsideType ==
  ASSUME PassType, DocType, Outside
  PROVE  PassType' /\ DocType'
<1> USE DEF worldVars, queueVars, rowVars, docVars, passVars
<1>1. UNCHANGED <<rowVars, passVars>>
  BY DEF Outside, ClaimScheduled, Rescue, AddDispatchJob, LoseStart, AskResume, WriteResume,
         OptOut, FallSilent, Pause, Cancel, Breaker, Started
<1>2. PassType' BY <1>1 DEF PassType
<1>3. CASE ClaimScheduled \/ Rescue \/ AddDispatchJob
  <2>1. UNCHANGED <<code, cap, resuming, ceiling, suppressed, budget, rows, added>>
    BY <1>1, <1>3 DEF ClaimScheduled, Rescue, AddDispatchJob, Started
  <2>2. CASE ClaimScheduled BY <1>2, <2>1, <2>2 DEF ClaimScheduled, Started, DocType
  <2>3. CASE Rescue BY <1>2, <2>1, <2>3 DEF Rescue, Started, DocType
  <2>4. CASE AddDispatchJob BY <1>2, <2>1, <2>4 DEF AddDispatchJob, DocType
  <2>5. QED BY <1>3, <2>2, <2>3, <2>4
<1>4. CASE LoseStart
  BY <1>2, <1>4, SpendType DEF LoseStart, DocType
<1>5. ASSUME NEW c \in 1 .. Last, AskResume(c) \/ WriteResume(c) PROVE DocType'
  <2>1. CASE AskResume(c) BY <2>1, SpendType DEF AskResume, DocType
  <2>2. CASE WriteResume(c)
    <3>1. InForce(c) \subseteq Nat
      <4>1. Cardinality(rows) \in Nat BY RowsCounted
      <4>2. QED BY <4>1 DEF InForce, PassType
    <3>2. ceiling' \in Nat BY <2>2, <3>1 DEF WriteResume, DocType
    <3>3. QED BY <2>2, <3>2 DEF WriteResume, Started, DocType
  <2>3. QED BY <1>5, <2>1, <2>2
<1>6. CASE \E r \in Recipient : OptOut(r)
  BY <1>2, <1>6, SpendType DEF OptOut, DocType
<1>7. CASE FallSilent
  BY <1>2, <1>7, SpendType DEF FallSilent, DocType
<1>8. CASE Pause \/ Cancel \/ Breaker
  BY <1>2, <1>8, SpendType DEF Pause, Cancel, Breaker, DocType
<1>9. QED BY <1>2, <1>3, <1>4, <1>5, <1>6, <1>7, <1>8 DEF Outside

LEMMA PassFlags ==
  ASSUME FlagType, NEW d \in Dispatcher,
         TakeJob(d) \/ Pass(d) \/ TemplateUnfit(d) \/ Throw(d) \/ Crash(d)
  PROVE  FlagType'
<1> USE DEF WorldFrame, worldVars, docVars, FlagType
<1>1. UNCHANGED tripped
  BY DEF Pass, TakeJob, TakeLease, ReadPage, Heartbeat, CheckBreaker, Select, CountRoom, Wait,
     Drained, Inserted, Added, Finish, Release, WriteFailure, Insert, AddSend, TemplateUnfit,
     Throw, Crash, Move
<1>2. overlapped' \in BOOLEAN
  <2>1. CASE TakeLease(d) BY <2>1, Zenon DEF TakeLease
  <2>2. CASE ~TakeLease(d)
    BY <2>2 DEF Pass, TakeJob, ReadPage, Heartbeat, CheckBreaker, Select, CountRoom, Wait,
     Drained, Inserted, Added, Finish, Release, WriteFailure, Insert, AddSend, TemplateUnfit,
     Throw, Crash, Move
  <2>3. QED BY <2>1, <2>2
<1>3. silent' \in BOOLEAN
  <2>1. CASE Heartbeat(d) \/ Wait(d)
    BY <2>1, Zenon DEF Heartbeat, Wait, Beat
  <2>2. CASE CheckBreaker(d)
    BY <2>2, Zenon DEF CheckBreaker, Move
  <2>3. CASE TakeLease(d) \/ TemplateUnfit(d) \/ Finish(d) \/ WriteFailure(d)
    BY <2>3, Zenon DEF TakeLease, TemplateUnfit, Finish, WriteFailure
  <2>4. CASE ~(\/ Heartbeat(d) \/ Wait(d) \/ CheckBreaker(d) \/ TakeLease(d)
               \/ TemplateUnfit(d) \/ Finish(d) \/ WriteFailure(d))
    BY <2>4 DEF Pass, TakeJob, ReadPage, Select, CountRoom, Drained, Inserted, Added, Release,
       Insert, AddSend, Throw, Crash, Move
  <2>5. QED BY <2>1, <2>2, <2>3, <2>4
<1>4. QED BY <1>1, <1>2, <1>3

LEMMA OutsideFlags ==
  ASSUME FlagType, Outside
  PROVE  FlagType'
<1> USE DEF worldVars, docVars, Started, FlagType
<1>1. UNCHANGED overlapped /\ (tripped' = tripped \/ tripped' = ~tripped)
  BY DEF Outside, ClaimScheduled, Rescue, AddDispatchJob, LoseStart, AskResume, WriteResume,
         OptOut, FallSilent, Pause, Cancel, Breaker
<1>2. silent' = silent \/ silent' = TRUE \/ silent' = FALSE
  BY DEF Outside, ClaimScheduled, Rescue, AddDispatchJob, LoseStart, AskResume, WriteResume,
         OptOut, FallSilent, Pause, Cancel, Breaker
<1>3. QED BY <1>1, <1>2, Zenon

LEMMA NextType == ASSUME TypeOK, [Next]_vars PROVE TypeOK'
<1>1. PassType /\ DocType /\ FlagType BY TypeSplit
<1>2. FlagType'
  <2>1. CASE Outside BY <1>1, <2>1, OutsideFlags
  <2>2. ASSUME NEW d \in Dispatcher,
               TakeJob(d) \/ Pass(d) \/ TemplateUnfit(d) \/ Throw(d) \/ Crash(d)
        PROVE  FlagType'
    BY <1>1, <2>2, PassFlags
  <2>3. CASE UNCHANGED vars
    BY <1>1, <2>3 DEF vars, docVars, worldVars, FlagType
  <2>4. QED BY <2>1, <2>2, <2>3 DEF Next, Outside
<1>3. PassType' /\ DocType'
  <2>1. CASE Outside BY <1>1, <2>1, OutsideType
  <2>2. ASSUME NEW d \in Dispatcher,
               TakeJob(d) \/ Pass(d) \/ TemplateUnfit(d) \/ Throw(d) \/ Crash(d)
        PROVE  PassType' /\ DocType'
    BY <1>1, <2>2, EarlyPassType, LatePassType DEF Pass
  <2>3. CASE UNCHANGED vars
    BY <1>1, <2>3 DEF vars, docVars, worldVars, passVars, queueVars, rowVars, PassType, DocType
  <2>4. QED BY <2>1, <2>2, <2>3 DEF Next, Outside
<1>4. QED BY <1>2, <1>3, TypeSplit DEF TypeOK, PassType, DocType, FlagType, Place

\* The variables keep their types: passes, operators, the tick and faults.
THEOREM TypeCorrect == Spec => []TypeOK
<1>1. Init => TypeOK BY InitType
<1>2. TypeOK /\ [Next]_vars => TypeOK' BY NextType
<1>3. QED BY <1>1, <1>2, PTL DEF Spec

-----------------------------------------------------------------------------
(* Cancelling.                                                             *)

\* A cancelled broadcast stays cancelled: no pass, start, pause or resume that
\* is under way, and no error, changes its status.
THEOREM CancelledStays == Spec => CancelStands
<1>1. ASSUME [Next]_vars, status = "cancelled" PROVE status' = "cancelled"
  <2>1. CASE Outside
    BY <1>1, <2>1 DEF Outside, ClaimScheduled, Rescue, Stalled, AddDispatchJob, LoseStart,
       AskResume, WriteResume, Started, OptOut, FallSilent, Pause, Cancel, Breaker, docVars
  <2>2. ASSUME NEW d \in Dispatcher,
               TakeJob(d) \/ Pass(d) \/ TemplateUnfit(d) \/ Throw(d) \/ Crash(d)
        PROVE  status' = "cancelled"
    BY <1>1, <2>2 DEF Pass, TakeJob, TakeLease, ReadPage, Heartbeat, CheckBreaker, Select,
       CountRoom, Wait, Drained, Inserted, Added, Finish, MayFinish, Holds, Release, WriteFailure,
       Insert, AddSend, TemplateUnfit, Throw, Crash, Move, docVars
  <2>3. CASE UNCHANGED vars BY <1>1, <2>3 DEF vars, docVars
  <2>4. QED BY <1>1, <2>1, <2>2, <2>3 DEF Next, Outside
<1>2. [Next]_vars => [status = "cancelled" => status' = "cancelled"]_vars
  BY <1>1
<1>3. QED BY <1>2, PTL DEF Spec, CancelStands

-----------------------------------------------------------------------------
(* Waves come in order, and 'sent' means everybody.                        *)

Reached == rows \cup suppressed

\* The recipients of the pages before the dispatcher's are reached, or among
\* those it has in hand.
Below(d, more) == \A r \in Recipient : r <= (page[d] - 1) * PageSize => r \in Reached \cup more

\* No gap below a recipient in hand.
NoGap(d) == \A f \in fresh[d] : \A r \in 1 .. f : r \in Reached \cup fresh[d]

\* How far a dispatcher has come, by its place.
Progress(d) ==
  /\ pc[d] \in {"page", "beat", "breaker", "select"} => ~capped[d] /\ Below(d, {})
  /\ pc[d] \in {"beat", "breaker", "select"} => PageOf(d) \subseteq fresh[d] \cup suppressed
  /\ pc[d] \in {"beat", "breaker", "select"} => fresh[d] \subseteq PageOf(d)
  /\ pc[d] = "room" => ~capped[d]
  /\ pc[d] \in {"room", "wait", "insert"} =>
       NoGap(d) /\ (~capped[d] => Below(d, fresh[d]))
  /\ pc[d] = "add" /\ ~capped[d] => Below(d, {})
  /\ pc[d] = "finish" /\ ~capped[d] => Reached = Recipient

WaveInv == TypeOK /\ WavesInOrder /\ SentReachesAll /\ \A d \in Dispatcher : Progress(d)

\* Where pages end.
LEMMA PageEnd ==
  ASSUME NEW p \in Nat \ {0}
  PROVE  /\ (p - 1) * PageSize \in Nat /\ p * PageSize \in Nat
         /\ p * PageSize = (p - 1) * PageSize + PageSize
<1>1. (p - 1) * PageSize \in Nat /\ p * PageSize \in Nat OBVIOUS
<1>2. p * PageSize = (p - 1) * PageSize + PageSize OBVIOUS
<1>3. QED BY <1>1, <1>2

\* What others reach does a dispatcher no harm.
LEMMA OthersProgress ==
  ASSUME TypeOK, TypeOK', NEW d \in Dispatcher, Progress(d), Reached \subseteq Reached',
         suppressed \subseteq suppressed',
         pc'[d] = pc[d], page'[d] = page[d], fresh'[d] = fresh[d], capped'[d] = capped[d]
  PROVE  Progress(d)'
<1>1. /\ \A more : Below(d, more) => Below(d, more)'
      /\ PageOf(d)' = PageOf(d) /\ (NoGap(d) => NoGap(d)')
  BY DEF Below, PageOf, NoGap
<1>2. Below(d, {}) => Below(d, {})'
  BY <1>1
<1>3. Below(d, fresh[d]) => Below(d, fresh[d])'
  BY DEF Below
<1>4. Reached = Recipient => Reached' = Recipient
  BY DEF Reached, TypeOK
<1>5. QED BY <1>1, <1>2, <1>3, <1>4 DEF Progress

\* A step that neither concludes the broadcast nor makes a row.
LEMMA KeepsWaves ==
  ASSUME WaveInv, TypeOK', UNCHANGED rows, suppressed \subseteq suppressed',
         status' = "sent" => status = "sent",
         \A d \in Dispatcher : Progress(d)'
  PROVE  WaveInv'
<1>1. WavesInOrder' BY DEF WaveInv, WavesInOrder
<1>2. SentReachesAll' BY DEF WaveInv, SentReachesAll, TypeOK
<1>3. QED BY <1>1, <1>2 DEF WaveInv

\* Nobody but the dispatcher itself moves it on.
LEMMA OtherDispatchers ==
  ASSUME WaveInv, TypeOK', NEW d \in Dispatcher,
         TakeJob(d) \/ Pass(d) \/ TemplateUnfit(d) \/ Throw(d) \/ Crash(d)
  PROVE  /\ rows \subseteq rows' /\ UNCHANGED suppressed
         /\ \A e \in Dispatcher \ {d} : Progress(e)'
<1>1. rows \subseteq rows' /\ UNCHANGED suppressed
  BY DEF Pass, TakeJob, TakeLease, ReadPage, Heartbeat, CheckBreaker, Select, CountRoom, Wait,
     Drained, Inserted, Added, Finish, Release, WriteFailure, Insert, AddSend, TemplateUnfit,
     Throw, Crash, Move, WorldFrame, worldVars, rowVars
<1>2. ASSUME NEW e \in Dispatcher \ {d} PROVE Progress(e)'
  <2>1. /\ pc'[e] = pc[e] /\ page'[e] = page[e] /\ fresh'[e] = fresh[e] /\ capped'[e] = capped[e]
    BY DEF Pass, TakeJob, TakeLease, ReadPage, Heartbeat, Onward, CheckBreaker, Select, CountRoom,
       Wait, Drained, Inserted, Added, Finish, Release, WriteFailure, Insert, AddSend,
       TemplateUnfit, Throw, Crash, Move, Goto, PassFrame, WaveInv, TypeOK
  <2>2. Reached \subseteq Reached'
    BY <1>1 DEF Reached
  <2>3. QED BY <1>1, <2>1, <2>2, OthersProgress DEF WaveInv
<1>3. QED BY <1>1, <1>2

\* From the job to the page that is selected.
LEMMA EarlyWaves ==
  ASSUME WaveInv, TypeOK', NEW d \in Dispatcher,
         \/ TakeJob(d) \/ TakeLease(d) \/ ReadPage(d) \/ Heartbeat(d) \/ CheckBreaker(d)
         \/ Select(d) \/ CountRoom(d)
  PROVE  WaveInv'
<1> USE DEF WorldFrame, PassFrame, worldVars, rowVars, docVars
<1>a. TypeOK /\ Progress(d) BY DEF WaveInv
<1>0. SUFFICES ASSUME UNCHANGED <<rows, suppressed>>, status' = "sent" => status = "sent"
               PROVE  Progress(d)'
  <2>1. UNCHANGED <<rows, suppressed>> /\ (status' = "sent" => status = "sent")
    BY DEF TakeJob, TakeLease, ReadPage, Heartbeat, CheckBreaker, Select, CountRoom, Move
  <2>2. \A e \in Dispatcher \ {d} : Progress(e)'
    BY OtherDispatchers DEF Pass
  <2>3. QED BY <2>1, <2>2, KeepsWaves
<1>b. UNCHANGED Reached BY <1>0 DEF Reached
<1>1. CASE TakeJob(d)
  BY <1>1, <1>a DEF TakeJob, Goto, TypeOK, Progress
<1>2. CASE TakeLease(d)
  <2>1. CASE pc'[d] = "page"
    <3>1. page'[d] = 1 /\ capped'[d] = FALSE
      BY <1>2, <2>1, <1>a DEF TakeLease, Goto, TypeOK
    <3>2. (page'[d] - 1) * PageSize = 0
      BY <3>1
    <3>3. Below(d, {})'
      BY <3>2 DEF Below, Recipient
    <3>4. QED BY <2>1, <3>1, <3>3 DEF Progress
  <2>2. CASE pc'[d] # "page"
    BY <1>2, <2>2, <1>a DEF TakeLease, Goto, TypeOK, Progress
  <2>3. QED BY <2>1, <2>2
<1>3. CASE ReadPage(d)
  <2>1. /\ page' = page /\ capped' = capped /\ fresh'[d] = PageOf(d) \ suppressed
        /\ ~capped[d] /\ Below(d, {}) /\ PageOf(d)' = PageOf(d) /\ Below(d, {})'
    BY <1>3, <1>a, <1>b DEF ReadPage, TypeOK, Progress, PageOf, Below
  <2>2. CASE PageOf(d) = {}
    <3>1. pc'[d] = "finish" BY <1>3, <2>2, <1>a DEF ReadPage, Goto, TypeOK
    <3>2. \A r \in Recipient : r <= (page[d] - 1) * PageSize
      <4>1. SUFFICES ASSUME NEW r \in Recipient, r > (page[d] - 1) * PageSize PROVE FALSE
        BY <1>a, PageEnd DEF TypeOK, Recipient
      <4> DEFINE first == (page[d] - 1) * PageSize + 1
      <4>2. /\ (page[d] - 1) * PageSize \in Nat
            /\ page[d] * PageSize = (page[d] - 1) * PageSize + PageSize
        BY <1>a, PageEnd DEF TypeOK
      <4>3. first \in Recipient /\ first <= page[d] * PageSize
        BY <4>1, <4>2 DEF Recipient
      <4>4. first \in PageOf(d) BY <4>2, <4>3 DEF PageOf
      <4>5. QED BY <4>4, <2>2
    <3>3. Reached = Recipient BY <2>1, <3>2, <1>a DEF Below, Reached, TypeOK
    <3>4. QED BY <3>1, <3>3, <1>b DEF Progress, Recipient
  <2>3. CASE PageOf(d) # {}
    <3>1. pc'[d] = "beat" BY <1>3, <2>3, <1>a DEF ReadPage, Goto, TypeOK
    <3>2. PageOf(d)' \subseteq fresh'[d] \cup suppressed' /\ fresh'[d] \subseteq PageOf(d)'
      BY <2>1, <1>0
    <3>3. QED BY <2>1, <3>1, <3>2 DEF Progress
  <2>4. QED BY <2>2, <2>3
<1>4. CASE Heartbeat(d) \/ CheckBreaker(d)
  <2>1. /\ UNCHANGED <<page, fresh, capped>> /\ pc[d] \in {"beat", "breaker"}
        /\ pc'[d] \in {"breaker", "select", "release"}
    BY <1>4, <1>a DEF Heartbeat, Onward, CheckBreaker, Move, Goto, TypeOK
  <2>2. Below(d, {})' <=> Below(d, {})
    BY <2>1, <1>b DEF Below
  <2>3. PageOf(d)' = PageOf(d) BY <2>1 DEF PageOf
  <2>4. QED BY <2>1, <2>2, <2>3, <1>0, <1>a DEF Progress
<1>5. CASE Select(d)
  <2>1. /\ page'[d] = page[d] + 1 /\ capped' = capped /\ fresh'[d] = fresh[d] \ rows
        /\ ~capped[d] /\ Below(d, {}) /\ fresh[d] \subseteq PageOf(d)
        /\ PageOf(d) \subseteq fresh[d] \cup suppressed
    BY <1>5, <1>a DEF Select, TypeOK, Progress
  <2>2. (page'[d] - 1) * PageSize = page[d] * PageSize
    BY <2>1, <1>a DEF TypeOK
  <2>3. Below(d, fresh[d])'
    <3>1. SUFFICES ASSUME NEW r \in Recipient, r <= page[d] * PageSize
                   PROVE  r \in Reached \cup fresh'[d]
      BY <2>2, <1>b DEF Below, Recipient
    <3>2. CASE r <= (page[d] - 1) * PageSize
      BY <3>2, <2>1 DEF Below
    <3>3. CASE r > (page[d] - 1) * PageSize
      <4>1. r \in PageOf(d) BY <3>1, <3>3 DEF PageOf
      <4>2. QED BY <4>1, <2>1 DEF Reached
    <3>4. QED BY <3>2, <3>3, <1>a, PageEnd DEF TypeOK, Recipient
  <2>4. NoGap(d)'
    <3>1. SUFFICES ASSUME NEW f \in fresh'[d], NEW r \in 1 .. f PROVE r \in Reached \cup fresh'[d]
      BY <1>b DEF NoGap
    <3>2. f \in Recipient /\ f <= page[d] * PageSize
      BY <3>1, <2>1 DEF PageOf
    <3>3. r \in Recipient /\ r <= page[d] * PageSize
      BY <3>1, <3>2, <1>a, PageEnd DEF Recipient, TypeOK
    <3>4. QED BY <2>2, <2>3, <3>3, <1>b DEF Below
  <2>5. CASE pc'[d] = "page"
    <3>1. fresh'[d] = {} BY <1>5, <2>5, <1>a DEF Select, Goto, TypeOK
    <3>2. QED BY <2>1, <2>3, <2>5, <3>1 DEF Below, Progress
  <2>6. CASE pc'[d] = "room"
    BY <2>1, <2>3, <2>4, <2>6 DEF Progress
  <2>7. QED BY <1>5, <2>5, <2>6, <1>a DEF Select, Goto, TypeOK
<1>6. CASE CountRoom(d)
  <2>1. /\ page' = page /\ ~capped[d] /\ NoGap(d) /\ Below(d, fresh[d])
    BY <1>6, <1>a DEF CountRoom, Progress
  <2>2. CASE pc'[d] = "finish"
    <3>1. capped'[d]
      BY <1>6, <2>2, <1>a DEF CountRoom, Goto, TypeOK
    <3>2. QED BY <2>2, <3>1 DEF Progress
  <2>3. CASE pc'[d] = "wait" /\ UNCHANGED <<fresh, capped>>
    BY <2>1, <2>3, <1>b DEF Progress, NoGap, Below
  <2>4. CASE pc'[d] = "wait" /\ capped'[d] /\ \E n : fresh'[d] \in FirstOf(fresh[d], n)
    <3>1. fresh'[d] \subseteq fresh[d] /\ \A t \in fresh'[d], u \in fresh[d] \ fresh'[d] : t < u
      BY <2>4 DEF FirstOf
    <3>2. NoGap(d)'
      <4>1. SUFFICES ASSUME NEW f \in fresh'[d], NEW r \in 1 .. f
                     PROVE  r \in Reached \cup fresh'[d]
        BY <1>b DEF NoGap
      <4>2. r \in Reached \cup fresh[d] BY <4>1, <3>1, <2>1 DEF NoGap
      <4>3. ~(f < r)
        BY <4>1, <3>1, <1>a DEF TypeOK, Recipient
      <4>4. QED BY <4>1, <4>2, <4>3, <3>1
    <3>3. QED BY <2>4, <3>2 DEF Progress
  <2>5. QED
    <3>1. \/ pc'[d] = "finish"
          \/ pc'[d] = "wait" /\ UNCHANGED <<fresh, capped>>
          \/ pc'[d] = "wait" /\ capped'[d] = TRUE /\ \E n : fresh'[d] \in FirstOf(fresh[d], n)
      BY <1>6, <1>a DEF CountRoom, Goto, TypeOK
    <3>2. QED BY <3>1, <2>2, <2>3, <2>4
<1>7. QED BY <1>1, <1>2, <1>3, <1>4, <1>5, <1>6

\* Waiting, adding, leaving: no rows are made.
LEMMA LateWaves ==
  ASSUME WaveInv, TypeOK', NEW d \in Dispatcher,
         \/ Wait(d) \/ Drained(d) \/ Inserted(d) \/ Added(d) \/ Finish(d) \/ Release(d)
         \/ WriteFailure(d) \/ (\E r \in Recipient : AddSend(d, r))
         \/ TemplateUnfit(d) \/ Throw(d) \/ Crash(d)
  PROVE  WaveInv'
<1> USE DEF WorldFrame, PassFrame, worldVars, rowVars, docVars
<1>a. TypeOK /\ Progress(d) BY DEF WaveInv
<1>b. UNCHANGED <<rows, suppressed, page, capped>> /\ UNCHANGED Reached
  BY DEF Wait, Drained, Inserted, Added, Finish, Release, WriteFailure, AddSend, TemplateUnfit,
         Throw, Crash, Move, Reached
<1>c. ASSUME status' = "sent" => status = "sent", Progress(d)' PROVE WaveInv'
  <2>1. \A e \in Dispatcher \ {d} : Progress(e)'
    BY OtherDispatchers DEF Pass
  <2>2. QED BY <1>b, <1>c, <2>1, KeepsWaves
<1>d. \A more : Below(d, more)' <=> Below(d, more)
  BY <1>b DEF Below
<1>1. CASE Wait(d) \/ Drained(d) \/ Inserted(d)
  <2>1. UNCHANGED <<fresh, status>> BY <1>1 DEF Wait, Drained, Inserted, Move
  <2>2. \/ pc'[d] = "release"
        \/ pc[d] = "wait" /\ pc'[d] \in {"wait", "insert"}
        \/ pc[d] = "insert" /\ pc'[d] = "add" /\ fresh[d] = {}
    BY <1>1, <1>a DEF Wait, Onward, Drained, Inserted, Move, Goto, TypeOK
  <2>3. NoGap(d)' <=> NoGap(d) BY <2>1, <1>b DEF NoGap
  <2>4. Below(d, fresh[d])' <=> Below(d, fresh[d]) BY <2>1, <1>b DEF Below
  <2>5. Below(d, {})' <=> Below(d, {}) BY <1>d
  <2>6. Progress(d)' BY <2>1, <2>2, <2>3, <2>4, <2>5, <1>a, <1>b DEF Progress
  <2>7. QED BY <2>1, <2>6, <1>c
<1>2. CASE Added(d)
  <2>1. /\ UNCHANGED <<fresh, status>> /\ pc[d] = "add"
        /\ IF capped[d] THEN pc'[d] = "finish" ELSE pc'[d] = "page"
    BY <1>2, <1>a DEF Added, Move, Goto, TypeOK
  <2>2. Below(d, {})' <=> Below(d, {}) BY <1>d
  <2>3. Progress(d)' BY <2>1, <2>2, <1>a, <1>b DEF Progress
  <2>4. QED BY <2>1, <2>3, <1>c
<1>3. CASE Finish(d)
  <2>1. pc'[d] = "release" BY <1>3, <1>a DEF Finish, Goto, TypeOK
  <2>2. Progress(d)' BY <2>1 DEF Progress
  <2>3. CASE status' = "sent" /\ status # "sent"
    <3>1. pc[d] = "finish" /\ ~capped[d]
      BY <1>3, <2>3 DEF Finish, Outcome
    <3>2. Reached = Recipient BY <3>1, <1>a DEF Progress
    <3>3. SentReachesAll' BY <3>2, <1>b DEF SentReachesAll, Reached, Recipient
    <3>4. WavesInOrder' BY <1>b DEF WaveInv, WavesInOrder
    <3>5. \A e \in Dispatcher \ {d} : Progress(e)'
      BY <1>3, OtherDispatchers DEF Pass
    <3>6. QED BY <2>2, <3>3, <3>4, <3>5 DEF WaveInv
  <2>4. QED BY <2>2, <2>3, <1>c
<1>4. CASE Release(d) \/ WriteFailure(d) \/ TemplateUnfit(d) \/ Throw(d) \/ Crash(d)
  <2>1. pc'[d] \in {"idle", "fail", "unwind"} /\ (status' = "sent" => status = "sent")
    BY <1>4, <1>a DEF Release, WriteFailure, TemplateUnfit, Throw, Crash, Goto, TypeOK
  <2>2. Progress(d)' BY <2>1 DEF Progress
  <2>3. QED BY <2>1, <2>2, <1>c
<1>5. ASSUME NEW r \in Recipient, AddSend(d, r) PROVE WaveInv'
  <2>1. pc[d] = "add" /\ UNCHANGED <<pc, fresh, status>> BY <1>5 DEF AddSend
  <2>2. Below(d, {})' <=> Below(d, {}) BY <1>d
  <2>3. Progress(d)' BY <2>1, <2>2, <1>a, <1>b DEF Progress
  <2>4. QED BY <2>1, <2>3, <1>c
<1>6. QED BY <1>1, <1>2, <1>3, <1>4, <1>5

\* The row that is made next is the first that is missing.
LEMMA InsertWaves ==
  ASSUME WaveInv, TypeOK', NEW d \in Dispatcher, NEW r \in Recipient, Insert(d, r)
  PROVE  WaveInv'
<1>a. TypeOK /\ Progress(d) BY DEF WaveInv
<1>1. /\ pc[d] = "insert" /\ pc' = pc /\ page' = page /\ capped' = capped /\ status' = status
      /\ r \in fresh[d] /\ fresh'[d] = fresh[d] \ {r} /\ rows' = rows \cup {r}
      /\ suppressed' = suppressed /\ \A s \in fresh[d] : r <= s
  BY <1>a DEF Insert, docVars, WorldFrame, worldVars, TypeOK
<1>2. NoGap(d) /\ (~capped[d] => Below(d, fresh[d]))
  BY <1>1, <1>a DEF Progress
<1>3. Reached' \cup fresh'[d] = Reached \cup fresh[d]
  BY <1>1 DEF Reached
<1>4. Progress(d)'
  <2>1. NoGap(d)' BY <1>1, <1>2, <1>3 DEF NoGap
  <2>2. ~capped'[d] => Below(d, fresh[d])' BY <1>1, <1>2, <1>3 DEF Below
  <2>3. QED BY <1>1, <2>1, <2>2 DEF Progress
<1>5. WavesInOrder'
  <2>1. \A q \in 1 .. r : q \in Reached'
    <3>1. SUFFICES ASSUME NEW q \in 1 .. r, q # r PROVE q \in Reached
      BY <1>1 DEF Reached
    <3>2. q \in Reached \cup fresh[d] BY <1>1, <1>2, <3>1 DEF NoGap
    <3>3. q \notin fresh[d] BY <1>1, <3>1 DEF Recipient
    <3>4. QED BY <3>2, <3>3
  <2>2. QED BY <1>1, <2>1 DEF WaveInv, WavesInOrder, Reached
<1>6. SentReachesAll'
  BY <1>1 DEF WaveInv, SentReachesAll
<1>7. \A e \in Dispatcher \ {d} : Progress(e)'
  BY OtherDispatchers DEF Pass
<1>8. QED BY <1>4, <1>5, <1>6, <1>7 DEF WaveInv

LEMMA OutsideWaves == ASSUME WaveInv, TypeOK', Outside PROVE WaveInv'
<1>1. /\ UNCHANGED <<rows, passVars>> /\ suppressed \subseteq suppressed'
      /\ status' = "sent" => status = "sent"
  BY DEF Outside, ClaimScheduled, Rescue, AddDispatchJob, LoseStart, AskResume, WriteResume,
         OptOut, FallSilent, Pause, Cancel, Breaker, Started, rowVars, docVars, worldVars
<1>2. ASSUME NEW d \in Dispatcher PROVE Progress(d)'
  BY <1>1, OthersProgress DEF WaveInv, passVars, Reached
<1>3. QED BY <1>1, <1>2, KeepsWaves

LEMMA InitWaves == Init => WaveInv
<1>1. SUFFICES ASSUME Init PROVE WaveInv
  OBVIOUS
<1>2. \A d \in Dispatcher : Progress(d) BY <1>1 DEF Init, Progress
<1>3. QED BY <1>1, <1>2, InitType DEF Init, WaveInv, WavesInOrder, SentReachesAll

LEMMA NextWaves == ASSUME WaveInv, [Next]_vars PROVE WaveInv'
<1>1. TypeOK' BY NextType DEF WaveInv
<1>2. CASE Outside BY <1>1, <1>2, OutsideWaves
<1>3. ASSUME NEW d \in Dispatcher,
             TakeJob(d) \/ Pass(d) \/ TemplateUnfit(d) \/ Throw(d) \/ Crash(d)
      PROVE  WaveInv'
  BY <1>1, <1>3, EarlyWaves, LateWaves, InsertWaves DEF Pass
<1>4. CASE UNCHANGED vars
  <2>1. \A d \in Dispatcher : Progress(d)'
    BY <1>1, <1>4, OthersProgress DEF WaveInv, vars, worldVars, passVars, rowVars, Reached
  <2>2. QED BY <1>1, <1>4, <2>1, KeepsWaves DEF vars, docVars, worldVars, rowVars
<1>5. QED BY <1>2, <1>3, <1>4 DEF Next, Outside

\* Whatever dispatchers crash, overlap or lose their lease, each wave goes to
\* the first of those who have not been sent to.
THEOREM WavesKeepOrder == Spec => []WavesInOrder
<1>1. Init => WaveInv BY InitWaves
<1>2. WaveInv /\ [Next]_vars => WaveInv' BY NextWaves
<1>3. WaveInv => WavesInOrder BY DEF WaveInv
<1>4. QED BY <1>1, <1>2, <1>3, PTL DEF Spec

\* A broadcast is concluded as sent only when every recipient that has not
\* opted out has its row.
THEOREM SentMeansAll == Spec => []SentReachesAll
<1>1. Init => WaveInv BY InitWaves
<1>2. WaveInv /\ [Next]_vars => WaveInv' BY NextWaves
<1>3. WaveInv => SentReachesAll BY DEF WaveInv
<1>4. QED BY <1>1, <1>2, <1>3, PTL DEF Spec

-----------------------------------------------------------------------------
(* The cap.                                                                *)

\* As long as passes do not overlap, the one under way knows a cap that the
\* ceiling counts in, and has in hand what still fits under it.
CapInv ==
  overlapped \/
    /\ CapRespected /\ cap <= ceiling
    /\ \A d, e \in Dispatcher : pc[d] \in Passing /\ pc[e] \in Passing => d = e
    /\ \A d \in Dispatcher : pc[d] \in Passing => capAt[d] <= ceiling
    /\ \A d \in Dispatcher :
         pc[d] \in {"wait", "insert"} => Cardinality(rows \cup fresh[d]) <= capAt[d]

LEMMA Counting ==
  ASSUME NEW S \in SUBSET Recipient, NEW T \in SUBSET Recipient
  PROVE  /\ Cardinality(S) \in Nat /\ Cardinality(T) \in Nat /\ Cardinality(S \cup T) \in Nat
         /\ Cardinality(S) <= Cardinality(S \cup T)
         /\ Cardinality(S \cup T) <= Cardinality(S) + Cardinality(T)
<1>1. IsFiniteSet(Recipient)
  BY FS_Interval DEF Recipient
<1>2. IsFiniteSet(S) /\ IsFiniteSet(T) /\ IsFiniteSet(S \cup T)
  BY <1>1, FS_Subset, FS_Union
<1>3. /\ Cardinality(S) \in Nat /\ Cardinality(T) \in Nat /\ Cardinality(S \cup T) \in Nat
      /\ Cardinality(S \cap T) \in Nat
  BY <1>2, FS_CardinalityType, FS_Intersection
<1>4. Cardinality(S) <= Cardinality(S \cup T)
  BY <1>2, FS_Subset
<1>5. Cardinality(S \cup T) = Cardinality(S) + Cardinality(T) - Cardinality(S \cap T)
  BY <1>2, FS_Union
<1>6. QED BY <1>3, <1>4, <1>5

\* A step that makes no row, and after which whoever waits or inserts had what
\* it has in hand before.
LEMMA KeepsCap ==
  ASSUME TypeOK, CapInv, UNCHANGED <<rows, cap, ceiling, overlapped>>,
         \A d \in Dispatcher :
           /\ pc'[d] \in Passing => pc[d] \in Passing /\ capAt'[d] = capAt[d]
           /\ pc'[d] \in {"wait", "insert"} =>
                pc[d] \in {"wait", "insert"} /\ fresh'[d] = fresh[d]
  PROVE  CapInv'
<1>1. CASE overlapped BY <1>1 DEF CapInv
<1>2. CASE ~overlapped
  <2>1. CapRespected' /\ cap' <= ceiling'
    BY <1>2 DEF CapInv, CapRespected
  <2>2. \A d, e \in Dispatcher : pc'[d] \in Passing /\ pc'[e] \in Passing => d = e
    BY <1>2 DEF CapInv
  <2>3. \A d \in Dispatcher : pc'[d] \in Passing => capAt'[d] <= ceiling'
    BY <1>2 DEF CapInv
  <2>4. \A d \in Dispatcher :
          pc'[d] \in {"wait", "insert"} => Cardinality(rows' \cup fresh'[d]) <= capAt'[d]
    BY <1>2 DEF CapInv, Passing
  <2>5. QED BY <1>2, <2>1, <2>2, <2>3, <2>4 DEF CapInv
<1>3. QED BY <1>1, <1>2

\* The ceiling of a resume counts in the new cap, the rows there are, and the cap
\* of the pass that is under way.
LEMMA ResumeCap ==
  ASSUME TypeOK, CapInv, NEW c \in 1 .. Last, WriteResume(c)
  PROVE  CapInv'
<1>1. UNCHANGED <<rows, overlapped, passVars>>
  BY DEF WriteResume, Started, worldVars, rowVars
<1>2. CASE overlapped BY <1>1, <1>2 DEF CapInv
<1>3. CASE ~overlapped /\ status = "paused"
  <2>1. /\ cap' = c /\ c \in InForce(c) /\ Cardinality(rows) \in InForce(c)
        /\ \A n \in InForce(c) : n <= ceiling'
    BY <1>3 DEF WriteResume, InForce
  <2>2. \A d \in Dispatcher : pc[d] \in Passing => capAt[d] <= ceiling'
    BY <2>1 DEF InForce
  <2>3. CapRespected' /\ cap' <= ceiling'
    BY <1>1, <2>1 DEF CapRespected
  <2>4. QED BY <1>1, <1>3, <2>2, <2>3 DEF CapInv, passVars
<1>4. CASE ~overlapped /\ status # "paused"
  BY <1>1, <1>4, KeepsCap DEF WriteResume, docVars, worldVars, passVars
<1>5. QED BY <1>2, <1>3, <1>4

\* The pass takes the cap with the lease, and takes from its page what fits.
LEMMA RoomCap ==
  ASSUME TypeOK, TypeOK', CapInv, NEW d \in Dispatcher, CountRoom(d)
  PROVE  CapInv'
<1> USE DEF WorldFrame, worldVars, rowVars, docVars
<1>1. CASE overlapped BY <1>1 DEF CountRoom, CapInv
<1>2. CASE ~overlapped
  <2>1. /\ UNCHANGED <<rows, cap, ceiling, capAt, overlapped>> /\ pc[d] = "room"
        /\ \A e \in Dispatcher \ {d} : pc'[e] = pc[e] /\ fresh'[e] = fresh[e]
        /\ pc'[d] \in {"wait", "finish"}
    BY DEF CountRoom, Goto, TypeOK
  <2>2. Cardinality(rows) \in Nat /\ capAt[d] \in Nat
    BY Counting DEF TypeOK
  <2>3. CASE pc'[d] = "wait"
    <3>1. fresh'[d] \subseteq Recipient /\ Cardinality(fresh'[d]) \in Nat
      BY Counting DEF TypeOK
    <3>2. Cardinality(fresh'[d]) <= capAt[d] - Cardinality(rows)
      BY <2>1, <2>2, <2>3 DEF CountRoom, FirstOf, Goto, TypeOK
    <3>3. Cardinality(rows \cup fresh'[d]) <= Cardinality(rows) + Cardinality(fresh'[d])
      BY <3>1, Counting DEF TypeOK
    <3>4. Cardinality(rows \cup fresh'[d]) <= capAt[d]
      <4>1. Cardinality(rows \cup fresh'[d]) \in Nat
        BY <3>1, Counting DEF TypeOK
      <4>2. QED BY <2>2, <3>1, <3>2, <3>3, <4>1
    <3>5. QED BY <1>2, <2>1, <3>4 DEF CapInv, CapRespected, Passing
  <2>4. CASE pc'[d] = "finish"
    BY <1>2, <2>1, <2>4 DEF CapInv, CapRespected, Passing
  <2>5. QED BY <2>1, <2>3, <2>4
<1>3. QED BY <1>1, <1>2

LEMMA LeaseCap ==
  ASSUME TypeOK, TypeOK', CapInv, NEW d \in Dispatcher, TakeLease(d)
  PROVE  CapInv'
<1> USE DEF worldVars, rowVars, docVars
<1>1. /\ UNCHANGED <<rows, cap, ceiling, fresh>> /\ pc[d] = "lease"
      /\ \A e \in Dispatcher \ {d} : pc'[e] = pc[e] /\ capAt'[e] = capAt[e]
  BY DEF TakeLease, Goto, TypeOK
<1>2. CASE pc'[d] = "idle" /\ UNCHANGED <<capAt, overlapped>>
  BY <1>1, <1>2, KeepsCap DEF Passing, TypeOK
<1>3. CASE /\ pc'[d] = "page" /\ capAt'[d] = cap
           /\ overlapped' = (overlapped \/ \E e \in Dispatcher : pc[e] \in Passing)
  <2>1. CASE overlapped' BY <2>1 DEF CapInv
  <2>2. CASE ~overlapped'
    <3>1. ~overlapped /\ \A e \in Dispatcher : pc[e] \notin Passing BY <1>3, <2>2
    <3>2. \A e \in Dispatcher : pc'[e] \in Passing => e = d /\ pc'[e] = "page"
      BY <1>1, <1>3, <3>1
    <3>3. QED BY <1>1, <1>3, <3>1, <3>2 DEF CapInv, CapRespected, Passing, TypeOK
  <2>3. QED BY <2>1, <2>2
<1>4. QED
  <2>1. CASE status = "sending" /\ LeaseTakeable
    <3>1. /\ capAt' = [capAt EXCEPT ![d] = cap] /\ Goto(d, "page")
          /\ overlapped' = (overlapped \/ \E e \in Dispatcher : pc[e] \in Passing)
      BY <2>1, Zenon DEF TakeLease
    <3>2. QED BY <3>1, <1>3 DEF Goto, TypeOK
  <2>2. CASE ~(status = "sending" /\ LeaseTakeable)
    BY <2>2, <1>2 DEF TakeLease, Goto, TypeOK
  <2>3. QED BY <2>1, <2>2

LEMMA InsertCap ==
  ASSUME TypeOK, TypeOK', CapInv, NEW d \in Dispatcher, NEW r \in Recipient, Insert(d, r)
  PROVE  CapInv'
<1> USE DEF WorldFrame, worldVars, docVars
<1>1. /\ UNCHANGED <<cap, ceiling, capAt, pc, overlapped>> /\ pc[d] = "insert"
      /\ rows' \cup fresh'[d] = rows \cup fresh[d]
  BY DEF Insert, TypeOK
<1>2. CASE overlapped BY <1>1, <1>2 DEF CapInv
<1>3. CASE ~overlapped
  <2>1. /\ \A e \in Dispatcher : pc[e] \in {"wait", "insert"} => e = d
        /\ Cardinality(rows' \cup fresh'[d]) <= capAt[d] /\ capAt[d] <= ceiling
    BY <1>1, <1>3 DEF CapInv, Passing
  <2>2. /\ Cardinality(rows') <= Cardinality(rows' \cup fresh'[d])
        /\ Cardinality(rows') \in Nat /\ Cardinality(rows' \cup fresh'[d]) \in Nat
    BY Counting DEF TypeOK
  <2>3. Cardinality(rows') <= ceiling
    BY <2>1, <2>2 DEF TypeOK
  <2>4. QED BY <1>1, <1>3, <2>1, <2>3 DEF CapInv, CapRespected
<1>4. QED BY <1>2, <1>3

\* All the other steps of a dispatcher.
LEMMA PassCap ==
  ASSUME TypeOK, TypeOK', CapInv, NEW d \in Dispatcher,
         \/ TakeJob(d) \/ ReadPage(d) \/ Heartbeat(d) \/ CheckBreaker(d) \/ Select(d)
         \/ Wait(d) \/ Drained(d) \/ Inserted(d) \/ Added(d) \/ Finish(d) \/ Release(d)
         \/ WriteFailure(d) \/ (\E r \in Recipient : AddSend(d, r))
         \/ TemplateUnfit(d) \/ Throw(d) \/ Crash(d)
  PROVE  CapInv'
<1> USE DEF WorldFrame, PassFrame, worldVars, rowVars, docVars
<1>1. UNCHANGED <<rows, cap, ceiling, capAt, overlapped>>
  BY DEF TakeJob, ReadPage, Heartbeat, CheckBreaker, Select, Wait, Drained, Inserted, Added,
         Finish, Release, WriteFailure, AddSend, TemplateUnfit, Throw, Crash, Move
<1>2. \A e \in Dispatcher \ {d} : pc'[e] = pc[e] /\ fresh'[e] = fresh[e]
  BY DEF TakeJob, ReadPage, Heartbeat, Onward, CheckBreaker, Select, Wait, Drained, Inserted,
         Added, Finish, Release, WriteFailure, AddSend, TemplateUnfit, Throw, Crash, Move, Goto,
         TypeOK
<1>3. /\ pc'[d] \in Passing => pc[d] \in Passing
      /\ pc'[d] \in {"wait", "insert"} => pc[d] \in {"wait", "insert"} /\ fresh'[d] = fresh[d]
  <2>1. CASE TakeJob(d) \/ ReadPage(d) \/ Heartbeat(d) \/ CheckBreaker(d) \/ Select(d)
    BY <2>1 DEF TakeJob, ReadPage, Heartbeat, Onward, CheckBreaker, Select, Move, Goto, Passing,
                TypeOK
  <2>2. CASE Wait(d) \/ Drained(d) \/ Inserted(d) \/ Added(d)
    BY <2>2 DEF Wait, Onward, Drained, Inserted, Added, Move, Goto, Passing, TypeOK
  <2>3. CASE \/ Finish(d) \/ Release(d) \/ WriteFailure(d) \/ TemplateUnfit(d) \/ Throw(d)
             \/ Crash(d) \/ (\E r \in Recipient : AddSend(d, r))
    BY <2>3 DEF Finish, Release, WriteFailure, AddSend, TemplateUnfit, Throw, Crash, Goto,
                Passing, TypeOK
  <2>4. QED BY <2>1, <2>2, <2>3
<1>4. QED BY <1>1, <1>2, <1>3, KeepsCap DEF TypeOK

LEMMA OutsideCap == ASSUME TypeOK, TypeOK', CapInv, Outside PROVE CapInv'
<1>1. ASSUME NEW c \in 1 .. Last, WriteResume(c) PROVE CapInv'
  BY <1>1, ResumeCap
<1>2. CASE ~\E c \in 1 .. Last : WriteResume(c)
  <2>1. UNCHANGED <<rows, passVars, cap, ceiling, overlapped>>
    BY <1>2 DEF Outside, ClaimScheduled, Rescue, AddDispatchJob, LoseStart, AskResume, OptOut,
       FallSilent, Pause, Cancel, Breaker, Started, rowVars, docVars, worldVars
  <2>2. QED BY <2>1, KeepsCap DEF passVars
<1>3. QED BY <1>1, <1>2

LEMMA NextCap == ASSUME TypeOK, CapInv, [Next]_vars PROVE CapInv'
<1>1. TypeOK' BY NextType
<1>2. CASE Outside BY <1>1, <1>2, OutsideCap
<1>3. ASSUME NEW d \in Dispatcher,
             TakeJob(d) \/ Pass(d) \/ TemplateUnfit(d) \/ Throw(d) \/ Crash(d)
      PROVE  CapInv'
  BY <1>1, <1>3, RoomCap, LeaseCap, InsertCap, PassCap DEF Pass
<1>4. CASE UNCHANGED vars
  BY <1>4, KeepsCap DEF vars, docVars, worldVars, passVars, rowVars
<1>5. QED BY <1>2, <1>3, <1>4 DEF Next, Outside

\* The broadcast never has more rows than its cap allows, through crashes, waves,
\* rescues and resumes that raise or lower it, as long as no pass begins while
\* another is under way.
THEOREM CapIsRespected == Spec => []CapRespected
<1>1. Init => TypeOK /\ CapInv
  <2>1. SUFFICES ASSUME Init PROVE CapInv
    BY InitType
  <2>2. rows = {} /\ cap = FirstCap /\ ceiling = FirstCap BY <2>1 DEF Init
  <2>3. Cardinality(rows) = 0 BY <2>2, FS_EmptySet
  <2>4. QED BY <2>1, <2>2, <2>3 DEF Init, CapInv, CapRespected, Passing
<1>2. TypeOK /\ CapInv /\ [Next]_vars => (TypeOK /\ CapInv)'
  BY NextType, NextCap
<1>3. TypeOK /\ CapInv => CapRespected BY DEF CapInv, CapRespected
<1>4. QED BY <1>1, <1>2, <1>3, PTL DEF Spec
=============================================================================
