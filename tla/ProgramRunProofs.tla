-------------------------- MODULE ProgramRunProofs --------------------------
(***************************************************************************)
(* Proofs about the run of a program: it has the shape of its schema, one  *)
(* decision has mail under way at a time, no wake is slept through, the    *)
(* mail of a decision keeps its gap, and the attempts of the actions       *)
(* are those of accepted mail.  The last four are about executions of a    *)
(* tick that have a worker id each (OwnProcesses): the lease tells them    *)
(* apart by nothing else.                                                  *)
(*                                                                         *)
(* TypeInv bounds what runs and ticks hold. FlightInv says that the marker *)
(* names the decision in flight, in the run and in the copy of the tick    *)
(* that has the lease; that a tick clears it or asks anew only where it    *)
(* has made sure that nothing is in flight; and that a tick at work has a  *)
(* lease that has not run out, so that the others are not.  BookInv says   *)
(* what the run knows of the mail that was accepted: what is counted is    *)
(* covered by the date of the last send, what is not is of the newest      *)
(* decision, and a tick that decides has waited for its gap from there on. *)
(* TallyInv says that the attempts and ladders of an action stand for the  *)
(* decisions that have their count, that no state is past its ladder, and  *)
(* that what a tick drafts of the states is as they are, or a fresh ladder *)
(* after a full one, unless a count came since.                            *)
(***************************************************************************)
EXTENDS ProgramRun, WellFoundedInduction, FiniteSetTheorems, TLAPS

Places == {"idle", "acquire", "resolve", "decide", "cancelSends", "inFlight", "reconcile",
           "mark", "markOnly", "schedule", "fresh", "timing", "recipients", "finish",
           "abandon", "settle", "renew", "insert", "enqueue", "release"}
Stages == {"none", "guard", "facts", "done", "cancel", "accept", "defer", "count", "mark",
           "markOnly", "schedule", "settle"}
RowStatus == {"none", "holdout", "sent", "failed", "suppressed", "cancelled"} \cup InFlight
Marking   == {"mark", "markOnly", "schedule"}

\* Functions from actions among A to their states.
ActsOver(A) == UNION {[D -> ActState] : D \in SUBSET A}
LeaseRec    == [owner : {Process[w] : w \in Ticker} \cup {Nobody}, until : Nat]
FactRec(A)  == [sat : SUBSET A, fit : SUBSET A]
RunRec(A)   ==
  [status : Active \cup {"completed", "exited"}, acts : ActsOver(A), unanswered : Nat,
   stage : 0..2, askSent : BOOLEAN, engagedAt : Nat, lastSent : Nat,
   inFlight : Decision \cup {NoDecision}, lastCounted : Decision \cup {NoDecision},
   nextTick : Nat, wake : Nat, lease : LeaseRec]
Fields      == DOMAIN NewRun
TickRec(A)  ==
  [now : Nat, run : RunRec(A), facts : FactRec(A), next : RunRec(A), set : SUBSET Fields,
   chosen : A \cup {Ask}, attempt : Nat \ {0}, wake : Nat, todo : SUBSET Row, stale : SUBSET Row,
   busy : BOOLEAN, row : Row \cup {NoRow}, sends : BOOLEAN]
Question(A) == [action : A \cup {Ask}, attempt : Nat \ {0}, at : Nat]

Typed ==
  /\ clock \in Nat /\ case \in Cases /\ budget \in [Rare -> Nat]
  /\ facts \in FactRec(Actions) /\ clickAt \in Nat
  /\ run \in RunRec(Actions)
  /\ send \in [Row -> RowStatus] /\ touched \in [Row -> Nat]
  /\ counted \subseteq Row /\ jobs \subseteq Row /\ stage \in [Row -> Stages]
  /\ asked \in Seq(Question(Actions)) /\ Len(asked) <= MaxDecision
  /\ pc \in [Ticker -> Places] /\ tick \in [Ticker -> TickRec(Actions)]

\* A row that exists, or that a tick is about, is of a decision that was made;
\* only an existing row is dispatched.
Named == /\ \A s \in Row : send[s] # "none" => s[1] <= Len(asked)
         /\ \A s \in Row : send[s] = "none" => stage[s] = "none"
         /\ \A w \in Ticker : \A s \in tick[w].todo : s[1] <= Len(asked)
         /\ \A w \in Ticker : pc[w] \in Marking => tick[w].row \in Row /\ tick[w].row[1] <= Len(asked)

\* The run that a tick wants knows every action that its copy knew.
Grown == \A w \in Ticker : DOMAIN tick[w].run.acts \subseteq DOMAIN tick[w].next.acts

TypeInv == Typed /\ Named /\ Grown

\* The guard asks the host only of the program's own actions.
Plain == \A s \in Row : stage[s] \in {"facts", "done"} => ActionOf(s) # Ask

-----------------------------------------------------------------------------
(* What the operators of ProgramRank return.                               *)

\* A set of numbers that is not empty has a least one.
LEMMA LeastNat ==
  ASSUME NEW T \in SUBSET Nat, T # {}
  PROVE  \E t \in T : \A u \in T : t <= u
<1> DEFINE Less == OpToRel(<, Nat)
<1>1. \A u, t \in Nat : <<u, t>> \in Less <=> u < t
  BY DEF OpToRel
<1>2. IsWellFoundedOn(Less, Nat)
  BY NatLessThanWellFounded
<1> HIDE DEF Less
<1>3. PICK t \in T : \A u \in T : ~(<<u, t>> \in Less)
  BY <1>2, WFMin
<1>4. \A u \in T : ~(u < t)
  BY <1>1, <1>3
<1>5. QED
  BY <1>4

\* A stored state, a reopened one and an evaluated one fit the schema.
LEMMA StoredTyped ==
  ASSUME NEW A, NEW acts \in ActsOver(A), NEW a
  PROVE  Stored(acts, a) \in ActState
BY DEF ActsOver, Stored, ActState, freshActionState, Never

LEMMA ReopenedTyped ==
  ASSUME NEW A, NEW acts \in ActsOver(A), NEW now \in Nat, NEW a
  PROVE  Reopened(acts, now, a) \in ActState
<1> DEFINE st == Stored(acts, a)
<1>1. st \in ActState
  BY StoredTyped
<1> HIDE DEF st
<1>2. st.ladder \in Nat /\ st.ladder + 1 \in Nat
  BY <1>1 DEF ActState
<1>3. [st EXCEPT !.attempts = 0, !.ladder = @ + 1, !.status = "pending",
                 !.cooldownUntil = Never] \in ActState
  BY <1>1, <1>2 DEF ActState, Never
<1>4. Reopened(acts, now, a) = st \/ Reopened(acts, now, a)
        = [st EXCEPT !.attempts = 0, !.ladder = @ + 1, !.status = "pending",
                     !.cooldownUntil = Never]
  BY DEF Reopened, st
<1>5. QED
  BY <1>1, <1>3, <1>4

LEMMA EvaluatedTyped ==
  ASSUME NEW p, IsProgram(p), NEW A, NEW acts \in ActsOver(A), NEW facts0,
         NEW now \in Nat, NEW a \in DOMAIN p.actions
  PROVE  Evaluated(p, acts, facts0, now, a) \in ActState
<1>1. Stored(acts, a) \in ActState /\ Reopened(acts, now, a) \in ActState
  BY StoredTyped, ReopenedTyped
<1>2. now + p.actions[a].cooldown \in Nat
  BY DEF IsProgram, ActionDef
<1>3. QED
  BY <1>1, <1>2 DEF Evaluated, ActState

LEMMA WorksTyped ==
  ASSUME NEW p, IsProgram(p), NEW A, NEW acts \in ActsOver(A), NEW facts0, NEW now \in Nat
  PROVE  /\ Works(p, acts, facts0, now) \in ActsOver(DOMAIN p.actions)
         /\ DOMAIN Works(p, acts, facts0, now) = DOMAIN p.actions
<1>1. Works(p, acts, facts0, now) \in [DOMAIN p.actions -> ActState]
  BY EvaluatedTyped DEF Works
<1>2. [DOMAIN p.actions -> ActState] \in {[D -> ActState] : D \in SUBSET DOMAIN p.actions}
  OBVIOUS
<1>3. QED
  BY <1>1, <1>2 DEF ActsOver

\* The end of a cooldown is a date.
LEMMA CooldownTyped ==
  ASSUME NEW A, NEW w \in ActsOver(A), NEW now
  PROVE  earliestCooldown(w, now) \in Nat
<1> DEFINE ends == {w[a].cooldownUntil : a \in DOMAIN w} \ 0..now
<1>1. ends \subseteq Nat
  BY DEF ActsOver, ActState
<1>2. CASE ends = {}
  BY <1>2 DEF earliestCooldown, Never
<1>3. CASE ends # {}
  BY <1>1, <1>3, LeastNat DEF earliestCooldown
<1>4. QED
  BY <1>2, <1>3

\* The order of the candidates has a first one.
LEMMA FirstIsRanked ==
  ASSUME NEW p, IsProgram(p), NEW acts, NEW facts0, NEW now,
         Ranked(p, acts, facts0, now) # {}
  PROVE  /\ First(p, acts, facts0, now) \in Ranked(p, acts, facts0, now)
         /\ First(p, acts, facts0, now) \in DOMAIN p.actions
<1> DEFINE R == Ranked(p, acts, facts0, now)
           Above(a) == {b \in R : Before(p, b, a)}
           Sizes == {Cardinality(Above(a)) : a \in R}
<1>1. R \subseteq DOMAIN p.actions /\ IsFiniteSet(DOMAIN p.actions)
  BY DEF Ranked, IsProgram
<1>2. \A a \in R : IsFiniteSet(Above(a)) /\ Cardinality(Above(a)) \in Nat
  BY <1>1, FS_Subset, FS_CardinalityType
<1>3. \A a \in R : p.actions[a].priority \in Nat /\ p.actions[a].index \in Nat
  BY <1>1 DEF IsProgram, ActionDef
<1>4. \A a, b \in R : a # b => p.actions[a].index # p.actions[b].index
  BY <1>1 DEF IsProgram
<1>5. PICK a \in R : \A b \in R : Cardinality(Above(a)) <= Cardinality(Above(b))
  <2>1. Sizes \in SUBSET Nat /\ Sizes # {}
    BY <1>2
  <2>2. PICK n \in Sizes : \A m \in Sizes : n <= m
    BY <2>1, LeastNat
  <2>3. QED
    BY <2>2
<1>6. \A b \in R \ {a} : Before(p, a, b)
  <2> SUFFICES ASSUME NEW b \in R, b # a, ~Before(p, a, b) PROVE FALSE
    OBVIOUS
  <2>1. Before(p, b, a)
    BY <1>3, <1>4 DEF Before
  <2>2. Above(b) \subseteq Above(a) /\ b \in Above(a) /\ b \notin Above(b)
    BY <1>3, <2>1 DEF Before
  <2>3. Cardinality(Above(b)) <= Cardinality(Above(a)) /\ Cardinality(Above(b)) # Cardinality(Above(a))
    BY <1>2, <2>2, FS_Subset
  <2>4. QED
    BY <1>2, <1>5, <2>3
<1>7. First(p, acts, facts0, now) \in R
  BY <1>5, <1>6 DEF First
<1>8. QED
  BY <1>1, <1>7

LEMMA StageTyped ==
  ASSUME NEW p, NEW n
  PROVE  sunsetStageFor(p, n) \in 0..2
BY DEF sunsetStageFor

\* The minGapDays of an attempt, its own or the policy's, is a time, and so is
\* the gap before it.
LEMMA GapTyped ==
  ASSUME NEW p, IsProgram(p), NEW a \in DOMAIN p.actions \cup {Ask}, NEW i, NEW n, NEW progress
  PROVE  minGap(p, a, i) \in Nat /\ gapMs(p, a, i, n, progress) \in Nat
<1>1. p.gap \in Nat /\ p.slowFactor \in Nat /\ p.fast \in Nat
  BY DEF IsProgram
<1>2. minGap(p, a, i) \in Nat
  <2>1. CASE a # Ask /\ i + 1 \in DOMAIN p.actions[a].attempts
    <3>1. p.actions[a].attempts \in Seq(Nat)
      BY <2>1 DEF IsProgram, ActionDef
    <3>2. p.actions[a].attempts[i + 1] \in Nat
      BY <2>1, <3>1
    <3>3. QED
      BY <1>1, <3>2 DEF minGap
  <2>2. CASE ~(a # Ask /\ i + 1 \in DOMAIN p.actions[a].attempts)
    BY <1>1, <2>2 DEF minGap
  <2>3. QED
    BY <2>1, <2>2
<1>3. Widened(p, n) \in Nat
  BY <1>1 DEF Widened
<1>4. minGap(p, a, i) * Widened(p, n) \in Nat
  BY <1>2, <1>3
<1>5. QED
  BY <1>1, <1>2, <1>4 DEF gapMs

-----------------------------------------------------------------------------
(* Types.                                                                  *)

\* The definition of the run's program is one.
LEMMA TheProgram ==
  ASSUME Typed
  PROVE  /\ IsProgram(P) /\ Actions = DOMAIN P.actions /\ Ask \notin Actions
         /\ P.gap \in Nat \ {0} /\ P.slowFactor \in Nat
         /\ case.to \subseteq Recipient /\ case.arm \in {"treatment", "holdout"}
<1>1. case \in [program : DOMAIN Programs, arm : {"treatment", "holdout"},
                to : (SUBSET Recipient) \ {{}}, by : SUBSET Ticker, bound : [Rare -> Nat]]
  BY ProgramRunAssumption DEF Typed
<1>2. IsProgram(P)
  BY <1>1, ProgramRunAssumption DEF P
<1>3. QED
  BY <1>1, <1>2 DEF Actions, IsProgram

\* Bounds that are numbers.
LEMMA Numbers == LeaseSpan \in Nat /\ Recheck \in Nat /\ MaxDecision \in Nat
BY ProgramRunAssumption

\* The fields of a run, and what makes one.
LEMMA RunFields ==
  ASSUME NEW A, NEW r \in RunRec(A)
  PROVE  /\ DOMAIN r = Fields
         /\ r.status \in Active \cup {"completed", "exited"} /\ r.acts \in ActsOver(A)
         /\ r.unanswered \in Nat /\ r.stage \in 0..2 /\ r.askSent \in BOOLEAN
         /\ r.engagedAt \in Nat /\ r.lastSent \in Nat
         /\ r.inFlight \in Decision \cup {NoDecision}
         /\ r.lastCounted \in Decision \cup {NoDecision}
         /\ r.nextTick \in Nat /\ r.wake \in Nat /\ r.lease \in LeaseRec
BY DEF RunRec, Fields, NewRun

LEMMA NewRunTyped == \A A : NewRun \in RunRec(A)
<1> TAKE A
<1>1. [a \in {} |-> freshActionState] \in ActsOver(A)
  <2>1. [a \in {} |-> freshActionState] \in [{} -> ActState] /\ {} \in SUBSET A
    OBVIOUS
  <2>2. [{} -> ActState] \in {[D -> ActState] : D \in SUBSET A}
    BY <2>1
  <2>3. QED
    BY <2>1, <2>2 DEF ActsOver
<1>2. NoLease \in LeaseRec
  BY DEF NoLease, LeaseRec
<1>3. QED
  BY <1>1, <1>2 DEF NewRun, RunRec, Active, Never, NoDecision

LEMMA NoTickTyped == \A A : NoTick \in TickRec(A)
<1> TAKE A
<1>1. NewRun \in RunRec(A)
  BY NewRunTyped
<1>2. QED
  BY <1>1 DEF NoTick, TickRec, FactRec

\* Single writes to the run.
LEMMA LeaseTyped ==
  ASSUME NEW A, NEW r \in RunRec(A), NEW l \in LeaseRec
  PROVE  [r EXCEPT !.lease = l] \in RunRec(A)
BY DEF RunRec

LEMMA DueTyped ==
  ASSUME NEW A, NEW r \in RunRec(A), NEW n \in Nat
  PROVE  [r EXCEPT !.nextTick = n] \in RunRec(A)
BY DEF RunRec

LEMMA ActsTyped ==
  ASSUME NEW A, NEW r \in RunRec(A), NEW f \in ActsOver(A)
  PROVE  [r EXCEPT !.acts = f] \in RunRec(A)
BY DEF RunRec

\* One more state among the action states, or another one.
LEMMA ActsPut ==
  ASSUME NEW A, NEW f \in ActsOver(A), NEW a \in A, NEW st \in ActState,
         NEW g, g = [b \in DOMAIN f \cup {a} |-> IF b = a THEN st ELSE f[b]]
  PROVE  g \in ActsOver(A)
<1>1. DOMAIN f \subseteq A /\ f \in [DOMAIN f -> ActState]
  BY DEF ActsOver
<1>2. g \in [DOMAIN f \cup {a} -> ActState]
  BY <1>1
<1>3. [DOMAIN f \cup {a} -> ActState] \in {[D -> ActState] : D \in SUBSET A}
  BY <1>1
<1>4. QED
  BY <1>2, <1>3 DEF ActsOver

\* The question that a row asks.
LEMMA AskedTyped ==
  ASSUME Typed, NEW s \in Row, s[1] <= Len(asked)
  PROVE  /\ s[1] \in 1..Len(asked)
         /\ asked[s[1]] \in Question(Actions)
         /\ asked[s[1]].action \in Actions \cup {Ask} /\ asked[s[1]].at \in Nat
<1>1. s[1] \in 1..MaxDecision
  BY DEF Row, Decision
<1>2. s[1] \in 1..Len(asked)
  BY <1>1, Numbers DEF Typed
<1>3. asked[s[1]] \in Question(Actions)
  BY <1>2 DEF Typed
<1>4. QED
  BY <1>2, <1>3 DEF Question

LEMMA LargerNat ==
  ASSUME NEW a \in Nat, NEW b \in Nat
  PROVE  /\ LargerOf({a, b}) = IF a >= b THEN a ELSE b
         /\ LargerOf({a, b}) \in Nat
         /\ Least(a, b) = IF a <= b THEN a ELSE b
         /\ Least(a, b) \in Nat
<1>1. \E x \in {a, b} : \A y \in {a, b} : y <= x
  OBVIOUS
<1>2. \E x \in {a, b} : \A y \in {a, b} : x <= y
  OBVIOUS
<1>3. LargerOf({a, b}) \in {a, b} /\ \A y \in {a, b} : y <= LargerOf({a, b})
  BY <1>1 DEF LargerOf
<1>4. Least(a, b) \in {a, b} /\ \A y \in {a, b} : Least(a, b) <= y
  BY <1>2 DEF Least, SmallerOf
<1>5. QED
  BY <1>3, <1>4

\* A counted run.
LEMMA CountTyped ==
  ASSUME Typed, NEW s \in Row, s[1] <= Len(asked)
  PROVE  /\ Counted(s) \in RunRec(Actions)
         /\ Counted(s).inFlight = run.inFlight /\ Counted(s).lease = run.lease
         /\ Counted(s).wake = run.wake /\ Counted(s).nextTick = run.nextTick
         /\ Counted(s).status = run.status
              \/ (run.status \in Active /\ Counted(s).status \in Active)
         /\ Counted(s).lastCounted = s[1]
         /\ run.lastCounted = s[1] => Counted(s) = run
         /\ run.lastCounted # s[1] => Counted(s).lastSent = LargerOf({run.lastSent, touched[s]})
<1> DEFINE d == s[1]
           a == asked[d].action
           due == a = Ask /\ AskDue(d)
           n == run.unanswered + 1
           l == LargerOf({run.lastSent, touched[s]})
           stg == IF due THEN 2 ELSE sunsetStageFor(P, n)
           st == Stored(run.acts, a)
           more == [st EXCEPT !.attempts = @ + 1]
           acts == [b \in DOMAIN run.acts \cup {a} |-> IF b = a THEN more ELSE run.acts[b]]
           r == [run EXCEPT !.lastCounted = d, !.unanswered = n, !.lastSent = l,
                            !.stage = stg, !.askSent = @ \/ due,
                            !.status = IF due THEN "sunset" ELSE @]
           q == [r EXCEPT !.acts = acts]
<1>1. d \in Decision /\ a \in Actions \cup {Ask}
  BY AskedTyped DEF Row
<1>2. run \in RunRec(Actions) /\ n \in Nat /\ l \in Nat /\ stg \in 0..2
      /\ (run.askSent \/ due) \in BOOLEAN
  <2>1. run \in RunRec(Actions) /\ touched[s] \in Nat
    BY DEF Typed
  <2>2. run.unanswered \in Nat /\ run.lastSent \in Nat
    BY <2>1, RunFields
  <2>3. n \in Nat /\ l \in Nat
    BY <2>1, <2>2, LargerNat
  <2>4. stg \in 0..2
    BY StageTyped
  <2>5. QED
    BY <2>1, <2>3, <2>4
<1>3. due => run.status \in Active
  BY DEF AskDue
<1>4. Counted(s) = IF run.lastCounted = d THEN run ELSE IF a = Ask THEN r ELSE q
  BY DEF Counted, CountAt
<1>5. a # Ask => acts \in ActsOver(Actions)
  <2> SUFFICES ASSUME a # Ask PROVE acts \in ActsOver(Actions)
    OBVIOUS
  <2>1. run.acts \in ActsOver(Actions)
    BY <1>2, RunFields
  <2>2. st \in ActState
    BY <2>1, StoredTyped
  <2> HIDE DEF st
  <2>3. st.attempts \in Nat /\ st.attempts + 1 \in Nat
    BY <2>2 DEF ActState
  <2>4. more \in ActState
    BY <2>2, <2>3 DEF ActState
  <2> HIDE DEF more, a
  <2>5. a \in Actions
    BY <1>1
  <2>6. QED
    BY <2>1, <2>4, <2>5, ActsPut
<1> HIDE DEF d, a, due, n, l, stg, st, more, acts
<1>6. r \in RunRec(Actions) /\ r.inFlight = run.inFlight /\ r.lease = run.lease
      /\ r.wake = run.wake /\ r.nextTick = run.nextTick
      /\ r.status = (IF due THEN "sunset" ELSE run.status) /\ r.lastCounted = d /\ r.lastSent = l
  BY <1>1, <1>2 DEF RunRec, Active
<1> HIDE DEF r
<1>7. a # Ask => q \in RunRec(Actions) /\ q.inFlight = r.inFlight /\ q.lease = r.lease
        /\ q.wake = r.wake /\ q.nextTick = r.nextTick /\ q.status = r.status
        /\ q.lastCounted = r.lastCounted /\ q.lastSent = r.lastSent
  BY <1>5, <1>6 DEF RunRec
<1> HIDE DEF q
<1>8. CASE run.lastCounted = d
  BY <1>2, <1>4, <1>8 DEF d
<1>9. CASE run.lastCounted # d
  BY <1>3, <1>4, <1>6, <1>7, <1>9 DEF d, l, Active
<1>10. QED
  BY <1>8, <1>9

LEMMA ScheduledTyped ==
  ASSUME Typed, NEW s \in Row, s[1] <= Len(asked)
  PROVE  /\ Scheduled(s) \in RunRec(Actions)
         /\ Scheduled(s).inFlight = run.inFlight /\ Scheduled(s).lease = run.lease
         /\ Scheduled(s).wake = run.wake /\ Scheduled(s).status = run.status
         /\ Scheduled(s).lastCounted = run.lastCounted /\ Scheduled(s).lastSent = run.lastSent
<1>1. run \in RunRec(Actions) /\ touched[s] \in Nat
  BY DEF Typed
<1> DEFINE a == asked[s[1]].action
           gap == gapMs(P, a, Stored(run.acts, a).attempts, run.stage, FALSE)
           n == touched[s] + gap
<1>2. n \in Nat
  <2>1. gap \in Nat
    BY AskedTyped, TheProgram, GapTyped
  <2> HIDE DEF gap
  <2>2. QED
    BY <1>1, <2>1
<1>3. [run EXCEPT !.nextTick = n] \in RunRec(Actions)
  BY <1>1, <1>2, DueTyped
<1> HIDE DEF n
<1>4. LET r == [run EXCEPT !.nextTick = n]
      IN  /\ r.inFlight = run.inFlight /\ r.lease = run.lease /\ r.wake = run.wake
          /\ r.status = run.status /\ r.lastCounted = run.lastCounted /\ r.lastSent = run.lastSent
  BY <1>1 DEF RunRec
<1>5. Scheduled(s) = run \/ Scheduled(s) = [run EXCEPT !.nextTick = n]
  BY DEF Scheduled, n
<1>6. QED
  BY <1>1, <1>3, <1>4, <1>5

LEMMA TickFields ==
  ASSUME Typed, NEW w \in Ticker
  PROVE  /\ tick[w] \in TickRec(Actions) /\ pc[w] \in Places
         /\ tick[w].now \in Nat /\ tick[w].run \in RunRec(Actions)
         /\ tick[w].facts \in FactRec(Actions) /\ tick[w].next \in RunRec(Actions)
         /\ tick[w].set \subseteq Fields /\ tick[w].chosen \in Actions \cup {Ask}
         /\ tick[w].attempt \in Nat \ {0}
         /\ tick[w].wake \in Nat /\ tick[w].todo \subseteq Row /\ tick[w].stale \subseteq Row
         /\ tick[w].busy \in BOOLEAN /\ tick[w].row \in Row \cup {NoRow}
         /\ tick[w].sends \in BOOLEAN
BY DEF Typed, TickRec

LEMMA SpendTyped ==
  ASSUME Typed, NEW what \in Rare, Spend(what)
  PROVE  budget' \in [Rare -> Nat]
BY DEF Typed, Spend

\* What a step of a tick has to show.
LEMMA TickMoves ==
  ASSUME TypeInv, NEW w \in Ticker, NEW t \in TickRec(Actions), NEW place \in Places,
         UNCHANGED <<clock, outside, send, touched, stage, asked>>,
         counted' \subseteq Row, jobs' \subseteq Row, budget' \in [Rare -> Nat],
         run' \in RunRec(Actions),
         pc' = [pc EXCEPT ![w] = place], tick' = [tick EXCEPT ![w] = t],
         \A s \in t.todo : s[1] <= Len(asked),
         place \in Marking => t.row \in Row /\ t.row[1] <= Len(asked),
         DOMAIN t.run.acts \subseteq DOMAIN t.next.acts
  PROVE  TypeInv'
<1>1. Actions' = Actions
  BY DEF Actions, P, outside
<1>2. /\ pc' \in [Ticker -> Places] /\ tick' \in [Ticker -> TickRec(Actions)]
      /\ \A v \in Ticker : /\ tick'[v] = IF v = w THEN t ELSE tick[v]
                           /\ pc'[v] = IF v = w THEN place ELSE pc[v]
  BY DEF TypeInv, Typed
<1>3. Typed'
  BY <1>1, <1>2 DEF TypeInv, Typed, outside
<1>4. Named'
  BY <1>2 DEF TypeInv, Named
<1>5. Grown'
  BY <1>2 DEF TypeInv, Grown
<1>6. QED
  BY <1>3, <1>4, <1>5 DEF TypeInv

\* What a step of a dispatch, or one that cancels rows, has to show.
LEMMA RowsMove ==
  ASSUME TypeInv, UNCHANGED <<clock, case, facts, clickAt, asked, tick>>,
         pc' \in [Ticker -> Places],
         \A w \in Ticker : pc'[w] \in Marking => pc[w] \in Marking,
         send' \in [Row -> RowStatus], touched' \in [Row -> Nat],
         stage' \in [Row -> Stages], counted' \subseteq Row, jobs' \subseteq Row,
         budget' \in [Rare -> Nat], run' \in RunRec(Actions),
         \A s \in Row : /\ send'[s] # "none" => send[s] # "none"
                        /\ send'[s] = "none" => stage'[s] = "none"
  PROVE  TypeInv'
<1>1. Actions' = Actions
  BY DEF Actions, P
<1>2. Typed'
  BY <1>1 DEF TypeInv, Typed
<1>3. Named' /\ Grown'
  BY DEF TypeInv, Named, Grown
<1>4. QED
  BY <1>2, <1>3 DEF TypeInv

\* What a step of the world has to show.
LEMMA WorldMoves ==
  ASSUME TypeInv, UNCHANGED <<case, rows, asked, pc, tick>>, clock' \in Nat,
         facts' \in FactRec(Actions), clickAt' \in Nat, budget' \in [Rare -> Nat],
         run' \in RunRec(Actions)
  PROVE  TypeInv'
<1>1. Actions' = Actions
  BY DEF Actions, P
<1>2. Typed'
  BY <1>1 DEF TypeInv, Typed, rows
<1>3. Named' /\ Grown'
  BY DEF TypeInv, Named, Grown, rows
<1>4. QED
  BY <1>2, <1>3 DEF TypeInv

LEMMA RenewedTyped ==
  ASSUME Typed, NEW w \in Ticker
  PROVE  /\ Renewed(w) \in RunRec(Actions)
         /\ Renewed(w).lease = [owner |-> run.lease.owner, until |-> clock + LeaseSpan]
         /\ \A f \in Fields \ {"lease"} : Renewed(w)[f] = run[f]
<1>1. run \in RunRec(Actions) /\ clock \in Nat
  BY DEF Typed
<1>2. run.lease \in LeaseRec
  BY <1>1, RunFields
<1>3. clock + LeaseSpan \in Nat
  BY <1>1, Numbers
<1> DEFINE n == clock + LeaseSpan
<1> HIDE DEF n
<1>4. [run EXCEPT !.lease.until = n] = [run EXCEPT !.lease = [run.lease EXCEPT !.until = n]]
  BY <1>1 DEF RunRec
<1>5. [run.lease EXCEPT !.until = n] = [owner |-> run.lease.owner, until |-> n]
  BY <1>2 DEF LeaseRec
<1>6. [owner |-> run.lease.owner, until |-> n] \in LeaseRec
  BY <1>2, <1>3 DEF LeaseRec, n
<1> DEFINE l == [owner |-> run.lease.owner, until |-> n]
<1>7. Renewed(w) = [run EXCEPT !.lease = l]
  BY <1>4, <1>5 DEF Renewed, n
<1> HIDE DEF l
<1>8. [run EXCEPT !.lease = l] \in RunRec(Actions)
  BY <1>1, <1>6, LeaseTyped DEF l
<1>9. [run EXCEPT !.lease = l].lease = l /\ \A f \in Fields \ {"lease"} : [run EXCEPT !.lease = l][f] = run[f]
  BY <1>1 DEF RunRec, Fields, NewRun
<1>10. QED
  BY <1>7, <1>8, <1>9 DEF l, n

\* The end of a tick.
LEMMA StopTyped ==
  ASSUME TypeInv, NEW w \in Ticker, Stop(w), run' \in RunRec(Actions),
         UNCHANGED <<clock, outside, rows, asked>>, budget' \in [Rare -> Nat]
  PROVE  TypeInv'
<1>1. NoTick \in TickRec(Actions)
  BY NoTickTyped
<1>2. "idle" \in Places /\ "idle" \notin Marking
  BY DEF Places, Marking
<1>3. counted' \subseteq Row /\ jobs' \subseteq Row /\ UNCHANGED <<send, touched, stage>>
  BY DEF TypeInv, Typed, rows
<1>4. pc' = [pc EXCEPT ![w] = "idle"] /\ tick' = [tick EXCEPT ![w] = NoTick]
  BY DEF Stop, Goto
<1>5. NoTick.todo = {} /\ NoTick.run = NoTick.next
  BY DEF NoTick
<1>6. QED
  BY <1>1, <1>2, <1>3, <1>4, <1>5, TickMoves

(* The steps of a tick.                                                     *)

\* A tick goes on with what it has.
LEMMA GoesOn ==
  ASSUME TypeInv, NEW w \in Ticker, NEW place \in Places \ Marking,
         UNCHANGED <<clock, outside, send, touched, stage, asked, tick>>,
         counted' \subseteq Row, jobs' \subseteq Row, budget' \in [Rare -> Nat],
         run' \in RunRec(Actions), pc' = [pc EXCEPT ![w] = place]
  PROVE  TypeInv'
<1>1. tick[w] \in TickRec(Actions) /\ tick' = [tick EXCEPT ![w] = tick[w]]
  BY DEF TypeInv, Typed
<1>2. /\ \A s \in tick[w].todo : s[1] <= Len(asked)
      /\ DOMAIN tick[w].run.acts \subseteq DOMAIN tick[w].next.acts
  BY DEF TypeInv, Named, Grown
<1>3. QED
  BY <1>1, <1>2, TickMoves

LEMMA TypeDue ==
  ASSUME TypeInv, NEW w \in Ticker, Due(w) PROVE TypeInv'
<1>1. budget' \in [Rare -> Nat]
  <2>1. CASE UNCHANGED budget
    BY <2>1 DEF TypeInv, Typed
  <2>2. CASE Spend("ops")
    BY <2>2, SpendTyped DEF TypeInv, Rare
  <2>3. QED
    BY <2>1, <2>2 DEF Due
<1>2. "acquire" \in Places \ Marking
  BY DEF Places, Marking
<1>3. QED
  BY <1>1, <1>2, GoesOn DEF Due, Goto, rows, TypeInv, Typed

LEMMA TypeLose ==
  ASSUME TypeInv, NEW w \in Ticker, LoseLease(w) PROVE TypeInv'
BY StopTyped DEF LoseLease, TickFrame, TypeInv, Typed

LEMMA TypeAcquire ==
  ASSUME TypeInv, NEW w \in Ticker, acquireLease(w) PROVE TypeInv'
<1> DEFINE l == [owner |-> Process[w], until |-> clock + LeaseSpan]
           r == [run EXCEPT !.lease = l]
           t == [NoTick EXCEPT !.now = clock, !.run = r, !.next = r, !.wake = r.wake]
<1>1. CASE run.status \in Active /\ LeaseFree
  <2>1. l \in LeaseRec /\ clock \in Nat
    BY Numbers DEF TypeInv, Typed, LeaseRec
  <2>2. r \in RunRec(Actions)
    BY <2>1, LeaseTyped DEF TypeInv, Typed
  <2>3. run' = r /\ pc' = [pc EXCEPT ![w] = "resolve"] /\ tick' = [tick EXCEPT ![w] = t]
    BY <1>1 DEF acquireLease, SetRun, Goto
  <2> HIDE DEF l, r
  <2>4. r.wake \in Nat
    BY <2>2, RunFields
  <2>5. NoTick \in TickRec(Actions)
    BY NoTickTyped
  <2>6. t \in TickRec(Actions) /\ t.todo = {} /\ t.run = r /\ t.next = r
    BY <2>1, <2>2, <2>4, <2>5 DEF TickRec, NoTick
  <2> HIDE DEF t
  <2>7. "resolve" \in Places /\ "resolve" \notin Marking
    BY DEF Places, Marking
  <2>8. UNCHANGED <<clock, outside, rows, asked, budget>>
    BY DEF acquireLease, TickFrame
  <2>9. QED
    BY <2>2, <2>3, <2>6, <2>7, <2>8, TickMoves DEF rows, TypeInv, Typed
<1>2. CASE ~(run.status \in Active /\ LeaseFree)
  BY <1>2, StopTyped DEF acquireLease, TickFrame, TypeInv, Typed
<1>3. QED
  BY <1>1, <1>2

LEMMA TypeResolve ==
  ASSUME TypeInv, NEW w \in Ticker, Resolve(w) PROVE TypeInv'
<1>1. CASE LoseLease(w)
  BY <1>1, TypeLose
<1>2. CASE ~LoseLease(w)
  <2> DEFINE t == [tick[w] EXCEPT !.facts = facts]
  <2>1. run' = Renewed(w) /\ pc' = [pc EXCEPT ![w] = "decide"]
        /\ tick' = [tick EXCEPT ![w].facts = facts] /\ UNCHANGED <<clock, outside, rows, asked, budget>>
    BY <1>2 DEF Resolve, SetRun, Goto, TickFrame
  <2>2. tick' = [tick EXCEPT ![w] = t]
    BY <2>1 DEF TypeInv, Typed
  <2>3. t \in TickRec(Actions) /\ t.todo = tick[w].todo /\ t.run = tick[w].run
        /\ t.next = tick[w].next
    BY DEF TypeInv, Typed, TickRec
  <2> HIDE DEF t
  <2>4. "decide" \in Places /\ "decide" \notin Marking
    BY DEF Places, Marking
  <2>5. /\ \A s \in t.todo : s[1] <= Len(asked)
        /\ DOMAIN t.run.acts \subseteq DOMAIN t.next.acts
    BY <2>3 DEF TypeInv, Named, Grown
  <2>6. run' \in RunRec(Actions)
    BY <2>1, RenewedTyped DEF TypeInv
  <2>7. QED
    BY <2>1, <2>2, <2>3, <2>4, <2>5, <2>6, TickMoves DEF rows, TypeInv, Typed
<1>3. QED
  BY <1>1, <1>2

LEMMA TypeFails ==
  ASSUME TypeInv, NEW w \in Ticker, HostFails(w) PROVE TypeInv'
<1> DEFINE l == IF Owns(w) THEN NoLease ELSE run.lease
           n == IF run.nextTick <= clock THEN clock + 1 ELSE run.nextTick
<1>1. run \in RunRec(Actions) /\ clock \in Nat
  BY DEF TypeInv, Typed
<1>2. l \in LeaseRec /\ n \in Nat
  BY <1>1, RunFields DEF NoLease, LeaseRec
<1>3. run' = [run EXCEPT !.lease = l, !.nextTick = n]
  BY DEF HostFails, SetRun
<1> HIDE DEF l, n
<1>4. run' \in RunRec(Actions)
  BY <1>1, <1>2, <1>3 DEF RunRec
<1>5. budget' \in [Rare -> Nat]
  BY SpendTyped DEF HostFails, TypeInv, Rare
<1>6. QED
  BY <1>4, <1>5, StopTyped DEF HostFails

LEMMA TypeCrash ==
  ASSUME TypeInv, NEW w \in Ticker, Crash(w) PROVE TypeInv'
<1>1. budget' \in [Rare -> Nat]
  BY SpendTyped DEF Crash, TypeInv, Rare
<1>2. QED
  BY <1>1, StopTyped DEF Crash, TypeInv, Typed

\* What a tick carries once it knows what it wants.
LEMMA WantsKeeps ==
  ASSUME NEW A, NEW t \in TickRec(A), NEW next, NEW set, NEW at
  PROVE  /\ Wants(t, next, set, at).run = t.run /\ Wants(t, next, set, at).todo = t.todo
         /\ Wants(t, next, set, at).row = t.row /\ Wants(t, next, set, at).now = t.now
         /\ Wants(t, next, set, at).wake = t.wake /\ Wants(t, next, set, at).sends = t.sends
         /\ Wants(t, next, set, at).busy = t.busy /\ Wants(t, next, set, at).chosen = t.chosen
<1> DEFINE s == IF at = Never THEN set ELSE set \cup {"nextTick"}
           r == [next EXCEPT !.nextTick = IF at > t.now THEN at ELSE t.now + 1]
           u == [t EXCEPT !.next = r, !.set = s]
<1>1. Wants(t, next, set, at) = u
  BY DEF Wants
<1> HIDE DEF s, r
<1>2. /\ u.run = t.run /\ u.todo = t.todo /\ u.row = t.row /\ u.now = t.now
      /\ u.wake = t.wake /\ u.sends = t.sends /\ u.busy = t.busy /\ u.chosen = t.chosen
      /\ u.next = r /\ u.set = s
  BY DEF TickRec
<1> HIDE DEF u
<1>3. QED
  BY <1>1, <1>2 DEF s, r

LEMMA WantsFields ==
  ASSUME NEW A, NEW t \in TickRec(A), NEW next \in RunRec(A), NEW set, NEW at
  PROVE  /\ Wants(t, next, set, at).next.status = next.status
         /\ Wants(t, next, set, at).next.inFlight = next.inFlight
         /\ Wants(t, next, set, at).next.acts = next.acts
         /\ \A f : f \in Wants(t, next, set, at).set <=> f \in set \/ (f = "nextTick" /\ at # Never)
<1> DEFINE n == IF at > t.now THEN at ELSE t.now + 1
           s == IF at = Never THEN set ELSE set \cup {"nextTick"}
           r == [next EXCEPT !.nextTick = n]
           u == [t EXCEPT !.next = r, !.set = s]
<1>1. Wants(t, next, set, at) = u
  BY DEF Wants
<1>2. \A f : f \in s <=> f \in set \/ (f = "nextTick" /\ at # Never)
  OBVIOUS
<1> HIDE DEF n, s
<1>3. r.status = next.status /\ r.inFlight = next.inFlight /\ r.acts = next.acts
  BY DEF RunRec
<1> HIDE DEF r
<1>4. u.next = r /\ u.set = s
  BY DEF TickRec
<1> HIDE DEF u
<1>5. QED
  BY <1>1, <1>2, <1>3, <1>4

LEMMA WantsTyped ==
  ASSUME NEW A, NEW t \in TickRec(A), NEW next \in RunRec(A), NEW set \in SUBSET Fields,
         NEW at \in Nat, DOMAIN t.run.acts \subseteq DOMAIN next.acts
  PROVE  /\ Wants(t, next, set, at) \in TickRec(A)
         /\ DOMAIN Wants(t, next, set, at).run.acts \subseteq DOMAIN Wants(t, next, set, at).next.acts
<1> DEFINE n == IF at > t.now THEN at ELSE t.now + 1
           s == IF at = Never THEN set ELSE set \cup {"nextTick"}
           r == [next EXCEPT !.nextTick = n]
           u == [t EXCEPT !.next = r, !.set = s]
<1>1. n \in Nat /\ s \in SUBSET Fields
  BY DEF TickRec, Fields, NewRun
<1>2. r \in RunRec(A) /\ r.acts = next.acts
  BY <1>1 DEF RunRec
<1>3. Wants(t, next, set, at) = u
  BY DEF Wants
<1> HIDE DEF n, s, r
<1>4. u \in TickRec(A) /\ u.run = t.run /\ u.next = r
  BY <1>1, <1>2 DEF TickRec
<1> HIDE DEF u
<1>5. QED
  BY <1>2, <1>3, <1>4

LEMMA TypeFinishing ==
  ASSUME TypeInv, NEW w \in Ticker, NEW place \in Places \ Marking,
         NEW next \in RunRec(Actions), NEW set \in SUBSET Fields, NEW at \in Nat,
         DOMAIN tick[w].run.acts \subseteq DOMAIN next.acts,
         pc' = [pc EXCEPT ![w] = place],
         tick' = [tick EXCEPT ![w] = Wants(tick[w], next, set, at)],
         UNCHANGED <<clock, outside, send, touched, stage, asked>>, run' \in RunRec(Actions),
         counted' \subseteq Row, jobs' \subseteq Row, budget' \in [Rare -> Nat]
  PROVE  TypeInv'
<1>1. tick[w] \in TickRec(Actions)
  BY TickFields DEF TypeInv
<1>2. PICK u : u = Wants(tick[w], next, set, at)
  OBVIOUS
<1>3. u \in TickRec(Actions) /\ DOMAIN u.run.acts \subseteq DOMAIN u.next.acts
  BY <1>1, <1>2, WantsTyped
<1>4. u.todo = tick[w].todo
  BY <1>1, <1>2, WantsKeeps
<1>5. \A s \in u.todo : s[1] <= Len(asked)
  BY <1>4 DEF TypeInv, Named
<1>6. QED
  BY <1>2, <1>3, <1>5, TickMoves

\* The copies a tick decides on.
LEMMA EngagedTyped ==
  ASSUME Typed, NEW w \in Ticker
  PROVE  /\ AfterEngagement(w) \in RunRec(Actions)
         /\ AfterEngagement(w).acts = tick[w].run.acts
         /\ AfterEngagement(w).inFlight = tick[w].run.inFlight
         /\ AfterEngagement(w).status = IF engaged(w) THEN "active" ELSE tick[w].run.status
<1>1. tick[w].run \in RunRec(Actions) /\ tick[w].now \in Nat
  BY TickFields
<1> DEFINE r == tick[w].run
           n == tick[w].now
           none == 0
           no == FALSE
           new == "active"
           q == [r EXCEPT !.unanswered = none, !.stage = none, !.askSent = no,
                          !.engagedAt = n, !.status = new]
<1>2. q \in RunRec(Actions) /\ q.acts = r.acts /\ q.inFlight = r.inFlight /\ q.status = "active"
  <2>1. /\ r \in RunRec(Actions) /\ n \in Nat /\ none \in Nat /\ none \in 0..2
        /\ no \in BOOLEAN /\ new \in Active \cup {"completed", "exited"}
    BY <1>1 DEF Active
  <2> HIDE DEF r, n, none, no, new
  <2>2. q \in RunRec(Actions) /\ q.acts = r.acts /\ q.inFlight = r.inFlight /\ q.status = new
    BY <2>1 DEF RunRec
  <2>3. QED
    BY <2>2 DEF new
<1>3. AfterEngagement(w) = IF engaged(w) THEN q ELSE r
  BY DEF AfterEngagement
<1> HIDE DEF q, r
<1>4. QED
  BY <1>1, <1>2, <1>3 DEF r

\* The three ways a decision ends short of asking, and asking.
DecideExits(w) ==
  LET t == tick[w] IN
  Finishing(w, "cancelSends", [t.run EXCEPT !.status = "exited", !.inFlight = NoDecision],
            {"status", "inFlight"}, Never)
DecideEnds(w) ==
  LET t == tick[w]  works == Works(P, t.run.acts, t.facts, t.now) IN
  Finishing(w, "finish", [t.run EXCEPT !.status = "completed", !.acts = works],
            {"acts", "status"}, Never)
DecidedRun(w) ==
  [AfterEngagement(w) EXCEPT !.acts = Works(P, tick[w].run.acts, tick[w].facts, tick[w].now)]
DecidedSet(w) == IF engaged(w) THEN {"acts"} \cup Engagement ELSE {"acts"}
DecideSleeps(w) ==
  \E at \in Nat : Silent(w, DecidedRun(w), DecidedSet(w), at) /\ at # Never
DecideAsks(w) ==
  LET t == tick[w]  r == DecidedRun(w) IN
  \E a \in Actions \cup {Ask}, n \in Nat \ {0} :
    /\ a # Ask => a \in Ranked(P, t.run.acts, t.facts, t.now)
    /\ tick' = [tick EXCEPT ![w].next = r, ![w].set = DecidedSet(w), ![w].chosen = a,
                            ![w].attempt = n]
    /\ Goto(w, IF t.run.inFlight = NoDecision THEN "fresh" ELSE "inFlight")
    /\ UNCHANGED <<run, revived, overtaken>> /\ TickFrame

LEMMA DecidedTyped ==
  ASSUME Typed, NEW w \in Ticker
  PROVE  /\ DecidedRun(w) \in RunRec(Actions)
         /\ DOMAIN DecidedRun(w).acts = Actions
         /\ DecidedRun(w).acts = Works(P, tick[w].run.acts, tick[w].facts, tick[w].now)
         /\ DecidedRun(w).inFlight = tick[w].run.inFlight
         /\ DecidedRun(w).status = IF engaged(w) THEN "active" ELSE tick[w].run.status
         /\ DecidedSet(w) \in SUBSET Fields
         /\ DecidedSet(w) \cap {"inFlight", "nextTick", "lastSent", "lastCounted"} = {}
<1> DEFINE works == Works(P, tick[w].run.acts, tick[w].facts, tick[w].now)
           e == AfterEngagement(w)
<1>1. works \in ActsOver(Actions) /\ DOMAIN works = Actions
  <2>1. tick[w].run.acts \in ActsOver(Actions) /\ tick[w].now \in Nat
    BY TickFields, RunFields
  <2>2. QED
    BY <2>1, TheProgram, WorksTyped
<1>2. e \in RunRec(Actions)
  BY EngagedTyped
<1>3. e.inFlight = tick[w].run.inFlight
      /\ e.status = IF engaged(w) THEN "active" ELSE tick[w].run.status
  BY EngagedTyped
<1> HIDE DEF works, e
<1>4. DecidedRun(w) = [e EXCEPT !.acts = works]
  BY DEF DecidedRun, works, e
<1>5. [e EXCEPT !.acts = works] \in RunRec(Actions)
      /\ [e EXCEPT !.acts = works].acts = works
      /\ [e EXCEPT !.acts = works].inFlight = e.inFlight
      /\ [e EXCEPT !.acts = works].status = e.status
  BY <1>1, <1>2 DEF RunRec
<1>6. DecidedSet(w) \in SUBSET Fields
      /\ DecidedSet(w) \cap {"inFlight", "nextTick", "lastSent", "lastCounted"} = {}
  BY DEF DecidedSet, Engagement, Fields, NewRun
<1>7. QED
  BY <1>1, <1>3, <1>4, <1>5, <1>6 DEF works

LEMMA DecideWays ==
  ASSUME Typed, NEW w \in Ticker, Decide(w)
  PROVE  /\ pc[w] = "decide"
         /\ DecideExits(w) \/ DecideEnds(w) \/ DecideSleeps(w) \/ DecideAsks(w)
<1> DEFINE t == tick[w]
           acts == t.run.acts
           r == DecidedRun(w)
           cool == earliestCooldown(Works(P, acts, t.facts, t.now), t.now)
<1>0. pc[w] = "decide"
  BY DEF Decide
<1>1. P.gap \in Nat \ {0} /\ P.slowFactor \in Nat /\ IsProgram(P) /\ Actions = DOMAIN P.actions
  BY TheProgram
<1>2. t.now \in Nat /\ acts \in ActsOver(Actions)
  BY TickFields, RunFields
<1>3. Works(P, acts, t.facts, t.now) \in ActsOver(Actions)
  BY <1>1, <1>2, WorksTyped
<1>4. cool \in Nat
  BY <1>3, CooldownTyped
<1>5. GapEnd(w) \in Nat /\ GapEnd(w) # Never
  BY <1>1, <1>2 DEF GapEnd, Never
<1>6. P.gap * P.slowFactor \in Nat /\ P.gap * P.slowFactor # 0
  BY <1>1 DEF IsProgram
<1>7. t.now + P.gap * P.slowFactor \in Nat /\ t.now + P.gap * P.slowFactor # Never
  <2> DEFINE x == P.gap * P.slowFactor
  <2> HIDE DEF x
  <2>1. x \in Nat /\ x # 0
    BY <1>6 DEF x
  <2>2. t.now + x \in Nat /\ t.now + x # Never
    BY <1>2, <2>1 DEF Never
  <2>3. QED
    BY <2>2 DEF x
<1> DEFINE till == IF cool = Never THEN GapEnd(w) ELSE Least(GapEnd(w), cool)
<1>8. till \in Nat /\ till # Never
  BY <1>4, <1>5, LargerNat
<1>9. CASE exitEvent
  BY <1>9 DEF Decide, DecideExits
<1>10. CASE ~exitEvent /\ Done(P, acts, t.facts, t.now)
  BY <1>10 DEF Decide, DecideEnds
<1>11. CASE ~exitEvent /\ ~Done(P, acts, t.facts, t.now)
  <2>1. CASE r.status = "sunset"
    <3>1. Silent(w, r, DecidedSet(w), t.now + P.gap * P.slowFactor)
      BY <1>11, <2>1 DEF Decide, DecidedRun, DecidedSet
    <3>2. QED
      BY <1>0, <1>7, <3>1 DEF DecideSleeps
  <2>2. CASE r.status # "sunset" /\ Ranked(P, acts, t.facts, t.now) = {}
    <3>1. Silent(w, r, DecidedSet(w), till)
      BY <1>11, <2>2 DEF Decide, DecidedRun, DecidedSet
    <3>2. QED
      BY <1>0, <1>8, <3>1 DEF DecideSleeps
  <2>3. CASE r.status # "sunset" /\ Ranked(P, acts, t.facts, t.now) # {}
    <3> DEFINE a == IF Asking(r) THEN Ask ELSE First(P, acts, t.facts, t.now)
           n == Stored(Works(P, acts, t.facts, t.now), a).attempts + 1
    <3>1. a \in Actions \cup {Ask} /\ (a # Ask => a \in Ranked(P, acts, t.facts, t.now))
      BY <1>1, <2>3, FirstIsRanked
    <3>2. n \in Nat \ {0}
      <4>1. Stored(Works(P, acts, t.facts, t.now), a).attempts \in Nat
        BY <1>3, StoredTyped DEF ActState
      <4>2. QED
        BY <4>1
    <3>3. /\ tick' = [tick EXCEPT ![w].next = r, ![w].set = DecidedSet(w), ![w].chosen = a,
                                  ![w].attempt = n]
          /\ Goto(w, IF t.run.inFlight = NoDecision THEN "fresh" ELSE "inFlight")
          /\ UNCHANGED <<run, revived, overtaken>> /\ TickFrame
      BY <1>11, <2>3 DEF Decide, DecidedRun, DecidedSet
    <3> HIDE DEF a, n
    <3>4. QED
      BY <1>0, <3>1, <3>2, <3>3 DEF DecideAsks
  <2>4. QED
    BY <2>1, <2>2, <2>3
<1>12. QED
  BY <1>0, <1>9, <1>10, <1>11

LEMMA TypeDecide ==
  ASSUME TypeInv, NEW w \in Ticker, Decide(w) PROVE TypeInv'
<1> DEFINE t == tick[w]
<1>0. /\ t \in TickRec(Actions) /\ t.run \in RunRec(Actions) /\ t.now \in Nat
      /\ DOMAIN t.run.acts \subseteq Actions /\ t.run.acts \in ActsOver(Actions)
      /\ tick[w].todo \subseteq Row
  BY TickFields, RunFields DEF TypeInv, ActsOver
<1>1. Typed
  BY DEF TypeInv
<1>2. CASE DecideExits(w)
  <2> DEFINE next == [t.run EXCEPT !.status = "exited", !.inFlight = NoDecision]
             set == {"status", "inFlight"}
  <2>1. next \in RunRec(Actions) /\ next.acts = t.run.acts
    <3> HIDE DEF t
    <3>1. PICK r \in RunRec(Actions) : r = t.run
      BY <1>0
    <3>2. [r EXCEPT !.status = "exited", !.inFlight = NoDecision] \in RunRec(Actions)
          /\ [r EXCEPT !.status = "exited", !.inFlight = NoDecision].acts = r.acts
      BY DEF RunRec
    <3>3. QED
      BY <3>1, <3>2
  <2>2. set \in SUBSET Fields /\ Never \in Nat /\ "cancelSends" \in Places \ Marking
    BY DEF Fields, NewRun, Never, Places, Marking
  <2>3. /\ pc' = [pc EXCEPT ![w] = "cancelSends"]
        /\ tick' = [tick EXCEPT ![w] = Wants(tick[w], next, set, Never)]
        /\ UNCHANGED <<clock, outside, rows, asked, budget, run>>
    BY <1>2 DEF DecideExits, Finishing, Goto, TickFrame
  <2> HIDE DEF next, set
  <2>4. QED
    BY <1>1, <2>1, <2>2, <2>3, TypeFinishing DEF rows, Typed
<1>3. CASE DecideEnds(w)
  <2> DEFINE works == Works(P, t.run.acts, t.facts, t.now)
             next == [t.run EXCEPT !.status = "completed", !.acts = works]
             set == {"acts", "status"}
  <2>0. works \in ActsOver(Actions) /\ DOMAIN works = Actions
    BY <1>0, <1>1, TheProgram, WorksTyped
  <2>1. next \in RunRec(Actions) /\ next.acts = works
    <3> HIDE DEF t, works
    <3>1. PICK r \in RunRec(Actions) : r = t.run
      BY <1>0
    <3>2. [r EXCEPT !.status = "completed", !.acts = works] \in RunRec(Actions)
          /\ [r EXCEPT !.status = "completed", !.acts = works].acts = works
      BY <2>0 DEF RunRec
    <3>3. QED
      BY <3>1, <3>2
  <2>2. set \in SUBSET Fields /\ Never \in Nat /\ "finish" \in Places \ Marking
    BY DEF Fields, NewRun, Never, Places, Marking
  <2>3. /\ pc' = [pc EXCEPT ![w] = "finish"]
        /\ tick' = [tick EXCEPT ![w] = Wants(tick[w], next, set, Never)]
        /\ UNCHANGED <<clock, outside, rows, asked, budget, run>>
    BY <1>3 DEF DecideEnds, Finishing, Goto, TickFrame
  <2>4. DOMAIN tick[w].run.acts \subseteq DOMAIN next.acts
    BY <1>0, <2>0, <2>1
  <2> HIDE DEF next, set, works
  <2>5. QED
    BY <1>1, <2>1, <2>2, <2>3, <2>4, TypeFinishing DEF rows, Typed
<1>4. DOMAIN tick[w].run.acts \subseteq DOMAIN DecidedRun(w).acts
  BY <1>0, <1>1, DecidedTyped
<1>5. CASE DecideSleeps(w)
  <2>1. PICK at \in Nat : Silent(w, DecidedRun(w), DecidedSet(w), at)
    BY <1>5 DEF DecideSleeps
  <2>2. "finish" \in Places \ Marking
    BY DEF Places, Marking
  <2>3. /\ pc' = [pc EXCEPT ![w] = "finish"]
        /\ tick' = [tick EXCEPT ![w] = Wants(tick[w], DecidedRun(w), DecidedSet(w), at)]
        /\ UNCHANGED <<clock, outside, rows, asked, budget, run>>
    BY <2>1 DEF Silent, Finishing, Goto, TickFrame
  <2>4. DecidedRun(w) \in RunRec(Actions) /\ DecidedSet(w) \in SUBSET Fields
    BY <1>1, DecidedTyped
  <2>5. QED
    BY <1>1, <1>4, <2>2, <2>3, <2>4, TypeFinishing DEF rows, Typed
<1>6. CASE DecideAsks(w)
  <2> DEFINE place == IF t.run.inFlight = NoDecision THEN "fresh" ELSE "inFlight"
             r == DecidedRun(w)
             set == DecidedSet(w)
  <2>1. PICK a \in Actions \cup {Ask}, n \in Nat \ {0} :
          tick' = [tick EXCEPT ![w].next = r, ![w].set = set, ![w].chosen = a, ![w].attempt = n]
    BY <1>6 DEF DecideAsks
  <2>2. place \in Places \ Marking /\ pc' = [pc EXCEPT ![w] = place]
        /\ UNCHANGED <<clock, outside, rows, asked, budget, run>>
    BY <1>6 DEF DecideAsks, Places, Marking, Goto, TickFrame
  <2>3. r \in RunRec(Actions) /\ set \in SUBSET Fields
    BY <1>1, DecidedTyped
  <2> DEFINE u == [tick[w] EXCEPT !.next = r, !.set = set, !.chosen = a, !.attempt = n]
  <2> HIDE DEF r, set
  <2>4. tick' = [tick EXCEPT ![w] = u]
    BY <1>1, <2>1 DEF Typed
  <2>5. u \in TickRec(Actions) /\ u.todo = tick[w].todo /\ u.run = tick[w].run /\ u.next = r
    BY <1>0, <2>3 DEF TickRec
  <2> HIDE DEF u, place
  <2>6. \A s \in u.todo : s[1] <= Len(asked)
    BY <2>5 DEF TypeInv, Named
  <2>7. DOMAIN u.run.acts \subseteq DOMAIN u.next.acts
    BY <1>4, <2>5 DEF r
  <2>8. QED
    BY <1>1, <2>2, <2>4, <2>5, <2>6, <2>7, TickMoves DEF rows, Typed
<1>7. QED
  BY <1>1, <1>2, <1>3, <1>5, <1>6, DecideWays

LEMMA CancelRowsTyped ==
  ASSUME Typed, CancelRows
  PROVE  /\ send' \in [Row -> RowStatus] /\ touched' \in [Row -> Nat]
         /\ \A s \in Row : send'[s] = Cancelled(s) /\ (send'[s] = "none" <=> send[s] = "none")
BY DEF Typed, CancelRows, Cancelled, RowStatus, InFlight

LEMMA TypeCancelSends ==
  ASSUME TypeInv, NEW w \in Ticker, CancelSends(w) PROVE TypeInv'
<1>1. Typed
  BY DEF TypeInv
<1>2. /\ send' \in [Row -> RowStatus] /\ touched' \in [Row -> Nat]
      /\ \A s \in Row : send'[s] = "none" <=> send[s] = "none"
  BY <1>1, CancelRowsTyped DEF CancelSends
<1>3. pc' = [pc EXCEPT ![w] = "finish"]
      /\ UNCHANGED <<run, tick, clock, outside, asked, budget, counted, jobs, stage>>
  BY DEF CancelSends, Goto
<1>4. pc' \in [Ticker -> Places] /\ \A v \in Ticker : pc'[v] \in Marking => pc[v] \in Marking
  BY <1>1, <1>3 DEF Typed, Places, Marking
<1>5. \A s \in Row : send'[s] = "none" => stage'[s] = "none"
  BY <1>2, <1>3 DEF TypeInv, Named
<1>6. QED
  BY <1>1, <1>2, <1>3, <1>4, <1>5, RowsMove DEF outside, Typed

LEMMA TypeRead ==
  ASSUME TypeInv, NEW w \in Ticker, ReadInFlight(w) PROVE TypeInv'
<1> DEFINE t == tick[w]
           read == RowsOf(t.run.inFlight)
           todo == {s \in read : send[s] = "sent" /\ s \notin counted}
           busy == \E s \in read : sendIsInFlight(s, t.now)
           stale == {s \in read : send[s] = "queued" /\ t.now - touched[s] >= Recheck}
           u == [tick[w] EXCEPT !.todo = todo, !.busy = busy, !.stale = stale]
<1>1. Typed /\ tick[w] \in TickRec(Actions)
  BY TickFields DEF TypeInv
<1>2. /\ pc' = [pc EXCEPT ![w] = "reconcile"]
      /\ tick' = [tick EXCEPT ![w].todo = todo, ![w].busy = busy, ![w].stale = stale]
      /\ UNCHANGED <<clock, outside, rows, asked, budget, run>>
  BY DEF ReadInFlight, Goto, TickFrame
<1>3. todo \in SUBSET Row /\ stale \in SUBSET Row /\ busy \in BOOLEAN
      /\ \A s \in todo : s[1] <= Len(asked)
  BY DEF RowsOf, TypeInv, Named
<1> HIDE DEF todo, busy, stale
<1>4. tick' = [tick EXCEPT ![w] = u]
  BY <1>1, <1>2 DEF Typed
<1>5. u \in TickRec(Actions) /\ u.todo = todo /\ u.run = tick[w].run /\ u.next = tick[w].next
  BY <1>1, <1>3 DEF TickRec
<1> HIDE DEF u
<1>6. DOMAIN u.run.acts \subseteq DOMAIN u.next.acts
  BY <1>5 DEF TypeInv, Grown
<1>7. "reconcile" \in Places /\ "reconcile" \notin Marking
  BY DEF Places, Marking
<1>8. QED
  BY <1>1, <1>2, <1>3, <1>4, <1>5, <1>6, <1>7, TickMoves DEF rows, Typed

LEMMA TypeReconcile ==
  ASSUME TypeInv, NEW w \in Ticker, Reconcile(w) PROVE TypeInv'
<1>1. Typed /\ tick[w] \in TickRec(Actions) /\ tick[w].todo \subseteq Row
  BY TickFields DEF TypeInv
<1>2. PICK s \in tick[w].todo :
        /\ run' = Counted(s)
        /\ tick' = [tick EXCEPT ![w].todo = @ \ {s}, ![w].row = s]
        /\ Goto(w, IF run.lastCounted = s[1] THEN "markOnly" ELSE "mark")
  BY DEF Reconcile, SetRun
<1> DEFINE place == IF run.lastCounted = s[1] THEN "markOnly" ELSE "mark"
           left == tick[w].todo \ {s}
           u == [tick[w] EXCEPT !.todo = left, !.row = s]
<1>3. s \in Row /\ s[1] <= Len(asked)
  BY <1>1 DEF TypeInv, Named
<1>4. run' \in RunRec(Actions)
  BY <1>1, <1>2, <1>3, CountTyped
<1>5. pc' = [pc EXCEPT ![w] = place] /\ place \in Places
  BY <1>2 DEF Goto, Places
<1>6. left \in SUBSET Row /\ \A x \in left : x[1] <= Len(asked)
  BY <1>1 DEF TypeInv, Named
<1>7. tick' = [tick EXCEPT ![w] = u]
  BY <1>1, <1>2 DEF Typed
<1> HIDE DEF left, place
<1>8. u \in TickRec(Actions) /\ u.todo = left /\ u.run = tick[w].run /\ u.next = tick[w].next
      /\ u.row = s
  BY <1>1, <1>3, <1>6 DEF TickRec
<1> HIDE DEF u
<1>9. DOMAIN u.run.acts \subseteq DOMAIN u.next.acts
  BY <1>8 DEF TypeInv, Grown
<1>10. UNCHANGED <<clock, outside, rows, asked, budget>>
  BY DEF Reconcile, TickFrame
<1>11. QED
  BY <1>1, <1>3, <1>4, <1>5, <1>6, <1>7, <1>8, <1>9, <1>10, TickMoves DEF rows, Typed

LEMMA TypeMark ==
  ASSUME TypeInv, NEW w \in Ticker, ReconcileMark(w) PROVE TypeInv'
<1> DEFINE place == IF pc[w] = "mark" THEN "schedule" ELSE "reconcile"
<1>1. Typed /\ tick[w] \in TickRec(Actions) /\ tick[w].row \in Row /\ tick[w].row[1] <= Len(asked)
  BY TickFields DEF TypeInv, ReconcileMark, Marking, Named
<1>2. /\ pc' = [pc EXCEPT ![w] = place] /\ place \in Places
      /\ counted' = counted \cup {tick[w].row}
      /\ UNCHANGED <<clock, outside, run, send, touched, jobs, stage, asked, tick, budget>>
  BY DEF ReconcileMark, Goto, Places
<1>3. tick' = [tick EXCEPT ![w] = tick[w]] /\ counted' \subseteq Row
  BY <1>1, <1>2 DEF Typed
<1>4. /\ \A s \in tick[w].todo : s[1] <= Len(asked)
      /\ DOMAIN tick[w].run.acts \subseteq DOMAIN tick[w].next.acts
  BY DEF TypeInv, Named, Grown
<1> HIDE DEF place
<1>5. QED
  BY <1>1, <1>2, <1>3, <1>4, TickMoves DEF Typed

LEMMA TypeSchedule ==
  ASSUME TypeInv, NEW w \in Ticker, ReconcileSchedule(w) PROVE TypeInv'
<1>1. Typed /\ tick[w].row \in Row /\ tick[w].row[1] <= Len(asked)
  BY DEF TypeInv, ReconcileSchedule, Marking, Named
<1>2. run' \in RunRec(Actions)
  BY <1>1, ScheduledTyped DEF ReconcileSchedule, SetRun
<1>3. "reconcile" \in Places \ Marking
  BY DEF Places, Marking
<1>4. QED
  BY <1>1, <1>2, <1>3, GoesOn DEF ReconcileSchedule, TickFrame, Goto, rows, Typed

LEMMA TypeReconciled ==
  ASSUME TypeInv, NEW w \in Ticker, Reconciled(w) PROVE TypeInv'
<1> DEFINE t == tick[w]
           clear == [t.next EXCEPT !.inFlight = NoDecision]
           set == t.set \cup {"inFlight"}
<1>1. Typed /\ t \in TickRec(Actions) /\ t.next \in RunRec(Actions) /\ t.now \in Nat
      /\ t.set \in SUBSET Fields /\ t.stale \subseteq Row
      /\ DOMAIN t.run.acts \subseteq DOMAIN t.next.acts
  BY TickFields DEF TypeInv, Grown
<1>2. clear \in RunRec(Actions) /\ clear.acts = t.next.acts
  <2> HIDE DEF t
  <2>1. PICK r \in RunRec(Actions) : r = t.next
    BY <1>1
  <2>2. [r EXCEPT !.inFlight = NoDecision] \in RunRec(Actions)
        /\ [r EXCEPT !.inFlight = NoDecision].acts = r.acts
    BY DEF RunRec
  <2>3. QED
    BY <2>1, <2>2
<1>3. set \in SUBSET Fields
  BY <1>1 DEF Fields, NewRun
<1>4. "finish" \in Places \ Marking /\ "fresh" \in Places \ Marking
  BY DEF Places, Marking
<1>5. t.now + Recheck \in Nat /\ t.now + 1 \in Nat
  BY <1>1, Numbers
<1>6. CASE /\ jobs' = jobs \cup t.stale
           /\ Goto(w, "finish") /\ tick' = [tick EXCEPT ![w] = Wants(t, t.next, t.set, t.now + Recheck)]
           /\ UNCHANGED <<clock, outside, run, revived, overtaken, send, touched, counted, stage, asked, budget>>
  <2>1. jobs' \subseteq Row
    BY <1>1, <1>6 DEF Typed
  <2> DEFINE next == t.next
             at == t.now + Recheck
             s == t.set
  <2>2. /\ next \in RunRec(Actions) /\ at \in Nat /\ s \in SUBSET Fields
        /\ DOMAIN tick[w].run.acts \subseteq DOMAIN next.acts
        /\ tick' = [tick EXCEPT ![w] = Wants(tick[w], next, s, at)]
    BY <1>1, <1>5, <1>6
  <2> HIDE DEF next, at, s
  <2>3. QED
    BY <1>1, <1>4, <1>6, <2>1, <2>2, TypeFinishing DEF Goto, Typed
<1>7. CASE Silent(w, clear, set, t.now + 1)
  <2> DEFINE at == t.now + 1
  <2>1. /\ pc' = [pc EXCEPT ![w] = "finish"] /\ at \in Nat
        /\ tick' = [tick EXCEPT ![w] = Wants(tick[w], clear, set, at)]
        /\ UNCHANGED <<clock, outside, rows, asked, budget, run>>
    BY <1>5, <1>7 DEF Silent, Finishing, Goto, TickFrame
  <2>2. DOMAIN tick[w].run.acts \subseteq DOMAIN clear.acts
    BY <1>1, <1>2
  <2> HIDE DEF at, clear, set
  <2>3. QED
    BY <1>1, <1>2, <1>3, <1>4, <2>1, <2>2, TypeFinishing DEF rows, Typed
<1>8. CASE /\ Goto(w, "fresh")
           /\ tick' = [tick EXCEPT ![w].next = clear, ![w].set = set]
           /\ UNCHANGED <<run, revived, overtaken>> /\ TickFrame
  <2> DEFINE u == [tick[w] EXCEPT !.next = clear, !.set = set]
  <2> HIDE DEF clear, set
  <2>1. tick' = [tick EXCEPT ![w] = u]
    BY <1>1, <1>8 DEF Typed
  <2>2. u \in TickRec(Actions) /\ u.todo = tick[w].todo /\ u.run = tick[w].run /\ u.next = clear
    BY <1>1, <1>2, <1>3 DEF TickRec
  <2> HIDE DEF u
  <2>3. \A s \in u.todo : s[1] <= Len(asked)
    BY <2>2 DEF TypeInv, Named
  <2>4. DOMAIN u.run.acts \subseteq DOMAIN u.next.acts
    BY <1>1, <1>2, <2>2
  <2>5. QED
    BY <1>1, <1>4, <1>8, <2>1, <2>2, <2>3, <2>4, TickMoves DEF Goto, TickFrame, rows, Typed
<1>9. QED
  BY <1>6, <1>7, <1>8 DEF Reconciled

\* A tick ends with what it wanted, and sleeps.
LEMMA TypeSleepsOn ==
  ASSUME TypeInv, NEW w \in Ticker, NEW at \in Nat,
         pc' = [pc EXCEPT ![w] = "finish"],
         tick' = [tick EXCEPT ![w] = Wants(tick[w], tick[w].next, tick[w].set, at)],
         UNCHANGED <<clock, outside, rows, asked>>, run' \in RunRec(Actions),
         budget' \in [Rare -> Nat]
  PROVE  TypeInv'
<1> DEFINE next == tick[w].next
           set == tick[w].set
<1>1. /\ next \in RunRec(Actions) /\ set \in SUBSET Fields
      /\ DOMAIN tick[w].run.acts \subseteq DOMAIN next.acts
      /\ tick' = [tick EXCEPT ![w] = Wants(tick[w], next, set, at)]
  BY TickFields DEF TypeInv, Grown
<1>2. "finish" \in Places \ Marking
  BY DEF Places, Marking
<1> HIDE DEF next, set
<1>3. QED
  BY <1>1, <1>2, TypeFinishing DEF rows, TypeInv, Typed

LEMMA TypeFresh ==
  ASSUME TypeInv, NEW w \in Ticker, Fresh(w) PROVE TypeInv'
<1>1. Typed /\ tick[w].now + 1 \in Nat
  BY TickFields DEF TypeInv
<1>2. CASE LoseLease(w)
  BY <1>2, TypeLose
<1>3. CASE Silent(w, tick[w].next, tick[w].set, tick[w].now + 1)
  <2> DEFINE at == tick[w].now + 1
  <2>1. /\ at \in Nat /\ pc' = [pc EXCEPT ![w] = "finish"]
        /\ tick' = [tick EXCEPT ![w] = Wants(tick[w], tick[w].next, tick[w].set, at)]
        /\ UNCHANGED <<clock, outside, rows, asked, budget, run>>
    BY <1>1, <1>3 DEF Silent, Finishing, Goto, TickFrame
  <2> HIDE DEF at
  <2>2. QED
    BY <1>1, <2>1, TypeSleepsOn DEF Typed
<1>4. CASE Goto(w, "timing") /\ UNCHANGED <<run, revived, overtaken, tick>> /\ TickFrame
  <2>1. "timing" \in Places \ Marking
    BY DEF Places, Marking
  <2>2. QED
    BY <1>1, <1>4, <2>1, GoesOn DEF Goto, TickFrame, rows, Typed
<1>5. QED
  BY <1>2, <1>3, <1>4 DEF Fresh

LEMMA EligibleTyped ==
  ASSUME Typed, NEW w \in Ticker
  PROVE  EligibleAt(tick[w]) \in Nat
<1> DEFINE t == tick[w]
           gap == gapMs(P, t.chosen, t.attempt - 1, t.next.stage, Progress(t))
<1>1. gap \in Nat
  BY TickFields, TheProgram, GapTyped
<1>2. t.run.lastSent \in Nat
  BY TickFields, RunFields
<1>3. EligibleAt(t) = IF t.run.lastSent = Never THEN Never ELSE t.run.lastSent + gap
  BY DEF EligibleAt
<1> HIDE DEF gap
<1>4. QED
  BY <1>1, <1>2, <1>3 DEF Never

LEMMA TypeTiming ==
  ASSUME TypeInv, NEW w \in Ticker, Timing(w) PROVE TypeInv'
<1> DEFINE t == tick[w]
           eligible == EligibleAt(t)
           soon == t.now + 1
<1>1. Typed /\ soon \in Nat /\ eligible \in Nat
  BY TickFields, EligibleTyped DEF TypeInv
<1>2. CASE /\ Spend("defer") /\ Goto(w, "finish")
           /\ tick' = [tick EXCEPT ![w] = Wants(t, t.next, t.set, t.now + 1)]
           /\ UNCHANGED <<clock, outside, run, revived, overtaken, rows, asked>>
  <2>1. budget' \in [Rare -> Nat]
    BY <1>1, <1>2, SpendTyped DEF Rare
  <2>2. tick' = [tick EXCEPT ![w] = Wants(tick[w], tick[w].next, tick[w].set, soon)]
    BY <1>2
  <2> HIDE DEF soon
  <2>3. QED
    BY <1>1, <1>2, <2>1, <2>2, TypeSleepsOn DEF Goto, Typed
<1>3. CASE Silent(w, t.next, t.set, eligible)
  <2>1. /\ pc' = [pc EXCEPT ![w] = "finish"]
        /\ tick' = [tick EXCEPT ![w] = Wants(tick[w], tick[w].next, tick[w].set, eligible)]
        /\ UNCHANGED <<clock, outside, rows, asked, budget, run>>
    BY <1>3 DEF Silent, Finishing, Goto, TickFrame
  <2> HIDE DEF eligible
  <2>2. QED
    BY <1>1, <2>1, TypeSleepsOn DEF Typed
<1>4. CASE Goto(w, "recipients") /\ UNCHANGED <<run, revived, overtaken, tick>> /\ TickFrame
  <2>1. "recipients" \in Places \ Marking
    BY DEF Places, Marking
  <2>2. QED
    BY <1>1, <1>4, <2>1, GoesOn DEF Goto, TickFrame, rows, Typed
<1>5. QED
  BY <1>2, <1>3, <1>4 DEF Timing

\* The runs that a decision leaves.
LEMMA MarkedTyped ==
  ASSUME Typed, NEW w \in Ticker
  PROVE  /\ Marked(tick[w]) \in RunRec(Actions)
         /\ Marked(tick[w]).acts = tick[w].next.acts
<1>1. PICK r \in RunRec(Actions) : r = tick[w].next
  BY TickFields
<1>2. PICK n \in Nat : n = tick[w].now + Recheck
  BY TickFields, Numbers
<1>3. [r EXCEPT !.nextTick = n] \in RunRec(Actions) /\ [r EXCEPT !.nextTick = n].acts = r.acts
  BY DEF RunRec
<1>4. QED
  BY <1>1, <1>2, <1>3 DEF Marked

LEMMA HeldOutTyped ==
  ASSUME Typed, NEW w \in Ticker
  PROVE  /\ HeldOut(tick[w]) \in RunRec(Actions)
         /\ DOMAIN HeldOut(tick[w]).acts = DOMAIN tick[w].next.acts
<1> DEFINE t == tick[w]
           a == t.chosen
           n == t.next.unanswered + 1
           st == IF a = Ask THEN 2 ELSE sunsetStageFor(P, n)
           ask == t.next.askSent \/ a = Ask
           status == IF a = Ask THEN "sunset" ELSE t.next.status
           acts == IF a = Ask THEN t.next.acts ELSE Attempted(t.next.acts, a)
           now == t.now
<1>1. PICK r \in RunRec(Actions) : r = t.next
  BY TickFields
<1>2. n \in Nat /\ now \in Nat /\ ask \in BOOLEAN /\ NoDecision \in Decision \cup {NoDecision}
  BY <1>1, TickFields, RunFields
<1>3. st \in 0..2
  BY StageTyped
<1>4. status \in Active \cup {"completed", "exited"}
  BY <1>1, RunFields DEF Active
<1>5. acts \in ActsOver(Actions) /\ DOMAIN acts = DOMAIN t.next.acts
  <2>1. PICK f \in ActsOver(Actions) : f = t.next.acts
    BY <1>1, RunFields
  <2>2. DOMAIN f \subseteq Actions /\ f \in [DOMAIN f -> ActState]
    BY DEF ActsOver
  <2>3. CASE a \in DOMAIN f
    <3>1. f[a] \in ActState /\ f[a].attempts + 1 \in Nat
      BY <2>2, <2>3 DEF ActState
    <3>2. [f[a] EXCEPT !.attempts = @ + 1] \in ActState
      BY <3>1 DEF ActState
    <3> DEFINE g == Attempted(f, a)
    <3>3. g = [f EXCEPT ![a] = [f[a] EXCEPT !.attempts = @ + 1]]
      BY <2>2, <2>3 DEF Attempted
    <3> HIDE DEF g, a
    <3>4. g \in [DOMAIN f -> ActState] /\ DOMAIN g = DOMAIN f
      BY <2>2, <2>3, <3>2, <3>3
    <3>5. [DOMAIN f -> ActState] \in {[D -> ActState] : D \in SUBSET Actions}
      BY <2>2
    <3>6. g \in ActsOver(Actions)
      BY <3>4, <3>5 DEF ActsOver
    <3>7. QED
      BY <2>1, <3>4, <3>6 DEF g
  <2>4. CASE a \notin DOMAIN f
    <3>1. Attempted(f, a) = f
      BY <2>2, <2>4 DEF Attempted
    <3>2. QED
      BY <2>1, <3>1
  <2>5. QED
    BY <2>3, <2>4
<1> DEFINE next == t.next
           q == [next EXCEPT !.unanswered = n, !.lastSent = now, !.inFlight = NoDecision,
                          !.stage = st, !.askSent = ask, !.status = status, !.acts = acts]
<1>6. HeldOut(t) = [q EXCEPT !.nextTick = now + gapMs(P, a, Stored(q.acts, a).attempts, q.stage, FALSE)]
  BY DEF HeldOut
<1>0. next \in RunRec(Actions)
  BY TickFields
<1>a. a \in Actions \cup {Ask}
  BY TickFields
<1> HIDE DEF next, t, a, n, st, ask, status, acts, now
<1>7. q \in RunRec(Actions) /\ q.acts = acts
  BY <1>0, <1>2, <1>3, <1>4, <1>5 DEF RunRec
<1> DEFINE gap == gapMs(P, a, Stored(q.acts, a).attempts, q.stage, FALSE)
<1>8. gap \in Nat
  BY <1>a, TheProgram, GapTyped
<1> HIDE DEF gap, q
<1>9. PICK m \in Nat : m = now + gap
  BY <1>2, <1>8
<1>10. [q EXCEPT !.nextTick = m] \in RunRec(Actions) /\ [q EXCEPT !.nextTick = m].acts = q.acts
  BY <1>7 DEF RunRec
<1>11. QED
  BY <1>5, <1>6, <1>7, <1>9, <1>10 DEF gap, t

LEMMA TypeRecipients ==
  ASSUME TypeInv, NEW w \in Ticker, Recipients(w) PROVE TypeInv'
<1> DEFINE t == tick[w]
<1>1. Typed /\ t \in TickRec(Actions) /\ t.now \in Nat /\ t.set \in SUBSET Fields
  BY TickFields DEF TypeInv
<1>2. CASE LoseLease(w)
  BY <1>2, TypeLose
<1>3. CASE ~LoseLease(w)
  <2>1. /\ run' = Renewed(w) /\ pc' = [pc EXCEPT ![w] = "finish"]
        /\ UNCHANGED <<clock, outside, rows, asked>>
    BY <1>3 DEF Recipients, SetRun, Goto
  <2>2. run' \in RunRec(Actions)
    BY <1>1, <2>1, RenewedTyped
  <2>3. CASE Spend("fault") /\ tick' = [tick EXCEPT ![w] = Wants(t, t.next, t.set, GapEnd(w))]
    <3>1. budget' \in [Rare -> Nat]
      BY <1>1, <2>3, SpendTyped DEF Rare
    <3>2. GapEnd(w) \in Nat
      BY <1>1, TheProgram DEF GapEnd
    <3>3. QED
      BY <2>1, <2>2, <2>3, <3>1, <3>2, TypeSleepsOn
  <2>4. ASSUME ~(Spend("fault") /\ tick' = [tick EXCEPT ![w] = Wants(t, t.next, t.set, GapEnd(w))])
        PROVE  TypeInv'
    <3> DEFINE next == IF case.arm = "holdout" THEN HeldOut(t) ELSE Marked(t)
               set == IF case.arm = "treatment" THEN t.set \cup {"inFlight", "nextTick"}
                      ELSE t.set \cup HoldoutSet \cup
                           (IF t.chosen = Ask THEN {"askSent", "status"} ELSE {})
               u == [tick[w] EXCEPT !.sends = TRUE, !.next = next, !.set = set]
    <3>1. /\ tick' = [tick EXCEPT ![w].sends = TRUE, ![w].next = next, ![w].set = set]
          /\ UNCHANGED budget
      BY <1>3, <2>4 DEF Recipients
    <3>2. next \in RunRec(Actions) /\ DOMAIN next.acts = DOMAIN tick[w].next.acts
      BY <1>1, HeldOutTyped, MarkedTyped
    <3>3. set \in SUBSET Fields
      BY <1>1 DEF Fields, NewRun, HoldoutSet
    <3> HIDE DEF next, set
    <3>4. tick' = [tick EXCEPT ![w] = u]
      BY <1>1, <3>1 DEF Typed
    <3>5. u \in TickRec(Actions) /\ u.todo = tick[w].todo /\ u.run = tick[w].run /\ u.next = next
      BY <1>1, <3>2, <3>3 DEF TickRec
    <3> HIDE DEF u
    <3>6. \A s \in u.todo : s[1] <= Len(asked)
      BY <3>5 DEF TypeInv, Named
    <3>7. DOMAIN u.run.acts \subseteq DOMAIN u.next.acts
      BY <3>2, <3>5 DEF TypeInv, Grown
    <3>8. "finish" \in Places /\ "finish" \notin Marking
      BY DEF Places, Marking
    <3>9. QED
      BY <1>1, <2>1, <2>2, <3>1, <3>4, <3>5, <3>6, <3>7, <3>8, TickMoves DEF rows, Typed
  <2>5. QED
    BY <2>3, <2>4
<1>4. QED
  BY <1>2, <1>3

\* The states that the last writes leave.
LEMMA DiffedTyped ==
  ASSUME TypeInv, NEW w \in Ticker, NEW a \in DOMAIN run.acts
  PROVE  Diffed(tick[w], a) \in ActState
<1> DEFINE t == tick[w]
<1>1. /\ run.acts \in ActsOver(Actions) /\ t.run.acts \in ActsOver(Actions)
      /\ t.next.acts \in ActsOver(Actions)
      /\ DOMAIN t.run.acts \subseteq DOMAIN t.next.acts
  BY TickFields, RunFields DEF TypeInv, Typed, Grown
<1>2. run.acts[a] \in ActState
  BY <1>1 DEF ActsOver
<1>3. CASE a \notin DOMAIN t.run.acts
  BY <1>2, <1>3 DEF Diffed
<1>4. CASE a \in DOMAIN t.run.acts
  <2>1. PICK st \in ActState : st = run.acts[a]
    BY <1>2
  <2>2. PICK old \in ActState : old = t.run.acts[a]
    BY <1>1, <1>4 DEF ActsOver
  <2>3. PICK new \in ActState : new = t.next.acts[a]
    BY <1>1, <1>4 DEF ActsOver
  <2>4. Diffed(t, a) = [f \in DOMAIN freshActionState |->
                          IF f # "completedAt" /\ new[f] # old[f] THEN new[f] ELSE st[f]]
    BY <1>4, <2>1, <2>2, <2>3 DEF Diffed
  <2>5. [f \in DOMAIN freshActionState |->
           IF f # "completedAt" /\ new[f] # old[f] THEN new[f] ELSE st[f]] \in ActState
    BY DEF ActState, freshActionState
  <2>6. QED
    BY <2>4, <2>5
<1>5. QED
  BY <1>3, <1>4

LEMMA DatedTyped ==
  ASSUME TypeInv, NEW w \in Ticker, NEW a \in DOMAIN run.acts \cup DOMAIN tick[w].next.acts
  PROVE  Dated(tick[w], a) \in ActState
<1> DEFINE t == tick[w]
<1>1. run.acts \in ActsOver(Actions) /\ t.next.acts \in ActsOver(Actions)
  BY TickFields, RunFields DEF TypeInv, Typed
<1>2. CASE a \notin DOMAIN run.acts
  BY <1>1, <1>2 DEF Dated, ActsOver
<1>3. CASE a \in DOMAIN run.acts
  <2>1. PICK st \in ActState : st = run.acts[a]
    BY <1>1, <1>3 DEF ActsOver
  <2>2. CASE a \in DOMAIN t.next.acts
    <3>1. PICK n \in Nat : n = t.next.acts[a].completedAt
      BY <1>1, <2>2 DEF ActsOver, ActState
    <3>2. [st EXCEPT !.completedAt = n, !.status = "satisfied"] \in ActState
      BY DEF ActState
    <3>3. QED
      BY <1>3, <2>1, <3>1, <3>2 DEF Dated
  <2>3. CASE a \notin DOMAIN t.next.acts
    BY <1>3, <2>1, <2>3 DEF Dated
  <2>4. QED
    BY <2>2, <2>3
<1>4. QED
  BY <1>2, <1>3

\* The run as it is written.
WrittenRun(w) ==
  LET t == tick[w]  d == Len(asked) + 1 IN
  [f \in DOMAIN run |->
     CASE f = "acts" -> [a \in DOMAIN run.acts |-> Diffed(t, a)]
       [] f = "lease" -> IF t.sends THEN run.lease ELSE NoLease
       [] f = "inFlight" /\ t.sends /\ case.arm = "treatment" -> d
       [] f = "lastCounted" /\ t.sends /\ case.arm = "holdout" -> d
       [] OTHER -> IF f \in t.set THEN t.next[f] ELSE run[f]]

LEMMA WrittenTyped ==
  ASSUME TypeInv, NEW w \in Ticker, tick[w].sends => Len(asked) < MaxDecision
  PROVE  LET t == tick[w]  q == WrittenRun(w) IN
         /\ q \in RunRec(Actions)
         /\ q.acts = [a \in DOMAIN run.acts |-> Diffed(t, a)]
         /\ q.lease = IF t.sends THEN run.lease ELSE NoLease
         /\ q.inFlight = IF t.sends /\ case.arm = "treatment" THEN Len(asked) + 1
                         ELSE IF "inFlight" \in t.set THEN t.next.inFlight ELSE run.inFlight
         /\ q.status = IF "status" \in t.set THEN t.next.status ELSE run.status
         /\ q.nextTick = IF "nextTick" \in t.set THEN t.next.nextTick ELSE run.nextTick
         /\ q.lastSent = IF "lastSent" \in t.set THEN t.next.lastSent ELSE run.lastSent
         /\ q.lastCounted = IF t.sends /\ case.arm = "holdout" THEN Len(asked) + 1
                            ELSE IF "lastCounted" \in t.set THEN t.next.lastCounted
                            ELSE run.lastCounted
<1> DEFINE t == tick[w]
           acts == [a \in DOMAIN run.acts |-> Diffed(t, a)]
           l == IF t.sends THEN run.lease ELSE NoLease
           d == Len(asked) + 1
           mark == t.sends /\ case.arm = "treatment"
           held == t.sends /\ case.arm = "holdout"
<1>1. Typed /\ run \in RunRec(Actions)
  BY DEF TypeInv, Typed
<1>2. PICK r \in RunRec(Actions) : r = run
  BY <1>1
<1>3. PICK n \in RunRec(Actions) : n = t.next
  BY <1>1, TickFields
<1>4. acts \in ActsOver(Actions)
  <2>1. acts \in [DOMAIN run.acts -> ActState]
    BY DiffedTyped
  <2>2. run.acts \in ActsOver(Actions)
    BY <1>1, RunFields
  <2>3. DOMAIN run.acts \subseteq Actions
    BY <2>2 DEF ActsOver
  <2>4. [DOMAIN run.acts -> ActState] \in {[D -> ActState] : D \in SUBSET Actions}
    BY <2>3
  <2>5. QED
    BY <2>1, <2>4 DEF ActsOver
<1>5. l \in LeaseRec
  <2>1. run.lease \in LeaseRec
    BY <1>1, RunFields
  <2>2. QED
    BY <2>1 DEF LeaseRec, NoLease
<1>6. t.sends => d \in Decision
  BY Numbers, <1>1 DEF Typed, Decision
<1>7. PICK set : set = t.set
  OBVIOUS
<1> DEFINE q == [f \in DOMAIN r |->
                   CASE f = "acts" -> acts
                     [] f = "lease" -> l
                     [] f = "inFlight" /\ mark -> d
                     [] f = "lastCounted" /\ held -> d
                     [] OTHER -> IF f \in set THEN n[f] ELSE r[f]]
<1>8. WrittenRun(w) = q
  BY <1>2, <1>3, <1>7 DEF WrittenRun
<1>9. mark \/ held => t.sends
  OBVIOUS
<1>10. (mark => d \in Decision) /\ (held => d \in Decision)
  BY <1>6, <1>9
<1> HIDE DEF acts, l, d, mark, held
<1>11. q \in RunRec(Actions)
  BY <1>4, <1>5, <1>10 DEF RunRec
<1>12. /\ q.acts = acts /\ q.lease = l /\ q.inFlight = IF mark THEN d ELSE IF "inFlight" \in set THEN n.inFlight ELSE r.inFlight
       /\ q.status = IF "status" \in set THEN n.status ELSE r.status
       /\ q.nextTick = IF "nextTick" \in set THEN n.nextTick ELSE r.nextTick
       /\ q.lastSent = IF "lastSent" \in set THEN n.lastSent ELSE r.lastSent
       /\ q.lastCounted = IF held THEN d ELSE IF "lastCounted" \in set THEN n.lastCounted
                          ELSE r.lastCounted
  BY DEF RunRec
<1> HIDE DEF q
<1>13. QED
  BY <1>2, <1>3, <1>7, <1>8, <1>11, <1>12 DEF acts, l, d, mark, held

LEMMA TypeWrite ==
  ASSUME TypeInv, NEW w \in Ticker, Write(w) PROVE TypeInv'
<1> DEFINE t == tick[w]
           d == Len(asked) + 1
           todo == IF t.sends THEN {d} \X case.to ELSE {}
           u == [tick[w] EXCEPT !.todo = todo]
           question == [action |-> t.chosen, attempt |-> t.attempt, at |-> t.now]
<1>1. Typed /\ t \in TickRec(Actions) /\ Len(asked) \in Nat /\ asked \in Seq(Question(Actions))
  BY TickFields DEF TypeInv, Typed
<1>2. /\ t.sends => Len(asked) < MaxDecision
      /\ run' = WrittenRun(w)
      /\ asked' = IF t.sends THEN Append(asked, question) ELSE asked
      /\ tick' = [tick EXCEPT ![w].todo = todo]
      /\ pc' = [pc EXCEPT ![w] = "settle"]
      /\ UNCHANGED <<clock, outside, rows, budget>>
  BY DEF Write, WrittenRun, SetRun, Goto
<1>3. run' \in RunRec(Actions)
  BY <1>2, WrittenTyped
<1>4. question \in Question(Actions)
  BY <1>1, TickFields DEF Question
<1> HIDE DEF question
<1>5. /\ asked' \in Seq(Question(Actions)) /\ Len(asked') \in Nat /\ Len(asked') >= Len(asked)
      /\ Len(asked') <= MaxDecision
      /\ t.sends => Len(asked') = d
  BY <1>1, <1>2, <1>4, Numbers DEF Typed
<1>6. todo \in SUBSET Row /\ \A s \in todo : s[1] <= Len(asked')
  <2>1. CASE t.sends
    <3>1. d \in Decision
      BY <1>1, <1>2, <2>1, Numbers DEF Decision
    <3>2. \A s \in todo : s \in Row /\ s[1] = d
      BY <1>1, <2>1, <3>1, TheProgram DEF Row
    <3>3. QED
      BY <1>5, <2>1, <3>2, <1>1
  <2>2. CASE ~t.sends
    BY <2>2
  <2>3. QED
    BY <2>1, <2>2
<1> HIDE DEF todo
<1>7. tick' = [tick EXCEPT ![w] = u]
  BY <1>1, <1>2 DEF Typed
<1>8. u \in TickRec(Actions) /\ u.todo = todo /\ u.run = tick[w].run /\ u.next = tick[w].next
  BY <1>1, <1>6 DEF TickRec
<1> HIDE DEF u
<1>9. Actions' = Actions
  BY <1>2 DEF Actions, P, outside
<1>10. /\ pc' \in [Ticker -> Places] /\ tick' \in [Ticker -> TickRec(Actions)]
       /\ \A v \in Ticker : /\ tick'[v] = IF v = w THEN u ELSE tick[v]
                            /\ pc'[v] = IF v = w THEN "settle" ELSE pc[v]
  BY <1>1, <1>2, <1>7, <1>8 DEF Typed, Places
<1>11. Typed'
  BY <1>1, <1>2, <1>3, <1>5, <1>9, <1>10 DEF Typed, outside, rows
<1>12. Named'
  <2>1. \A v \in Ticker : \A s \in tick'[v].todo : s[1] <= Len(asked')
    <3> SUFFICES ASSUME NEW v \in Ticker, NEW s \in tick'[v].todo PROVE s[1] <= Len(asked')
      OBVIOUS
    <3>1. CASE v = w
      BY <1>6, <1>8, <1>10, <3>1
    <3>2. CASE v # w
      <4>1. s \in tick[v].todo /\ s \in Row
        BY <1>1, <1>10, <3>2, TickFields
      <4>2. s[1] <= Len(asked) /\ s[1] \in Nat
        BY <4>1 DEF TypeInv, Named, Row, Decision
      <4>3. QED
        BY <1>1, <1>5, <4>2
    <3>3. QED
      BY <3>1, <3>2
  <2>2. \A s \in Row : send'[s] # "none" => s[1] <= Len(asked')
    <3> SUFFICES ASSUME NEW s \in Row, send'[s] # "none" PROVE s[1] <= Len(asked')
      OBVIOUS
    <3>1. s[1] <= Len(asked) /\ s[1] \in Nat
      BY <1>2 DEF TypeInv, Named, rows, Row, Decision
    <3>2. QED
      BY <1>1, <1>5, <3>1
  <2>3. \A v \in Ticker : pc'[v] \in Marking => tick'[v].row \in Row /\ tick'[v].row[1] <= Len(asked')
    <3> SUFFICES ASSUME NEW v \in Ticker, pc'[v] \in Marking
                 PROVE  tick'[v].row \in Row /\ tick'[v].row[1] <= Len(asked')
      OBVIOUS
    <3>1. v # w /\ tick'[v] = tick[v] /\ pc'[v] = pc[v]
      BY <1>10 DEF Marking
    <3>2. tick[v].row \in Row /\ tick[v].row[1] <= Len(asked)
      BY <3>1 DEF TypeInv, Named
    <3>3. tick[v].row[1] \in Nat
      BY <3>2 DEF Row, Decision
    <3>4. QED
      BY <1>1, <1>5, <3>1, <3>2, <3>3
  <2>4. \A s \in Row : send'[s] = "none" => stage'[s] = "none"
    BY <1>2 DEF TypeInv, Named, rows
  <2>5. QED
    BY <2>1, <2>2, <2>3, <2>4 DEF Named
<1>13. Grown'
  BY <1>8, <1>10 DEF TypeInv, Grown
<1>14. QED
  BY <1>11, <1>12, <1>13 DEF TypeInv

LEMMA TypeReread ==
  ASSUME TypeInv, NEW w \in Ticker, Reread(w) PROVE TypeInv'
<1> DEFINE t == tick[w]
<1>1. Typed /\ t \in TickRec(Actions) /\ t.now + 1 \in Nat /\ t.next \in RunRec(Actions)
      /\ run.wake \in Nat /\ DOMAIN t.run.acts \subseteq DOMAIN t.next.acts
  BY TickFields, RunFields DEF TypeInv, Typed, Grown
<1>2. CASE LoseLease(w)
  BY <1>2, TypeLose
<1>3. CASE ~LoseLease(w) /\ CountMoved(w)
  <2>1. "abandon" \in Places \ Marking
    BY DEF Places, Marking
  <2>2. QED
    BY <1>1, <1>3, <2>1, GoesOn DEF Reread, Goto, TickFrame, rows, Typed
<1>4. CASE ~LoseLease(w) /\ ~CountMoved(w)
  <2> DEFINE n == IF "nextTick" \in t.set THEN t.now + 1 ELSE t.next.nextTick
             next == [t.next EXCEPT !.nextTick = n]
             wake == run.wake
             u == [tick[w] EXCEPT !.wake = wake, !.next = next]
  <2>1. /\ UNCHANGED pc /\ UNCHANGED <<clock, outside, rows, asked, budget, run>>
        /\ tick' = [tick EXCEPT ![w].wake = run.wake,
                      ![w].next.nextTick = IF "nextTick" \in t.set THEN t.now + 1 ELSE @]
    BY <1>4 DEF Reread, TickFrame
  <2>2. n \in Nat
    BY <1>1, RunFields
  <2>3. tick' = [tick EXCEPT ![w] = u]
    BY <1>1, <2>1 DEF Typed, TickRec
  <2>4. next \in RunRec(Actions) /\ next.acts = t.next.acts
    <3> HIDE DEF n, t
    <3>1. PICK r \in RunRec(Actions) : r = t.next
      BY <1>1
    <3>2. [r EXCEPT !.nextTick = n] \in RunRec(Actions) /\ [r EXCEPT !.nextTick = n].acts = r.acts
      BY <2>2 DEF RunRec
    <3>3. QED
      BY <3>1, <3>2
  <2> HIDE DEF n, next, wake
  <2>5. u \in TickRec(Actions) /\ u.todo = tick[w].todo /\ u.run = tick[w].run /\ u.next = next
        /\ u.row = tick[w].row
    BY <1>1, <2>4 DEF TickRec, wake
  <2> HIDE DEF u
  <2>6. \A s \in u.todo : s[1] <= Len(asked)
    BY <2>5 DEF TypeInv, Named
  <2>7. pc[w] = "finish" /\ "finish" \in Places /\ "finish" \notin Marking
        /\ pc' = [pc EXCEPT ![w] = "finish"]
    BY <1>1, <2>1 DEF Reread, Places, Marking, Typed
  <2>8. DOMAIN u.run.acts \subseteq DOMAIN u.next.acts
    BY <1>1, <2>4, <2>5
  <2>9. QED
    BY <1>1, <2>1, <2>3, <2>5, <2>6, <2>7, <2>8, TickMoves DEF rows, Typed
<1>5. QED
  BY <1>2, <1>3, <1>4

LEMMA TypeAbandon ==
  ASSUME TypeInv, NEW w \in Ticker, Abandon(w) PROVE TypeInv'
<1>1. Typed /\ tick[w].now + 1 \in Nat /\ run \in RunRec(Actions)
  BY TickFields DEF TypeInv, Typed
<1>2. "release" \in Places \ Marking
  BY DEF Places, Marking
<1>3. run' \in RunRec(Actions)
  BY <1>1, DueTyped DEF Abandon, SetRun
<1>4. QED
  BY <1>1, <1>2, <1>3, GoesOn DEF Abandon, Goto, TickFrame, rows, Typed

LEMMA TypeSettle ==
  ASSUME TypeInv, NEW w \in Ticker, settleActionDates(w) PROVE TypeInv'
<1> DEFINE D == DOMAIN run.acts \cup DOMAIN tick[w].next.acts
           acts == [a \in D |-> Dated(tick[w], a)]
           place == IF tick[w].sends THEN "renew" ELSE "release"
<1>1. Typed /\ run \in RunRec(Actions)
  BY DEF TypeInv, Typed
<1>2. D \subseteq Actions
  <2>1. run.acts \in ActsOver(Actions) /\ tick[w].next.acts \in ActsOver(Actions)
    BY <1>1, TickFields, RunFields
  <2>2. QED
    BY <2>1 DEF ActsOver
<1>3. acts \in ActsOver(Actions)
  <2>1. acts \in [D -> ActState]
    BY DatedTyped
  <2>2. [D -> ActState] \in {[E -> ActState] : E \in SUBSET Actions}
    BY <1>2
  <2>3. QED
    BY <2>1, <2>2 DEF ActsOver
<1>4. run' = [run EXCEPT !.acts = acts] /\ pc' = [pc EXCEPT ![w] = place]
      /\ UNCHANGED <<clock, outside, rows, asked, budget, tick>>
  BY DEF settleActionDates, SetRun, Goto, TickFrame
<1>5. place \in Places \ Marking
  BY DEF Places, Marking
<1> HIDE DEF acts, place
<1>6. run' \in RunRec(Actions)
  BY <1>1, <1>3, <1>4, ActsTyped
<1>7. QED
  BY <1>1, <1>4, <1>5, <1>6, GoesOn DEF rows, Typed

LEMMA TypeRenew ==
  ASSUME TypeInv, NEW w \in Ticker, RenewForRows(w) PROVE TypeInv'
<1>1. Typed
  BY DEF TypeInv
<1>2. CASE LoseLease(w)
  BY <1>2, TypeLose
<1>3. CASE ~LoseLease(w)
  <2>1. /\ run' = Renewed(w) /\ pc' = [pc EXCEPT ![w] = "insert"]
        /\ UNCHANGED <<clock, outside, rows, asked, budget, tick>>
    BY <1>3 DEF RenewForRows, SetRun, Goto, TickFrame
  <2>2. "insert" \in Places \ Marking
    BY DEF Places, Marking
  <2>3. run' \in RunRec(Actions)
    BY <1>1, <2>1, RenewedTyped
  <2>4. QED
    BY <1>1, <2>1, <2>2, <2>3, GoesOn DEF rows, Typed
<1>4. QED
  BY <1>2, <1>3

LEMMA TypeInsert ==
  ASSUME TypeInv, NEW w \in Ticker, InsertRows(w) PROVE TypeInv'
<1> DEFINE new == tick[w].todo
           place == IF case.arm = "holdout" THEN "release" ELSE "enqueue"
<1>1. Typed /\ new \subseteq Row /\ tick[w].now \in Nat
  BY TickFields DEF TypeInv
<1>2. /\ send' = [s \in Row |-> IF s \notin new THEN send[s]
                                ELSE IF case.arm = "holdout" THEN "holdout" ELSE "queued"]
      /\ touched' = [s \in Row |-> IF s \in new THEN tick[w].now ELSE touched[s]]
      /\ counted' = IF case.arm = "holdout" THEN counted \cup new ELSE counted
      /\ pc' = [pc EXCEPT ![w] = place]
      /\ UNCHANGED <<clock, outside, run, jobs, stage, asked, tick, budget>>
  BY DEF InsertRows, Goto
<1>3. place \in Places \ Marking
  BY DEF Places, Marking
<1> HIDE DEF place
<1>4. /\ send' \in [Row -> RowStatus] /\ touched' \in [Row -> Nat] /\ counted' \subseteq Row
      /\ pc' \in [Ticker -> Places] /\ \A v \in Ticker : pc'[v] \in Marking => pc[v] \in Marking
  BY <1>1, <1>2, <1>3 DEF Typed, RowStatus, InFlight
<1>5. Actions' = Actions
  BY <1>2 DEF Actions, P, outside
<1>6. Typed'
  BY <1>1, <1>2, <1>4, <1>5 DEF Typed, outside
<1>7. Named'
  <2>1. \A s \in Row : send'[s] # "none" => send[s] # "none" \/ s \in new
    BY <1>2
  <2>2. \A s \in Row : send'[s] = "none" => send[s] = "none"
    BY <1>2
  <2>3. QED
    BY <1>2, <1>4, <2>1, <2>2 DEF TypeInv, Named
<1>8. Grown'
  BY <1>2 DEF TypeInv, Grown
<1>9. QED
  BY <1>6, <1>7, <1>8 DEF TypeInv

LEMMA TypeEnqueue ==
  ASSUME TypeInv, NEW w \in Ticker, Enqueue(w) PROVE TypeInv'
<1>1. Typed /\ tick[w] \in TickRec(Actions) /\ tick[w].todo \subseteq Row
  BY TickFields DEF TypeInv
<1>2. PICK s \in tick[w].todo :
        /\ jobs' = jobs \cup {s}
        /\ tick' = [tick EXCEPT ![w].todo = @ \ {s}]
        /\ Goto(w, IF tick[w].todo = {s} THEN "release" ELSE "enqueue")
  BY DEF Enqueue
<1> DEFINE place == IF tick[w].todo = {s} THEN "release" ELSE "enqueue"
           left == tick[w].todo \ {s}
           u == [tick[w] EXCEPT !.todo = left]
<1>3. pc' = [pc EXCEPT ![w] = place] /\ place \in Places /\ place \notin Marking
      /\ jobs' \subseteq Row
  BY <1>1, <1>2 DEF Goto, Places, Marking, Typed
<1>4. left \in SUBSET Row /\ \A x \in left : x[1] <= Len(asked)
  BY <1>1 DEF TypeInv, Named
<1>5. tick' = [tick EXCEPT ![w] = u]
  BY <1>1, <1>2 DEF Typed
<1> HIDE DEF left, place
<1>6. u \in TickRec(Actions) /\ u.todo = left /\ u.run = tick[w].run /\ u.next = tick[w].next
  BY <1>1, <1>4 DEF TickRec
<1> HIDE DEF u
<1>7. DOMAIN u.run.acts \subseteq DOMAIN u.next.acts
  BY <1>6 DEF TypeInv, Grown
<1>8. UNCHANGED <<clock, outside, run, send, touched, counted, stage, asked, budget>>
  BY DEF Enqueue
<1>9. QED
  BY <1>1, <1>3, <1>4, <1>5, <1>6, <1>7, <1>8, TickMoves DEF Typed

LEMMA TypeRelease ==
  ASSUME TypeInv, NEW w \in Ticker, releaseLease(w) PROVE TypeInv'
<1>1. run \in RunRec(Actions) /\ NoLease \in LeaseRec
  BY DEF TypeInv, Typed, NoLease, LeaseRec
<1>2. run' \in RunRec(Actions)
  BY <1>1, LeaseTyped DEF releaseLease, SetRun
<1>3. QED
  BY <1>2, StopTyped DEF releaseLease, TickFrame, TypeInv, Typed

(* The steps of a dispatch.                                                 *)

\* A hook moves its row's stage, and may write the run and the counted mark.
LEMMA TypeHook ==
  ASSUME TypeInv, NEW s \in Row, stage[s] # "none", NEW place \in Stages, Step(s, place),
         HookFrame, run' \in RunRec(Actions), counted' \subseteq Row
  PROVE  TypeInv'
<1>1. Typed /\ send[s] # "none"
  BY DEF TypeInv, Named
<1>2. stage' \in [Row -> Stages] /\ \A u \in Row : stage'[u] = IF u = s THEN place ELSE stage[u]
  BY <1>1 DEF Step, Typed
<1>3. UNCHANGED <<clock, outside, send, touched, jobs, asked, pc, tick, budget>>
  BY DEF HookFrame
<1>4. \A u \in Row : send'[u] = "none" => stage'[u] = "none"
  BY <1>1, <1>2, <1>3 DEF TypeInv, Named
<1>5. QED
  BY <1>1, <1>2, <1>3, <1>4, RowsMove DEF outside, Typed

\* Everything else it does moves the row.
LEMMA TypeRow ==
  ASSUME TypeInv, NEW s \in Row, send[s] # "none", NEW st \in RowStatus \ {"none"},
         NEW place \in Stages, SetSend(s, st), Step(s, place), DispatchFrame,
         jobs' \subseteq Row, budget' \in [Rare -> Nat]
  PROVE  TypeInv'
<1>1. Typed
  BY DEF TypeInv
<1>2. /\ stage' \in [Row -> Stages] /\ \A u \in Row : stage'[u] = IF u = s THEN place ELSE stage[u]
      /\ send' \in [Row -> RowStatus] /\ \A u \in Row : send'[u] = IF u = s THEN st ELSE send[u]
      /\ touched' \in [Row -> Nat]
  BY <1>1 DEF Step, SetSend, Typed
<1>3. UNCHANGED <<clock, outside, run, revived, overtaken, counted, asked, pc, tick>>
  BY DEF DispatchFrame
<1>4. \A u \in Row : /\ send'[u] # "none" => send[u] # "none"
                     /\ send'[u] = "none" => stage'[u] = "none"
  BY <1>2 DEF TypeInv, Named
<1>5. QED
  BY <1>1, <1>2, <1>3, <1>4, RowsMove DEF outside, Typed

LEMMA StageRow ==
  ASSUME TypeInv, NEW s \in Row, stage[s] # "none"
  PROVE  send[s] # "none" /\ s[1] <= Len(asked)
BY DEF TypeInv, Named

LEMMA TypeClaim ==
  ASSUME TypeInv, NEW s \in Row, Claim(s) PROVE TypeInv'
<1>1. Typed /\ jobs' \subseteq Row
      /\ UNCHANGED <<clock, outside, run, counted, asked, pc, tick, budget>>
  BY DEF TypeInv, Typed, Claim
<1>2. CASE send[s] \in {"queued", "failed", "deferred"}
  <2>1. SetSend(s, "sending") /\ Step(s, "guard")
    BY <1>2 DEF Claim
  <2>2. /\ stage' \in [Row -> Stages] /\ \A u \in Row : stage'[u] = IF u = s THEN "guard" ELSE stage[u]
        /\ send' \in [Row -> RowStatus] /\ \A u \in Row : send'[u] = IF u = s THEN "sending" ELSE send[u]
        /\ touched' \in [Row -> Nat]
    BY <1>1, <2>1 DEF Step, SetSend, Typed, Stages, RowStatus, InFlight
  <2>3. \A u \in Row : /\ send'[u] # "none" => send[u] # "none"
                       /\ send'[u] = "none" => stage'[u] = "none"
    BY <1>2, <2>2 DEF TypeInv, Named
  <2>4. QED
    BY <1>1, <2>2, <2>3, RowsMove DEF outside, Typed
<1>3. CASE send[s] \notin {"queued", "failed", "deferred"}
  <2>1. UNCHANGED <<send, touched, stage>>
    BY <1>3 DEF Claim
  <2>2. \A u \in Row : send[u] = "none" => stage[u] = "none"
    BY DEF TypeInv, Named
  <2>3. QED
    BY <1>1, <2>1, <2>2, RowsMove DEF outside, Typed
<1>4. QED
  BY <1>2, <1>3

LEMMA TypeVerdict ==
  ASSUME TypeInv, NEW s \in Row, stage[s] # "none", NEW place \in Stages, Verdict(s, place)
  PROVE  TypeInv'
BY TypeHook DEF Verdict, TypeInv, Typed

LEMMA TypeGuard ==
  ASSUME TypeInv, NEW s \in Row, Guard(s) \/ GuardFacts(s) PROVE TypeInv'
<1>1. stage[s] # "none"
  BY DEF Guard, GuardFacts
<1>2. ASSUME Guard(s) PROVE Verdict(s, "cancel") \/ Verdict(s, "accept") \/ Verdict(s, "done")
                            \/ Verdict(s, "facts")
  BY <1>2 DEF Guard
<1>3. ASSUME GuardFacts(s) PROVE Verdict(s, "cancel") \/ Verdict(s, "accept") \/ Verdict(s, "done")
  BY <1>3 DEF GuardFacts
<1>4. {"cancel", "accept", "done", "facts"} \subseteq Stages
  BY DEF Stages
<1>5. QED
  BY <1>1, <1>2, <1>3, <1>4, TypeVerdict

LEMMA TypeDone ==
  ASSUME TypeInv, NEW s \in Row, GuardDone(s), ActionOf(s) # Ask PROVE TypeInv'
<1> DEFINE a == ActionOf(s)
           st == Stored(run.acts, a)
           st2 == [st EXCEPT !.completedAt = clock, !.status = "satisfied"]
           acts == [b \in DOMAIN run.acts \cup {a} |-> IF b = a THEN st2 ELSE run.acts[b]]
<1>1. Typed /\ stage[s] # "none" /\ run \in RunRec(Actions) /\ clock \in Nat /\ counted \subseteq Row
  BY DEF TypeInv, Typed, GuardDone
<1>2. s[1] <= Len(asked)
  BY <1>1, StageRow
<1>3. a \in Actions /\ run.acts \in ActsOver(Actions)
  BY <1>1, <1>2, AskedTyped, RunFields DEF ActionOf
<1>4. st \in ActState
  BY <1>3, StoredTyped
<1>5. st2 \in ActState
  <2> HIDE DEF st
  <2>1. QED
    BY <1>1, <1>4 DEF ActState
<1>6. run' = IF st.completedAt # Never THEN run ELSE [run EXCEPT !.acts = acts]
  BY DEF GuardDone, SetRun
<1> HIDE DEF a, st, st2
<1>7. acts \in ActsOver(Actions)
  BY <1>3, <1>5, ActsPut
<1> HIDE DEF acts
<1>8. run' \in RunRec(Actions)
  BY <1>1, <1>6, <1>7, ActsTyped
<1>9. "cancel" \in Stages
  BY DEF Stages
<1>10. QED
  BY <1>1, <1>8, <1>9, TypeHook DEF GuardDone

LEMMA TypeCancelRow ==
  ASSUME TypeInv, NEW s \in Row, CancelRow(s) \/ Accepted(s) PROVE TypeInv'
<1>1. stage[s] # "none" /\ UNCHANGED <<jobs, budget>> /\ DispatchFrame
      /\ \E st \in {"cancelled", "sent"}, place \in {"settle", "count"} : SetSend(s, st) /\ Step(s, place)
  BY DEF CancelRow, Accepted
<1>2. send[s] # "none" /\ jobs \subseteq Row /\ budget \in [Rare -> Nat]
  BY <1>1, StageRow DEF TypeInv, Typed
<1>3. {"settle", "count"} \subseteq Stages /\ {"cancelled", "sent"} \subseteq RowStatus \ {"none"}
  BY DEF Stages, RowStatus
<1>4. QED
  BY <1>1, <1>2, <1>3, TypeRow

LEMMA TypeRefused ==
  ASSUME TypeInv, NEW s \in Row, Refused(s) PROVE TypeInv'
<1>1. PICK st \in {"failed", "suppressed", "deferred"}, place \in {"none", "settle", "defer"} :
        SetSend(s, st) /\ Step(s, place)
  BY DEF Refused
<1>2. stage[s] # "none" /\ DispatchFrame /\ (Spend("fault") \/ Spend("defer"))
      /\ jobs' \in {jobs, jobs \cup {s}}
  BY DEF Refused
<1>3. Typed /\ send[s] # "none" /\ jobs' \subseteq Row
  BY <1>2, StageRow DEF TypeInv, Typed
<1>4. budget' \in [Rare -> Nat]
  BY <1>2, <1>3, SpendTyped DEF Rare
<1>5. st \in RowStatus \ {"none"} /\ place \in Stages
  BY DEF Stages, RowStatus, InFlight
<1>6. QED
  BY <1>1, <1>2, <1>3, <1>4, <1>5, TypeRow

LEMMA TypeDefer ==
  ASSUME TypeInv, NEW s \in Row, DeferHook(s) PROVE TypeInv'
<1>1. Typed /\ run \in RunRec(Actions) /\ touched[s] + 1 \in Nat /\ counted \subseteq Row
      /\ "none" \in Stages
  BY DEF TypeInv, Typed, Stages
<1>2. run' \in RunRec(Actions)
  BY <1>1, DueTyped DEF DeferHook, SetRun
<1>3. QED
  BY <1>1, <1>2, TypeHook DEF DeferHook

LEMMA TypeCountHook ==
  ASSUME TypeInv, NEW s \in Row, CountHook(s) \/ MarkHook(s) \/ ScheduleHook(s) PROVE TypeInv'
<1>1. Typed /\ stage[s] # "none" /\ run \in RunRec(Actions) /\ counted \subseteq Row
  BY DEF TypeInv, Typed, CountHook, MarkHook, ScheduleHook
<1>2. s[1] <= Len(asked)
  BY <1>1, StageRow
<1>3. Counted(s) \in RunRec(Actions) /\ Scheduled(s) \in RunRec(Actions)
  BY <1>1, <1>2, CountTyped, ScheduledTyped
<1>4. run' \in RunRec(Actions) /\ counted' \subseteq Row /\ HookFrame
      /\ \E place \in {"mark", "markOnly", "schedule", "settle"} : Step(s, place)
  BY <1>1, <1>3 DEF CountHook, MarkHook, ScheduleHook, SetRun
<1>5. {"mark", "markOnly", "schedule", "settle"} \subseteq Stages
  BY DEF Stages
<1>6. QED
  BY <1>1, <1>4, <1>5, TypeHook

LEMMA TypeClear ==
  ASSUME TypeInv, NEW s \in Row, clearInFlightIfSettled(s) PROVE TypeInv'
<1>1. run \in RunRec(Actions) /\ counted \subseteq Row /\ "none" \in Stages
  BY DEF TypeInv, Typed, Stages
<1>2. [run EXCEPT !.inFlight = NoDecision] \in RunRec(Actions)
  BY <1>1 DEF RunRec
<1>3. run' \in RunRec(Actions)
  BY <1>1, <1>2 DEF clearInFlightIfSettled, SetRun
<1>4. QED
  BY <1>1, <1>3, TypeHook DEF clearInFlightIfSettled

LEMMA TypeDies ==
  ASSUME TypeInv, NEW s \in Row, DispatchDies(s) PROVE TypeInv'
<1>1. Typed /\ stage' \in [Row -> Stages] /\ \A u \in Row : send[u] = "none" => stage'[u] = "none"
  BY DEF TypeInv, Typed, Named, DispatchDies, Step, Stages
<1>2. budget' \in [Rare -> Nat]
  BY <1>1, SpendTyped DEF DispatchDies, Rare
<1>3. UNCHANGED <<clock, outside, run, counted, asked, pc, tick, send, touched, jobs>>
  BY DEF DispatchDies, DispatchFrame
<1>4. QED
  BY <1>1, <1>2, <1>3, RowsMove DEF outside, Typed

LEMMA TypeSweep ==
  ASSUME TypeInv, NEW s \in Row, Sweep(s) PROVE TypeInv'
<1>1. Typed /\ jobs' \subseteq Row /\ budget' \in [Rare -> Nat] /\ send[s] # "none"
  BY DEF TypeInv, Typed, Sweep
<1>2. /\ send' \in [Row -> RowStatus] /\ \A u \in Row : send'[u] = IF u = s THEN "queued" ELSE send[u]
      /\ touched' \in [Row -> Nat]
  BY <1>1 DEF Sweep, SetSend, Typed, RowStatus, InFlight
<1>3. UNCHANGED <<clock, outside, run, counted, asked, pc, tick, stage>>
  BY DEF Sweep, DispatchFrame
<1>4. \A u \in Row : /\ send'[u] # "none" => send[u] # "none"
                     /\ send'[u] = "none" => stage'[u] = "none"
  BY <1>1, <1>2, <1>3 DEF TypeInv, Named
<1>5. QED
  BY <1>1, <1>2, <1>3, <1>4, RowsMove DEF outside, Typed

(* The world, and the whole.                                                *)

LEMMA TypeWorld ==
  ASSUME TypeInv, Operators \/ Pass \/ Slow PROVE TypeInv'
<1>1. Typed /\ run \in RunRec(Actions) /\ clock \in Nat /\ clock + 1 \in Nat
      /\ facts \in FactRec(Actions) /\ clickAt \in Nat /\ budget \in [Rare -> Nat]
  BY DEF TypeInv, Typed
<1>2. \A what \in Rare : Spend(what) => budget' \in [Rare -> Nat]
  BY <1>1, SpendTyped
<1>3. {"crash", "fault", "defer", "slow", "wake", "ops", "time"} \subseteq Rare
  BY DEF Rare
<1>4. CASE Abort
  <2>1. [run EXCEPT !.status = "exited", !.inFlight = NoDecision] \in RunRec(Actions)
    BY <1>1 DEF RunRec
  <2>2. UNCHANGED <<clock, case, rows, asked, pc, tick, facts, clickAt>> /\ run' \in RunRec(Actions)
        /\ budget' \in [Rare -> Nat]
    BY <1>2, <1>3, <1>4, <2>1 DEF Abort, World, SetRun
  <2>3. QED
    BY <1>1, <2>2, WorldMoves
<1>5. CASE SetEnabled \/ FireExit
  <2>1. UNCHANGED <<clock, case, rows, asked, pc, tick, facts, clickAt, run>>
        /\ budget' \in [Rare -> Nat]
    BY <1>2, <1>3, <1>5 DEF SetEnabled, FireExit, World
  <2>2. QED
    BY <1>1, <2>1, WorldMoves
<1>6. CASE CancelForOperator
  <2>1. /\ CancelRows
        /\ UNCHANGED <<clock, case, facts, clickAt, run, counted, jobs, stage, asked, pc, tick, budget>>
    BY <1>6 DEF CancelForOperator
  <2>2. /\ send' \in [Row -> RowStatus] /\ touched' \in [Row -> Nat]
        /\ \A s \in Row : send'[s] = "none" <=> send[s] = "none"
    BY <1>1, <2>1, CancelRowsTyped
  <2>3. QED
    BY <1>1, <2>1, <2>2, RowsMove DEF TypeInv, Typed, Named
<1>7. CASE FactsChange
  <2>1. UNCHANGED <<clock, case, rows, asked, pc, tick, clickAt, run>>
        /\ budget' \in [Rare -> Nat]
    BY <1>2, <1>3, <1>7 DEF FactsChange, World
  <2>2. facts' \in FactRec(Actions)
    BY <1>1, <1>7 DEF FactsChange, FactRec
  <2>3. QED
    BY <1>1, <2>1, <2>2, WorldMoves
<1>8. CASE Click
  <2>1. UNCHANGED <<clock, case, rows, asked, pc, tick, facts, run>> /\ clickAt' = clock
        /\ budget' \in [Rare -> Nat]
    BY <1>2, <1>3, <1>8 DEF Click, World
  <2>2. QED
    BY <1>1, <2>1, WorldMoves
<1>9. CASE Wake
  <2> DEFINE n == Least(run.nextTick, clock)
             v == run.wake + 1
  <2>1. n \in Nat /\ v \in Nat
    <3>1. run.nextTick \in Nat /\ run.wake \in Nat
      BY <1>1, RunFields
    <3>2. PICK x \in {run.nextTick, clock} : \A y \in {run.nextTick, clock} : x <= y
      BY <1>1, <3>1
    <3>3. n \in {run.nextTick, clock}
      BY <3>2 DEF Least, SmallerOf
    <3>4. QED
      BY <1>1, <3>1, <3>3
  <2>2. run' = IF run.status \in Active THEN [run EXCEPT !.nextTick = n, !.wake = v] ELSE run
    BY <1>9 DEF Wake, SetRun
  <2> HIDE DEF n, v
  <2>3. run' \in RunRec(Actions)
    BY <1>1, <2>1, <2>2 DEF RunRec
  <2>4. UNCHANGED <<clock, case, rows, asked, pc, tick, facts, clickAt, budget>>
    BY <1>9 DEF Wake, World
  <2>5. QED
    BY <1>1, <2>3, <2>4, WorldMoves
<1>10. CASE Pass \/ Slow
  <2>1. UNCHANGED <<case, rows, asked, pc, tick, facts, clickAt, run>> /\ clock' = clock + 1
        /\ budget' \in [Rare -> Nat]
    BY <1>2, <1>3, <1>10 DEF Pass, Slow, outside
  <2>2. QED
    BY <1>1, <2>1, WorldMoves
<1>11. QED
  BY <1>4, <1>5, <1>6, <1>7, <1>8, <1>9, <1>10 DEF Operators

LEMMA TypeInit == Init => TypeInv /\ Plain
<1> SUFFICES ASSUME Init PROVE TypeInv /\ Plain
  OBVIOUS
<1>1. case \in Cases /\ budget \in [Rare -> Nat]
  BY ProgramRunAssumption DEF Init
<1>2. facts \in FactRec(Actions) /\ clickAt \in Nat /\ clock \in Nat
  BY DEF Init, FactRec, Never
<1>3. NewRun \in RunRec(Actions) /\ NoTick \in TickRec(Actions)
  BY NewRunTyped, NoTickTyped
<1>4. send \in [Row -> RowStatus] /\ touched \in [Row -> Nat] /\ stage \in [Row -> Stages]
      /\ counted \subseteq Row /\ jobs \subseteq Row
  BY DEF Init, RowStatus, Stages
<1>5. asked \in Seq(Question(Actions)) /\ Len(asked) <= MaxDecision
  BY Numbers DEF Init
<1>6. pc \in [Ticker -> Places] /\ tick \in [Ticker -> TickRec(Actions)]
  BY <1>3 DEF Init, Places
<1>7. Typed
  BY <1>1, <1>2, <1>3, <1>4, <1>5, <1>6 DEF Typed, Init
<1>8. NoTick.todo = {} /\ NoTick.run = NoTick.next
  BY DEF NoTick
<1>9. Named /\ Grown
  BY <1>8 DEF Named, Grown, Init, Marking
<1>10. Plain
  BY DEF Plain, Init
<1>11. QED
  BY <1>7, <1>9, <1>10 DEF TypeInv

\* A decision keeps what it asked.
LEMMA AskedKept ==
  ASSUME Typed, [Next]_vars
  PROVE  Len(asked) <= Len(asked') /\ \A d \in 1..Len(asked) : asked'[d] = asked[d]
<1>1. asked \in Seq(Question(Actions))
  BY DEF Typed
<1>2. CASE \E w \in Ticker : Write(w)
  <2>1. asked' = asked \/ \E q : asked' = Append(asked, q)
    BY <1>2 DEF Write
  <2>2. QED
    BY <1>1, <2>1
<1>3. CASE UNCHANGED asked
  BY <1>1, <1>3
<1>4. (\E w \in Ticker : Write(w)) \/ UNCHANGED asked
  <2>1. ASSUME NEW w \in Ticker, TickStep(w) \/ HostFails(w) \/ Crash(w)
        PROVE  (\E v \in Ticker : Write(v)) \/ UNCHANGED asked
    <3>1. CASE Due(w) \/ acquireLease(w) \/ Resolve(w) \/ HostFails(w) \/ Crash(w)
      BY <3>1 DEF Due, acquireLease, Resolve, LoseLease, HostFails, Crash, TickFrame
    <3>2. CASE Decide(w)
      BY <3>2 DEF Decide, Finishing, Silent, TickFrame
    <3>3. CASE CancelSends(w) \/ ReadInFlight(w) \/ Reconcile(w) \/ ReconcileMark(w)
               \/ ReconcileSchedule(w)
      BY <3>3 DEF CancelSends, ReadInFlight, Reconcile, ReconcileMark, ReconcileSchedule, TickFrame
    <3>4. CASE Reconciled(w) \/ Fresh(w) \/ Timing(w)
      BY <3>4 DEF Reconciled, Fresh, Timing, Finishing, Silent, LoseLease, TickFrame
    <3>5. CASE Recipients(w) \/ Reread(w) \/ Abandon(w) \/ settleActionDates(w) \/ RenewForRows(w)
      BY <3>5 DEF Recipients, Reread, Abandon, settleActionDates, RenewForRows, LoseLease, TickFrame
    <3>6. CASE Write(w) \/ InsertRows(w) \/ Enqueue(w) \/ releaseLease(w)
      BY <3>6 DEF Write, InsertRows, Enqueue, releaseLease, TickFrame
    <3>7. QED
      BY <2>1, <3>1, <3>2, <3>3, <3>4, <3>5, <3>6 DEF TickStep
  <2>2. CASE \E s \in Row : Dispatch(s) \/ DispatchDies(s)
    BY <2>2 DEF Dispatch, DispatchDies, Claim, Guard, GuardFacts, GuardDone, CancelRow, Accepted,
       Refused, DeferHook, CountHook, MarkHook, ScheduleHook, clearInFlightIfSettled, Sweep,
       Verdict, HookFrame, DispatchFrame
  <2>3. CASE Operators \/ Pass \/ Slow \/ UNCHANGED vars
    BY <2>3 DEF Operators, Abort, SetEnabled, CancelForOperator, FireExit, FactsChange, Click, Wake,
       World, Pass, Slow, vars
  <2>4. QED
    BY <2>1, <2>2, <2>3 DEF Next
<1>5. QED
  BY <1>2, <1>3, <1>4

\* Where the dispatches are, after any step.
LEMMA StagesMove ==
  ASSUME Typed, [Next]_vars, NEW s \in Row, stage'[s] \in {"facts", "done"}
  PROVE  stage[s] \in {"facts", "done"} \/ (stage[s] = "guard" /\ ActionOf(s) # Ask)
<1>1. stage \in [Row -> Stages]
  BY DEF Typed
<1>2. ASSUME NEW u \in Row, NEW place, Step(u, place)
      PROVE  stage'[s] = IF s = u THEN place ELSE stage[s]
  BY <1>1, <1>2 DEF Step
<1>3. CASE \E u \in Row : Guard(u)
  <2>1. PICK u \in Row : Guard(u)
    BY <1>3
  <2>2. PICK place : Verdict(u, place) /\ (place \in {"facts", "done"} => ActionOf(u) # Ask)
    BY <2>1 DEF Guard
  <2>3. QED
    BY <1>2, <2>1, <2>2 DEF Verdict, Guard
<1>4. CASE \E u \in Row : GuardFacts(u)
  <2>1. PICK u \in Row : GuardFacts(u)
    BY <1>4
  <2>2. PICK place : Verdict(u, place)
    BY <2>1 DEF GuardFacts
  <2>3. QED
    BY <1>2, <2>1, <2>2 DEF Verdict, GuardFacts
<1>5. CASE \E u \in Row : Dispatch(u) \/ DispatchDies(u)
  <2>1. PICK u \in Row : Dispatch(u) \/ DispatchDies(u)
    BY <1>5
  <2>2. Guard(u) \/ GuardFacts(u) \/ UNCHANGED stage \/ \E place : Step(u, place) /\ place \notin {"facts", "done"}
    <3>1. CASE Claim(u) \/ DispatchDies(u) \/ Sweep(u)
      BY <3>1 DEF Claim, DispatchDies, Sweep
    <3>2. CASE GuardDone(u) \/ CancelRow(u) \/ Accepted(u) \/ Refused(u)
      BY <3>2 DEF GuardDone, CancelRow, Accepted, Refused
    <3>3. CASE DeferHook(u) \/ CountHook(u) \/ MarkHook(u) \/ ScheduleHook(u) \/ clearInFlightIfSettled(u)
      BY <3>3 DEF DeferHook, CountHook, MarkHook, ScheduleHook, clearInFlightIfSettled
    <3>4. QED
      BY <2>1, <3>1, <3>2, <3>3 DEF Dispatch
  <2>3. QED
    BY <1>2, <1>3, <1>4, <2>2
<1>6. CASE UNCHANGED stage
  BY <1>6
<1>7. (\E u \in Row : Dispatch(u) \/ DispatchDies(u)) \/ UNCHANGED stage
  <2>1. ASSUME NEW w \in Ticker, TickStep(w) \/ HostFails(w) \/ Crash(w)
        PROVE  UNCHANGED stage
    <3>1. CASE Due(w) \/ acquireLease(w) \/ Resolve(w) \/ HostFails(w) \/ Crash(w)
      BY <3>1 DEF Due, acquireLease, Resolve, LoseLease, HostFails, Crash, TickFrame, rows
    <3>2. CASE Decide(w)
      BY <3>2 DEF Decide, Finishing, Silent, TickFrame, rows
    <3>3. CASE CancelSends(w) \/ ReadInFlight(w) \/ Reconcile(w) \/ ReconcileMark(w)
               \/ ReconcileSchedule(w)
      BY <3>3 DEF CancelSends, ReadInFlight, Reconcile, ReconcileMark, ReconcileSchedule, TickFrame, rows
    <3>4. CASE Reconciled(w) \/ Fresh(w) \/ Timing(w)
      BY <3>4 DEF Reconciled, Fresh, Timing, Finishing, Silent, LoseLease, TickFrame, rows
    <3>5. CASE Recipients(w) \/ Reread(w) \/ Abandon(w) \/ settleActionDates(w) \/ RenewForRows(w)
      BY <3>5 DEF Recipients, Reread, Abandon, settleActionDates, RenewForRows, LoseLease, TickFrame, rows
    <3>6. CASE Write(w) \/ InsertRows(w) \/ Enqueue(w) \/ releaseLease(w)
      BY <3>6 DEF Write, InsertRows, Enqueue, releaseLease, TickFrame, rows
    <3>7. QED
      BY <2>1, <3>1, <3>2, <3>3, <3>4, <3>5, <3>6 DEF TickStep
  <2>2. CASE Operators \/ Pass \/ Slow \/ UNCHANGED vars
    BY <2>2 DEF Operators, Abort, SetEnabled, CancelForOperator, FireExit, FactsChange, Click, Wake,
       World, Pass, Slow, vars, rows
  <2>3. QED
    BY <2>1, <2>2 DEF Next
<1>8. QED
  BY <1>5, <1>6, <1>7

LEMMA PlainStep ==
  ASSUME TypeInv, Plain, [Next]_vars PROVE Plain'
<1> SUFFICES ASSUME NEW s \in Row, stage'[s] \in {"facts", "done"} PROVE ActionOf(s)' # Ask
  BY DEF Plain, Row, Decision
<1>1. Typed
  BY DEF TypeInv
<1>2. stage[s] # "none" /\ ActionOf(s) # Ask
  BY <1>1, StagesMove DEF Plain
<1>3. s[1] \in 1..Len(asked)
  BY <1>1, <1>2, StageRow DEF Row, Decision, Typed
<1>4. asked'[s[1]] = asked[s[1]]
  BY <1>1, <1>3, AskedKept
<1>5. QED
  BY <1>2, <1>4 DEF ActionOf

LEMMA TypeStep ==
  ASSUME TypeInv, Plain, [Next]_vars PROVE TypeInv'
<1>1. ASSUME NEW w \in Ticker, TickStep(w) PROVE TypeInv'
  BY <1>1, TypeDue, TypeAcquire, TypeResolve, TypeDecide, TypeCancelSends, TypeRead, TypeReconcile,
     TypeMark, TypeSchedule, TypeReconciled, TypeFresh, TypeTiming, TypeRecipients, TypeWrite,
     TypeReread, TypeAbandon, TypeSettle, TypeRenew, TypeInsert, TypeEnqueue, TypeRelease DEF TickStep
<1>2. ASSUME NEW w \in Ticker, HostFails(w) \/ Crash(w) PROVE TypeInv'
  BY <1>2, TypeFails, TypeCrash
<1>3. ASSUME NEW s \in Row, GuardDone(s) PROVE ActionOf(s) # Ask
  BY <1>3 DEF Plain, GuardDone
<1>4. ASSUME NEW s \in Row, Dispatch(s) \/ DispatchDies(s) PROVE TypeInv'
  BY <1>3, <1>4, TypeClaim, TypeGuard, TypeDone, TypeCancelRow, TypeRefused, TypeDefer, TypeCountHook,
     TypeClear, TypeSweep, TypeDies DEF Dispatch
<1>5. CASE Operators \/ Pass \/ Slow
  BY <1>5, TypeWorld
<1>6. CASE UNCHANGED vars
  <2>1. UNCHANGED <<case, rows, asked, pc, tick, clock, facts, clickAt, budget, run>>
    BY <1>6 DEF vars, outside
  <2>2. QED
    BY <2>1, WorldMoves DEF TypeInv, Typed
<1>7. QED
  BY <1>1, <1>2, <1>4, <1>5, <1>6 DEF Next

\* The run keeps the shape of its schema.
LEMMA TypeHolds == TypeInv => TypeOK
<1> SUFFICES ASSUME TypeInv PROVE TypeOK
  OBVIOUS
<1>1. Typed /\ run \in RunRec(Actions)
  BY DEF TypeInv, Typed
<1>2. run \in RunDoc
  BY <1>1 DEF RunRec, RunDoc, LeaseRec
<1>3. DOMAIN run.acts \subseteq Actions /\ \A a \in DOMAIN run.acts : run.acts[a] \in ActState
  BY <1>1, RunFields DEF ActsOver
<1>4. \A d \in 1..Len(asked) : asked[d] \in Question(Actions)
  BY <1>1 DEF Typed
<1>5. QED
  BY <1>1, <1>2, <1>3, <1>4 DEF TypeOK, Typed, RowStatus, Question

\* Whatever ticks, hooks and aborts write, the run has the shape of its schema
\* (ProgramRunDoc), and each row belongs to a decision that was made.
THEOREM TypeCorrect == Spec => []TypeOK
<1>1. TypeInv /\ Plain /\ [Next]_vars => TypeInv' /\ Plain'
  BY TypeStep, PlainStep
<1>2. QED
  BY <1>1, TypeInit, TypeHolds, PTL DEF Spec

-----------------------------------------------------------------------------
(* One decision at a time.                                                 *)

\* No two executions of a tick have one worker id.
OwnProcesses == \A w, v \in Ticker : Process[w] = Process[v] => w = v

\* The row may still reach the provider, as a tick sees it.
InF(s)    == sendIsInFlight(s, clock)
NoneGoing == \A s \in Row : InF(s) => revived

\* A tick that has checked its lease, and has not called the host since, holds it.
OwnPlaces == {"decide", "cancelSends", "inFlight", "reconcile", "fresh", "timing", "finish",
              "abandon", "renew", "insert"} \cup Marking
AtWork(w) == pc[w] \in OwnPlaces \/ (pc[w] = "settle" /\ tick[w].sends)
Leased(w) == AtWork(w) => Owns(w) /\ run.lease.until >= clock

\* The marker names the decision whose rows are in flight, in the run and in the
\* copy of the tick that has the lease.
MarkerKnows  == run.status \in Active => \A s \in Row : InF(s) => run.inFlight = s[1] \/ revived
CopyKnows(w) == pc[w] \in {"resolve", "decide", "inFlight"} /\ Owns(w)
                  => \A s \in Row : InF(s) => tick[w].run.inFlight = s[1] \/ revived

\* Where a tick has made sure that nothing is in flight.
Ending(w) == "status" \in tick[w].set /\ tick[w].next.status \notin Active
Sure(w) == \/ pc[w] \in {"reconcile"} \cup Marking /\ ~tick[w].busy
           \/ pc[w] \in {"fresh", "timing", "renew", "insert"}
           \/ pc[w] = "recipients" /\ Owns(w)
           \/ pc[w] \in {"finish", "settle"} /\ tick[w].sends
           \/ pc[w] = "finish" /\ "inFlight" \in tick[w].set /\ ~Ending(w)
Settled(w) == Sure(w) => NoneGoing

\* Before that it clears no marker, unless it ends the run; it learns of a wake
\* by reading the run again, and then means to be back soon.
Later == {"finish", "abandon", "settle", "renew", "insert", "enqueue", "release"}
Early == {"idle", "acquire"}
Careful(w) ==
  /\ 0 < clock /\ tick[w].now <= clock
  /\ pc[w] \notin Early => 0 < tick[w].now
  /\ pc[w] = "cancelSends" => Ending(w)
  /\ pc[w] \in {"inFlight", "reconcile"} \cup Marking => "inFlight" \notin tick[w].set
  /\ tick[w].sends => pc[w] \in Later
  /\ pc[w] \notin Later => tick[w].wake = tick[w].run.wake
  /\ pc[w] = "finish" => "nextTick" \in tick[w].set \/ Ending(w)
  /\ pc[w] = "finish" /\ tick[w].wake # tick[w].run.wake /\ "nextTick" \in tick[w].set
       => tick[w].next.nextTick <= tick[w].now + 1

\* Between the write of a decision and its rows.
Deciding(w) == pc[w] \in {"renew", "insert"} \/ (pc[w] = "settle" /\ tick[w].sends)
Pending(w) == Deciding(w) =>
  /\ \A s \in tick[w].todo : s[1] = Len(asked)
  /\ \A s \in Row : s[1] = Len(asked) => send[s] = "none"
  /\ case.arm = "treatment" => run.inFlight = Len(asked) \/ run.status \notin Active \/ revived

OneGoing == \A s, u \in Row : InF(s) /\ InF(u) => s[1] = u[1] \/ revived

Ticking(w) == Leased(w) /\ CopyKnows(w) /\ Settled(w) /\ Careful(w) /\ Pending(w)
FlightInv  == MarkerKnows /\ OneGoing /\ \A w \in Ticker : Ticking(w)

\* The dispatch works on a row that it has claimed.
Working == \A s \in Row : stage[s] \in {"guard", "facts", "done", "cancel", "accept"} => send[s] = "sending"

\* A tick whose lease is not its own is nowhere near a write; nor is any tick
\* while another has a lease that has not run out.
LEMMA OthersRest ==
  ASSUME OwnProcesses, FlightInv, NEW w \in Ticker, Owns(w), NEW v \in Ticker, v # w
  PROVE  ~Owns(v) /\ ~AtWork(v) /\ ~Sure(v) /\ ~Deciding(v)
<1>1. ~Owns(v)
  BY DEF OwnProcesses, Owns
<1>2. ~AtWork(v)
  BY <1>1 DEF FlightInv, Ticking, Leased
<1>3. QED
  BY <1>1, <1>2 DEF AtWork, Sure, Deciding, OwnPlaces, Marking

LEMMA FreeRest ==
  ASSUME TypeInv, FlightInv, LeaseFree, NEW v \in Ticker
  PROVE  ~AtWork(v) /\ ~Deciding(v) /\ (Sure(v) => Owns(v))
<1>1. run.lease.until \in Nat /\ clock \in Nat
  BY RunFields DEF TypeInv, Typed, LeaseRec
<1>2. Process[v] # Nobody
  BY ProgramRunAssumption
<1>3. ~AtWork(v)
  BY <1>1, <1>2 DEF FlightInv, Ticking, Leased, LeaseFree, NoLease, Owns
<1>4. QED
  BY <1>3 DEF AtWork, Sure, Deciding, OwnPlaces, Marking

\* A tick that does not move is still right if no row comes to be in flight, its
\* lease is not taken while it works, and nobody moves the marker of its decision.
LEMMA Stays ==
  ASSUME TypeInv, FlightInv, NEW v \in Ticker,
         pc'[v] = pc[v], tick'[v] = tick[v], UNCHANGED <<clock, case, asked>>,
         revived => revived',
         \A s \in Row : InF(s)' => InF(s) \/ revived',
         \A s \in Row : send[s] = "none" => send'[s] = "none",
         Owns(v)' => Owns(v),
         AtWork(v) => Owns(v)' /\ run'.lease.until >= clock,
         Deciding(v) /\ case.arm = "treatment" =>
                    run'.inFlight = run.inFlight \/ run'.status \notin Active \/ revived',
         run.status \notin Active => run'.status \notin Active \/ revived'
  PROVE  Ticking(v)'
<1>1. Leased(v) /\ CopyKnows(v) /\ Settled(v) /\ Careful(v) /\ Pending(v)
  BY DEF FlightInv, Ticking
<1>2. Leased(v)'
  BY DEF Leased, AtWork
<1>3. CopyKnows(v)'
  BY <1>1 DEF CopyKnows
<1>4. Settled(v)'
  <2>1. Sure(v)' => Sure(v)
    BY DEF Sure, Ending
  <2>2. QED
    BY <1>1, <2>1 DEF Settled, NoneGoing
<1>5. Careful(v)'
  BY <1>1 DEF Careful, Ending
<1>6. Pending(v)'
  BY <1>1 DEF Pending, Deciding
<1>7. QED
  BY <1>2, <1>3, <1>4, <1>5, <1>6 DEF Ticking

\* So is one that does not move while the owner of the lease does.
LEMMA Waits ==
  ASSUME OwnProcesses, TypeInv, FlightInv, NEW w \in Ticker, Owns(w), NEW v \in Ticker, v # w,
         pc'[v] = pc[v], tick'[v] = tick[v], UNCHANGED clock, Owns(v)' => Owns(v)
  PROVE  Ticking(v)'
<1>1. ~Owns(v) /\ ~AtWork(v) /\ ~Sure(v) /\ ~Deciding(v) /\ ~Owns(v)'
  BY OthersRest
<1>2. Careful(v)'
  BY DEF FlightInv, Ticking, Careful, Ending
<1>3. Leased(v)' /\ CopyKnows(v)'
  BY <1>1 DEF Leased, AtWork, CopyKnows
<1>4. Settled(v)'
  BY <1>1 DEF Settled, Sure, Ending
<1>5. Pending(v)'
  BY <1>1 DEF Pending, Deciding
<1>6. QED
  BY <1>2, <1>3, <1>4, <1>5 DEF Ticking

\* A step of the dispatch or of the world.
LEMMA HookFlight ==
  ASSUME TypeInv, FlightInv, UNCHANGED <<clock, case, asked, pc, tick>>,
         revived => revived',
         \A s \in Row : InF(s)' => InF(s) \/ revived',
         \A s \in Row : send[s] = "none" => send'[s] = "none",
         run'.lease = run.lease,
         run.status \notin Active => run'.status \notin Active \/ revived',
         \/ run'.inFlight = run.inFlight
         \/ run'.status \notin Active
         \/ /\ \A s \in Row : s[1] = run.inFlight => ~InF(s)'
            /\ \E s \in Row : s[1] = run.inFlight /\ send[s] # "none"
  PROVE  FlightInv'
<1>1. OneGoing'
  BY DEF FlightInv, OneGoing
<1>2. MarkerKnows'
  BY DEF FlightInv, MarkerKnows
<1>3. ASSUME NEW v \in Ticker PROVE Ticking(v)'
  <2>1. AtWork(v) => Owns(v)' /\ run'.lease.until >= clock
    BY DEF FlightInv, Ticking, Leased, Owns
  <2>2. Deciding(v) => \A s \in Row : s[1] = Len(asked) => send[s] = "none"
    BY DEF FlightInv, Ticking, Pending
  <2>3. Deciding(v) /\ case.arm = "treatment"
          => run.inFlight = Len(asked) \/ run.status \notin Active \/ revived
    BY DEF FlightInv, Ticking, Pending
  <2>4. ASSUME Deciding(v), case.arm = "treatment"
        PROVE  run'.inFlight = run.inFlight \/ run'.status \notin Active \/ revived'
    BY <2>2, <2>3, <2>4
  <2>5. QED
    BY <2>1, <2>4, Stays DEF Owns
<1>4. QED
  BY <1>1, <1>2, <1>3 DEF FlightInv

\* A hook that leaves the rows alone.
LEMMA HookKeeps ==
  ASSUME TypeInv, FlightInv, UNCHANGED <<clock, case, asked, pc, tick, send, touched>>,
         revived => revived', run'.lease = run.lease, run'.inFlight = run.inFlight,
         run.status \notin Active => run'.status \notin Active \/ revived'
  PROVE  FlightInv'
<1>1. \A s \in Row : InF(s)' => InF(s)
  BY DEF InF, sendIsInFlight
<1>2. QED
  BY <1>1, HookFlight

\* A step of the dispatch that leaves the run alone.
LEMMA RowFlight ==
  ASSUME TypeInv, FlightInv, UNCHANGED <<clock, case, asked, pc, tick, run>>,
         revived => revived', NEW s \in Row, send[s] # "none", NEW st, SetSend(s, st),
         st \in InFlight \cup {"failed"} => InF(s) \/ revived'
  PROVE  FlightInv'
<1>1. send \in [Row -> RowStatus] /\ touched \in [Row -> Nat]
  BY DEF TypeInv, Typed
<1>2. \A u \in Row : /\ send'[u] = IF u = s THEN st ELSE send[u]
                     /\ touched'[u] = IF u = s THEN clock ELSE touched[u]
  BY <1>1 DEF SetSend
<1>3. \A u \in Row : InF(u)' => InF(u) \/ revived'
  BY <1>2 DEF InF, sendIsInFlight
<1>4. \A u \in Row : send[u] = "none" => send'[u] = "none"
  BY <1>2
<1>5. QED
  BY <1>3, <1>4, HookFlight

LEMMA FlightClaim ==
  ASSUME TypeInv, FlightInv, NEW s \in Row, Claim(s) PROVE FlightInv'
<1>1. /\ UNCHANGED <<clock, case, asked, pc, tick, run>>
      /\ revived' = (revived \/ (send[s] = "failed" /\ clock - touched[s] >= Recheck))
  BY DEF Claim, outside
<1>2. CASE send[s] \in {"queued", "failed", "deferred"}
  <2>1. clock - touched[s] \in Int /\ Recheck \in Nat
    BY Numbers DEF TypeInv, Typed
  <2>2. InF(s) \/ revived'
    <3>1. CASE send[s] \in {"queued", "deferred"}
      BY <3>1 DEF InF, sendIsInFlight, InFlight
    <3>2. CASE send[s] = "failed" /\ clock - touched[s] < Recheck
      BY <3>2 DEF InF, sendIsInFlight
    <3>3. CASE send[s] = "failed" /\ clock - touched[s] >= Recheck
      BY <1>1, <3>3
    <3>4. QED
      BY <1>2, <2>1, <3>1, <3>2, <3>3
  <2>3. SetSend(s, "sending")
    BY <1>2 DEF Claim
  <2>4. QED
    BY <1>1, <1>2, <2>2, <2>3, RowFlight
<1>3. CASE send[s] \notin {"queued", "failed", "deferred"}
  BY <1>1, <1>3, HookKeeps DEF Claim
<1>4. QED
  BY <1>2, <1>3

LEMMA FlightRow ==
  ASSUME TypeInv, FlightInv, Working, NEW s \in Row,
         CancelRow(s) \/ Accepted(s) \/ Refused(s) \/ Sweep(s)
  PROVE  FlightInv'
<1>1. send[s] = "sending"
  BY DEF Working, CancelRow, Accepted, Refused, Sweep
<1>2. UNCHANGED <<clock, case, asked, pc, tick, run, revived, overtaken>>
  BY DEF CancelRow, Accepted, Refused, Sweep, DispatchFrame, outside
<1>3. PICK st : SetSend(s, st)
  BY DEF CancelRow, Accepted, Refused, Sweep
<1>4. InF(s)
  BY <1>1 DEF InF, sendIsInFlight, InFlight
<1>5. QED
  BY <1>1, <1>2, <1>3, <1>4, RowFlight

\* What a counted row does to the run.
LEMMA CountedKeeps ==
  ASSUME TypeInv, NEW s \in Row, s[1] <= Len(asked)
  PROVE  /\ Counted(s).lease = run.lease /\ Counted(s).inFlight = run.inFlight
         /\ Counted(s).wake = run.wake
         /\ run.status \in Active <=> Counted(s).status \in Active
<1>1. Typed /\ run \in RunRec(Actions)
  BY DEF TypeInv, Typed
<1>2. QED
  BY <1>1 DEF Counted, CountAt, AskDue, RunRec, Active

LEMMA ScheduledKeeps ==
  ASSUME TypeInv, NEW s
  PROVE  /\ Scheduled(s).lease = run.lease /\ Scheduled(s).inFlight = run.inFlight
         /\ Scheduled(s).wake = run.wake /\ Scheduled(s).status = run.status
<1>1. run \in RunRec(Actions)
  BY DEF TypeInv, Typed
<1>2. QED
  BY <1>1 DEF Scheduled, RunRec

LEMMA FlightHooks ==
  ASSUME TypeInv, FlightInv, NEW s \in Row,
         \/ Guard(s) \/ GuardFacts(s) \/ GuardDone(s) \/ DeferHook(s) \/ CountHook(s) \/ MarkHook(s)
         \/ ScheduleHook(s) \/ DispatchDies(s)
  PROVE  FlightInv'
<1>1. /\ UNCHANGED <<clock, case, asked, pc, tick, send, touched>>
      /\ revived => revived'
  <2>1. CASE Guard(s)
    BY <2>1 DEF Guard, Verdict, HookFrame, outside
  <2>2. CASE GuardFacts(s)
    BY <2>2 DEF GuardFacts, Verdict, HookFrame, outside
  <2>3. CASE GuardDone(s) \/ DeferHook(s) \/ CountHook(s) \/ ScheduleHook(s)
    BY <2>3 DEF GuardDone, DeferHook, CountHook, ScheduleHook, HookFrame, SetRun, outside
  <2>4. CASE MarkHook(s) \/ DispatchDies(s)
    BY <2>4 DEF MarkHook, DispatchDies, HookFrame, DispatchFrame, outside
  <2>5. QED
    BY <2>1, <2>2, <2>3, <2>4
<1>2. run \in RunRec(Actions)
  BY DEF TypeInv, Typed
<1>3. /\ run'.lease = run.lease /\ run'.inFlight = run.inFlight
      /\ run.status \notin Active => run'.status \notin Active
  <2>1. CASE Guard(s) \/ GuardFacts(s) \/ MarkHook(s) \/ DispatchDies(s)
    BY <2>1 DEF Guard, GuardFacts, MarkHook, DispatchDies, Verdict, DispatchFrame
  <2>2. CASE GuardDone(s)
    <3>1. PICK acts : run' = run \/ run' = [run EXCEPT !.acts = acts]
      BY <2>2 DEF GuardDone, SetRun
    <3>2. QED
      BY <1>2, <3>1 DEF RunRec
  <2>3. CASE DeferHook(s)
    BY <1>2, <2>3 DEF DeferHook, SetRun, RunRec
  <2>4. CASE CountHook(s)
    <3>1. s[1] <= Len(asked)
      BY <2>4, StageRow DEF CountHook
    <3>2. QED
      BY <2>4, <3>1, CountedKeeps DEF CountHook, SetRun
  <2>5. CASE ScheduleHook(s)
    BY <2>5, ScheduledKeeps DEF ScheduleHook, SetRun
  <2>6. QED
    BY <2>1, <2>2, <2>3, <2>4, <2>5
<1>4. QED
  BY <1>1, <1>3, HookKeeps

\* The marker goes once nothing of its decision is in flight.
LEMMA FlightClear ==
  ASSUME TypeInv, FlightInv, NEW s \in Row, clearInFlightIfSettled(s) PROVE FlightInv'
<1>1. /\ UNCHANGED <<clock, case, asked, pc, tick, send, touched>>
      /\ revived => revived'
  BY DEF clearInFlightIfSettled, HookFrame, SetRun, outside
<1>2. run \in RunRec(Actions) /\ send[s] # "none"
  BY StageRow DEF TypeInv, Typed, clearInFlightIfSettled
<1>3. CASE run' = run
  BY <1>1, <1>3, HookKeeps
<1>4. CASE run' # run
  <2>1. /\ run' = [run EXCEPT !.inFlight = NoDecision] /\ run.inFlight = s[1]
        /\ \A r \in RowsOf(s[1]) : ~sendIsInFlight(r, clock)
    BY <1>4 DEF clearInFlightIfSettled, SetRun
  <2>2. run'.lease = run.lease /\ run'.status = run.status
    BY <1>2, <2>1 DEF RunRec
  <2>3. ASSUME NEW u \in Row, s[1] = u[1] PROVE ~InF(u)'
    <3>1. ~InF(u)
      BY <2>1, <2>3 DEF RowsOf, InF, sendIsInFlight, InFlight
    <3>2. QED
      BY <1>1, <3>1 DEF InF, sendIsInFlight
  <2>4. \A u \in Row : InF(u)' => InF(u)
    BY <1>1 DEF InF, sendIsInFlight
  <2>5. \E u \in Row : u[1] = run.inFlight /\ send[u] # "none"
    BY <1>2, <2>1
  <2>6. QED
    BY <1>1, <2>1, <2>2, <2>3, <2>4, <2>5, HookFlight
<1>5. QED
  BY <1>3, <1>4

\* Rows that are cancelled are in flight no more.
LEMMA CancelledRows ==
  ASSUME TypeInv, CancelRows, UNCHANGED clock
  PROVE  /\ \A s \in Row : InF(s)' => InF(s)
         /\ \A s \in Row : send[s] = "none" => send'[s] = "none"
<1>1. \A s \in Row : /\ send'[s] = Cancelled(s)
                     /\ touched'[s] = IF Cancelled(s) = send[s] THEN touched[s] ELSE clock
  BY DEF CancelRows
<1>2. \A s \in Row : Cancelled(s) = send[s] \/ Cancelled(s) = "cancelled"
  BY DEF Cancelled
<1>3. QED
  BY <1>1, <1>2 DEF InF, sendIsInFlight, InFlight, Cancelled

LEMMA FlightWorld ==
  ASSUME TypeInv, FlightInv, Operators PROVE FlightInv'
<1>1. run \in RunRec(Actions)
  BY DEF TypeInv, Typed
<1>2. CASE Abort
  <2>1. UNCHANGED <<clock, case, asked, pc, tick, send, touched>> /\ (revived => revived')
        /\ run' = [run EXCEPT !.status = "exited", !.inFlight = NoDecision]
    BY <1>2 DEF Abort, World, SetRun, rows
  <2>2. run'.status \notin Active /\ run'.lease = run.lease
    BY <1>1, <2>1 DEF RunRec, Active
  <2>3. \A s \in Row : InF(s)' => InF(s)
    BY <2>1 DEF InF, sendIsInFlight
  <2>4. QED
    BY <2>1, <2>2, <2>3, HookFlight
<1>3. CASE CancelForOperator
  <2>1. CancelRows /\ UNCHANGED <<clock, case, run, revived, overtaken, asked, pc, tick>>
    BY <1>3 DEF CancelForOperator
  <2>2. QED
    BY <2>1, CancelledRows, HookFlight
<1>4. CASE Wake
  <2>1. UNCHANGED <<clock, case, asked, pc, tick, send, touched>> /\ (revived => revived')
    BY <1>4 DEF Wake, World, SetRun, rows
  <2>2. run'.lease = run.lease /\ run'.inFlight = run.inFlight /\ run'.status = run.status
    BY <1>1, <1>4 DEF Wake, SetRun, RunRec
  <2>3. QED
    BY <2>1, <2>2, HookKeeps
<1>5. CASE SetEnabled \/ FireExit \/ FactsChange \/ Click
  <2>1. UNCHANGED <<clock, case, asked, pc, tick, send, touched, run, revived, overtaken>>
    BY <1>5 DEF SetEnabled, FireExit, FactsChange, Click, World, rows
  <2>2. QED
    BY <2>1, HookKeeps
<1>6. QED
  BY <1>2, <1>3, <1>4, <1>5 DEF Operators

\* The clock passes while nobody is between two operations.
LEMMA FlightClock ==
  ASSUME TypeInv, FlightInv, Pass \/ Slow PROVE FlightInv'
<1>1. /\ UNCHANGED <<outside, run, revived, overtaken, rows, asked, pc, tick>> /\ clock' = clock + 1 /\ clock \in Nat
      /\ \A w \in Ticker : pc[w] \in {"idle", "resolve", "recipients"}
  BY DEF Pass, Slow, Quick, TypeInv, Typed
<1>2. \A s \in Row : InF(s)' => InF(s)
  BY <1>1, Numbers DEF InF, sendIsInFlight, rows, TypeInv, Typed
<1>3. MarkerKnows' /\ OneGoing'
  BY <1>1, <1>2 DEF FlightInv, MarkerKnows, OneGoing
<1>4. ASSUME NEW w \in Ticker PROVE Ticking(w)'
  <2>1. pc[w] \in {"idle", "resolve", "recipients"} /\ pc'[w] = pc[w] /\ tick'[w] = tick[w]
    BY <1>1
  <2>2. Leased(w)' /\ Pending(w)'
    BY <2>1 DEF Leased, AtWork, OwnPlaces, Marking, Pending, Deciding
  <2>3. CopyKnows(w)' /\ Settled(w)'
    BY <1>1, <1>2, <2>1 DEF FlightInv, Ticking, CopyKnows, Settled, Sure, Marking, NoneGoing, Owns
  <2>4. tick[w].now \in Nat
    BY TickFields DEF TypeInv
  <2>5. Careful(w)'
    BY <1>1, <2>1, <2>4 DEF FlightInv, Ticking, Careful, Early, Marking
  <2>6. QED
    BY <2>2, <2>3, <2>5 DEF Ticking
<1>5. QED
  BY <1>3, <1>4 DEF FlightInv

\* A step of a tick: the others stay as they are.
LEMMA TickFlight ==
  ASSUME OwnProcesses, TypeInv, FlightInv, NEW w \in Ticker, NEW place, NEW t,
         UNCHANGED <<clock, case, asked, send, touched>>,
         pc' = [pc EXCEPT ![w] = place], tick' = [tick EXCEPT ![w] = t],
         revived => revived', run'.inFlight = run.inFlight,
         run.status \notin Active => run'.status \notin Active \/ revived',
         \/ run'.lease = run.lease
         \/ run'.lease.owner = run.lease.owner /\ run'.lease.until >= clock
         \/ LeaseFree /\ run'.lease.owner = Process[w]
         \/ Owns(w) /\ run'.lease = NoLease,
         Ticking(w)'
  PROVE  FlightInv'
<1>1. \A s \in Row : InF(s)' => InF(s)
  BY DEF InF, sendIsInFlight
<1>2. MarkerKnows' /\ OneGoing'
  BY <1>1 DEF FlightInv, MarkerKnows, OneGoing
<1>3. ASSUME NEW v \in Ticker, v # w PROVE Ticking(v)'
  <2>1. pc'[v] = pc[v] /\ tick'[v] = tick[v] /\ Process[v] # Nobody
    BY <1>3, ProgramRunAssumption DEF TypeInv, Typed
  <2>2. Owns(v)' => Owns(v)
    BY <1>3, <2>1 DEF Owns, NoLease, OwnProcesses
  <2>3. AtWork(v) => Owns(v)' /\ run'.lease.until >= clock
    <3>1. AtWork(v) => Owns(v) /\ run.lease.until >= clock
      BY DEF FlightInv, Ticking, Leased
    <3>2. CASE LeaseFree /\ run'.lease.owner = Process[w]
      BY <3>2, FreeRest
    <3>3. CASE Owns(w) /\ run'.lease = NoLease
      BY <1>3, <3>3, OthersRest
    <3>4. QED
      BY <3>1, <3>2, <3>3 DEF Owns
  <2>4. QED
    BY <1>1, <2>1, <2>2, <2>3, Stays
<1>4. QED
  BY <1>2, <1>3 DEF FlightInv

\* The end of a tick, wherever it was.
LEMMA FlightStop ==
  ASSUME OwnProcesses, TypeInv, FlightInv, NEW w \in Ticker, Stop(w),
         UNCHANGED <<clock, case, asked, send, touched>>,
         revived => revived', run'.inFlight = run.inFlight,
         run.status \notin Active => run'.status \notin Active \/ revived',
         \/ run'.lease = run.lease
         \/ Owns(w) /\ run'.lease = NoLease
  PROVE  FlightInv'
<1>1. pc' = [pc EXCEPT ![w] = "idle"] /\ tick' = [tick EXCEPT ![w] = NoTick]
  BY DEF Stop, Goto
<1>2. pc'[w] = "idle" /\ tick'[w] = NoTick /\ clock' \in Nat
  BY <1>1 DEF TypeInv, Typed
<1>3. NoTick.now = 0 /\ NoTick.sends = FALSE /\ NoTick.wake = NoTick.run.wake /\ 0 < clock
  BY DEF NoTick, NewRun, FlightInv, Ticking, Careful
<1>4. Ticking(w)'
  BY <1>2, <1>3 DEF Ticking, Leased, AtWork, OwnPlaces, Marking, CopyKnows, Settled, Sure, Careful,
                    Early, Later, Pending, Deciding
<1>5. QED
  BY <1>1, <1>4, TickFlight

LEMMA FlightEnds ==
  ASSUME OwnProcesses, TypeInv, FlightInv, NEW w \in Ticker,
         LoseLease(w) \/ HostFails(w) \/ Crash(w) \/ releaseLease(w)
  PROVE  FlightInv'
<1>1. run \in RunRec(Actions)
  BY DEF TypeInv, Typed
<1>2. CASE LoseLease(w)
  BY <1>2, FlightStop DEF LoseLease, TickFrame, rows, outside
<1>3. CASE Crash(w)
  BY <1>3, FlightStop DEF Crash, rows, outside
<1>4. CASE releaseLease(w)
  <2>1. run'.inFlight = run.inFlight /\ run'.status = run.status
        /\ (run'.lease = run.lease \/ (Owns(w) /\ run'.lease = NoLease))
    BY <1>1, <1>4 DEF releaseLease, SetRun, RunRec
  <2>2. Stop(w) /\ UNCHANGED <<clock, case, asked, send, touched>> /\ (revived => revived')
    BY <1>4 DEF releaseLease, SetRun, TickFrame, rows, outside
  <2>3. QED
    BY <2>1, <2>2, FlightStop
<1>5. CASE HostFails(w)
  <2>1. PICK n : run' = [run EXCEPT !.lease = IF Owns(w) THEN NoLease ELSE @, !.nextTick = n]
    BY <1>5 DEF HostFails, SetRun
  <2>2. run'.inFlight = run.inFlight /\ run'.status = run.status
        /\ (run'.lease = run.lease \/ (Owns(w) /\ run'.lease = NoLease))
    BY <1>1, <2>1 DEF RunRec
  <2>3. Stop(w) /\ UNCHANGED <<clock, case, asked, send, touched>> /\ (revived => revived')
    BY <1>5 DEF HostFails, SetRun, rows, outside
  <2>4. QED
    BY <2>2, <2>3, FlightStop
<1>6. QED
  BY <1>2, <1>3, <1>4, <1>5

LEMMA FlightDue ==
  ASSUME OwnProcesses, TypeInv, FlightInv, NEW w \in Ticker, Due(w) PROVE FlightInv'
<1>1. pc[w] = "idle" /\ pc' = [pc EXCEPT ![w] = "acquire"]
      /\ UNCHANGED <<clock, case, asked, send, touched, run, revived, overtaken, tick>>
  BY DEF Due, Goto, outside, rows
<1>2. tick' = [tick EXCEPT ![w] = tick[w]] /\ pc'[w] = "acquire" /\ tick'[w] = tick[w]
  BY <1>1 DEF TypeInv, Typed
<1>3. Careful(w)
  BY DEF FlightInv, Ticking
<1>4. Ticking(w)'
  BY <1>1, <1>2, <1>3 DEF Ticking, Leased, AtWork, OwnPlaces, Marking, CopyKnows, Settled, Sure,
                          Careful, Early, Later, Pending, Deciding
<1>5. QED
  BY <1>1, <1>2, <1>4, TickFlight

\* The copy of a tick that takes the lease is the run.
LEMMA FlightAcquire ==
  ASSUME OwnProcesses, TypeInv, FlightInv, NEW w \in Ticker, acquireLease(w) PROVE FlightInv'
<1>1. run \in RunRec(Actions) /\ clock \in Nat /\ 0 < clock /\ NoTick \in TickRec(Actions)
  BY NoTickTyped DEF TypeInv, Typed, FlightInv, Ticking, Careful
<1>2. UNCHANGED <<clock, case, asked, send, touched>>
  BY DEF acquireLease, TickFrame, rows, outside
<1>3. CASE ~(run.status \in Active /\ LeaseFree)
  BY <1>2, <1>3, FlightStop DEF acquireLease
<1>4. CASE run.status \in Active /\ LeaseFree
  <2> DEFINE l == [owner |-> Process[w], until |-> clock + LeaseSpan]
             r == [run EXCEPT !.lease = l]
             t == [NoTick EXCEPT !.now = clock, !.run = r, !.next = r, !.wake = r.wake]
  <2>1. run' = r /\ pc' = [pc EXCEPT ![w] = "resolve"] /\ tick' = [tick EXCEPT ![w] = t]
        /\ (revived => revived')
    BY <1>4 DEF acquireLease, SetRun, Goto
  <2>2. l.owner = Process[w]
    OBVIOUS
  <2> HIDE DEF l
  <2>3. r.lease = l /\ r.inFlight = run.inFlight /\ r.status = run.status /\ r.wake = run.wake
    BY <1>1 DEF RunRec
  <2> HIDE DEF r
  <2>4. t.now = clock /\ t.run = r /\ t.wake = r.wake /\ t.sends = FALSE
    BY <1>1 DEF TickRec, NoTick
  <2> HIDE DEF t
  <2>5. pc'[w] = "resolve" /\ tick'[w] = t
    BY <2>1 DEF TypeInv, Typed
  <2>6. \A s \in Row : InF(s)' => InF(s)
    BY <1>2 DEF InF, sendIsInFlight
  <2>7. CopyKnows(w)'
    BY <1>4, <2>1, <2>3, <2>4, <2>5, <2>6 DEF FlightInv, MarkerKnows, CopyKnows
  <2>8. Careful(w)'
    BY <1>1, <1>2, <2>4, <2>5 DEF Careful, Early, Later, Marking
  <2>9. Leased(w)' /\ Settled(w)' /\ Pending(w)'
    BY <2>4, <2>5 DEF Leased, AtWork, OwnPlaces, Marking, Settled, Sure, Pending, Deciding
  <2>10. QED
    BY <1>2, <1>4, <2>1, <2>2, <2>3, <2>7, <2>8, <2>9, TickFlight DEF Ticking
<1>5. QED
  BY <1>3, <1>4

\* The host has answered, and the lease is still the tick's: its copy is right.
LEMMA FlightResolve ==
  ASSUME OwnProcesses, TypeInv, FlightInv, NEW w \in Ticker, Resolve(w) PROVE FlightInv'
<1>1. run \in RunRec(Actions) /\ clock \in Nat /\ tick[w] \in TickRec(Actions) /\ Typed
      /\ pc[w] = "resolve"
  BY TickFields DEF TypeInv, Typed, Resolve
<1>2. CASE LoseLease(w)
  BY <1>2, FlightEnds
<1>3. CASE ~LoseLease(w)
  <2> DEFINE t == [tick[w] EXCEPT !.facts = facts]
  <2>1. /\ Owns(w) /\ run' = Renewed(w) /\ pc' = [pc EXCEPT ![w] = "decide"] /\ (revived => revived')
        /\ tick' = [tick EXCEPT ![w].facts = facts] /\ UNCHANGED <<clock, case, asked, send, touched>>
    BY <1>3 DEF Resolve, SetRun, Goto, TickFrame, rows, outside
  <2>2. /\ run'.lease = [owner |-> run.lease.owner, until |-> clock + LeaseSpan]
        /\ run'.inFlight = run.inFlight /\ run'.status = run.status
    BY <1>1, <2>1, RenewedTyped DEF Fields, NewRun
  <2>3. run'.lease.owner = run.lease.owner /\ run'.lease.until >= clock
    BY <1>1, <2>2, Numbers
  <2>4. tick' = [tick EXCEPT ![w] = t] /\ tick'[w] = t /\ pc'[w] = "decide"
    BY <2>1 DEF TypeInv, Typed
  <2>5. t.now = tick[w].now /\ t.run = tick[w].run /\ t.wake = tick[w].wake /\ t.sends = tick[w].sends
    BY <1>1 DEF TickRec
  <2> HIDE DEF t
  <2>6. Leased(w)'
    BY <2>1, <2>3 DEF Leased, Owns
  <2>7. \A s \in Row : InF(s)' => InF(s)
    BY <2>1 DEF InF, sendIsInFlight
  <2>8. CopyKnows(w)'
    BY <1>1, <2>1, <2>4, <2>5, <2>7 DEF FlightInv, Ticking, CopyKnows
  <2>9. Careful(w)
    BY DEF FlightInv, Ticking
  <2>10. Careful(w)'
    BY <1>1, <2>1, <2>4, <2>5, <2>9 DEF Careful, Early, Later, Marking
  <2>11. Settled(w)' /\ Pending(w)'
    BY <1>1, <2>4, <2>5, <2>9 DEF Careful, Early, Later, Marking, Settled, Sure, Pending, Deciding
  <2>12. QED
    BY <2>1, <2>2, <2>3, <2>4, <2>6, <2>8, <2>10, <2>11, TickFlight DEF Ticking
<1>4. QED
  BY <1>2, <1>3

\* What the owner of the lease means to write: nothing that clears the marker
\* while something is in flight.
LEMMA FlightWants ==
  ASSUME OwnProcesses, TypeInv, FlightInv, NEW w \in Ticker, Owns(w), pc[w] \notin Later \cup Early,
         NEW next \in RunRec(Actions), NEW set \in SUBSET Fields, NEW at \in Nat,
         UNCHANGED <<clock, case, asked, send, touched>>,
         pc' = [pc EXCEPT ![w] = "finish"],
         tick' = [tick EXCEPT ![w] = Wants(tick[w], next, set, at)],
         revived => revived', run'.inFlight = run.inFlight, run'.status = run.status,
         run'.lease.owner = run.lease.owner, run'.lease.until >= clock,
         at # Never \/ ("status" \in set /\ next.status \notin Active),
         "inFlight" \in set /\ ("status" \in set => next.status \in Active) => NoneGoing
  PROVE  FlightInv'
<1>1. tick[w] \in TickRec(Actions) /\ clock \in Nat
  BY TickFields DEF TypeInv, Typed
<1>2. PICK u : u = Wants(tick[w], next, set, at)
  OBVIOUS
<1>3. u.run = tick[w].run /\ u.now = tick[w].now /\ u.wake = tick[w].wake /\ u.sends = tick[w].sends
  BY <1>1, <1>2, WantsKeeps
<1>4. \A f : f \in u.set <=> f \in set \/ (f = "nextTick" /\ at # Never)
  BY <1>1, <1>2, WantsFields
<1>5. u.next.status = next.status
  BY <1>1, <1>2, WantsFields
<1>6. pc'[w] = "finish" /\ tick'[w] = u
  BY <1>2 DEF TypeInv, Typed
<1>7. Careful(w)
  BY DEF FlightInv, Ticking
<1>8. 0 < clock /\ 0 < u.now /\ u.now <= clock /\ ~u.sends /\ u.wake = u.run.wake
  BY <1>3, <1>7 DEF Careful
<1>9. Careful(w)'
  BY <1>4, <1>5, <1>6, <1>8 DEF Careful, Early, Later, Marking, Ending
<1>10. \A s \in Row : InF(s)' => InF(s)
  BY DEF InF, sendIsInFlight
<1>11. Settled(w)'
  BY <1>4, <1>5, <1>6, <1>8, <1>10 DEF Settled, Sure, Marking, Ending, NoneGoing
<1>12. Leased(w)' /\ CopyKnows(w)' /\ Pending(w)'
  BY <1>6 DEF Leased, Owns, CopyKnows, Pending, Deciding
<1>13. QED
  BY <1>2, <1>9, <1>11, <1>12, TickFlight DEF Ticking

\* The owner of the lease goes on, with what it has, to a place where the same is
\* known of it.
LEMMA FlightGoes ==
  ASSUME OwnProcesses, TypeInv, FlightInv, NEW w \in Ticker, Owns(w), run.lease.until >= clock,
         NEW place, NEW u, UNCHANGED <<clock, case, asked, send, touched>>,
         pc' = [pc EXCEPT ![w] = place], tick' = [tick EXCEPT ![w] = u],
         revived => revived', run'.inFlight = run.inFlight, run'.lease = run.lease,
         run.status \in Active <=> run'.status \in Active,
         u.now = tick[w].now, u.run = tick[w].run, u.wake = tick[w].wake, ~u.sends, ~tick[w].sends,
         pc[w] \notin Later \cup Early,
         \/ place \in {"inFlight", "reconcile"} \cup Marking /\ "inFlight" \notin u.set
         \/ place \in {"fresh", "timing", "recipients"},
         place = "inFlight" => pc[w] = "decide",
         \/ place \in {"reconcile"} \cup Marking /\ u.busy
         \/ place = "inFlight"
         \/ NoneGoing
  PROVE  FlightInv'
<1>1. pc'[w] = place /\ tick'[w] = u
  BY DEF TypeInv, Typed
<1>2. Careful(w) /\ CopyKnows(w)
  BY DEF FlightInv, Ticking
<1>3. Careful(w)'
  BY <1>1, <1>2 DEF Careful, Early, Later, Marking
<1>4. \A s \in Row : InF(s)' => InF(s)
  BY DEF InF, sendIsInFlight
<1>5. Settled(w)'
  BY <1>1, <1>4 DEF Settled, Sure, Marking, NoneGoing
<1>6. CopyKnows(w)'
  BY <1>1, <1>2, <1>4 DEF CopyKnows, Marking
<1>7. Leased(w)' /\ Pending(w)'
  BY <1>1 DEF Leased, Owns, Pending, Deciding, Marking
<1>8. QED
  BY <1>3, <1>5, <1>6, <1>7, TickFlight DEF Ticking

\* The owner of the lease, at work.
LEMMA AtWorkOwns ==
  ASSUME TypeInv, FlightInv, NEW w \in Ticker, AtWork(w)
  PROVE  Owns(w) /\ run.lease.until >= clock
BY DEF FlightInv, Ticking, Leased

LEMMA FlightDecide ==
  ASSUME OwnProcesses, TypeInv, FlightInv, NEW w \in Ticker, Decide(w) PROVE FlightInv'
<1> DEFINE t == tick[w]
<1>1. Typed /\ t \in TickRec(Actions) /\ t.run \in RunRec(Actions)
  BY TickFields DEF TypeInv
<1>2. pc[w] = "decide" /\ Owns(w) /\ run.lease.until >= clock
  BY <1>1, DecideWays, AtWorkOwns DEF AtWork, OwnPlaces
<1>3. pc[w] \notin Later \cup Early /\ ~t.sends /\ Careful(w) /\ CopyKnows(w)
  BY <1>2 DEF Later, Early, FlightInv, Ticking, Careful
<1>4. CASE DecideExits(w)
  <2> DEFINE next == [t.run EXCEPT !.status = "exited", !.inFlight = NoDecision]
             set == {"status", "inFlight"}
  <2>1. next \in RunRec(Actions) /\ next.status = "exited"
    BY <1>1 DEF RunRec
  <2>2. /\ pc' = [pc EXCEPT ![w] = "cancelSends"]
        /\ tick' = [tick EXCEPT ![w] = Wants(tick[w], next, set, Never)]
        /\ UNCHANGED <<clock, case, asked, send, touched, run, revived, overtaken>>
    BY <1>4 DEF DecideExits, Finishing, Goto, TickFrame, rows, outside
  <2>3. PICK u : u = Wants(tick[w], next, set, Never)
    OBVIOUS
  <2>4. /\ u.run = t.run /\ u.now = t.now /\ u.wake = t.wake /\ u.sends = t.sends
    BY <1>1, <2>3, WantsKeeps
  <2>5. u.next.status = "exited" /\ "status" \in u.set
    <3> HIDE DEF next
    <3>1. "status" \in set
      OBVIOUS
    <3> HIDE DEF set
    <3>2. QED
      BY <1>1, <2>1, <2>3, <3>1, WantsFields
  <2> HIDE DEF next, set
  <2>6. pc'[w] = "cancelSends" /\ tick'[w] = u
    BY <1>1, <2>2, <2>3 DEF Typed
  <2>7. Careful(w)'
    BY <1>3, <2>2, <2>4, <2>5, <2>6 DEF Careful, Early, Later, Marking, Ending, Active
  <2>8. Leased(w)' /\ CopyKnows(w)' /\ Settled(w)' /\ Pending(w)'
    BY <1>2, <2>2, <2>6 DEF Leased, Owns, CopyKnows, Settled, Sure, Marking, Pending, Deciding
  <2>9. QED
    BY <2>2, <2>3, <2>7, <2>8, TickFlight DEF Ticking
<1>5. CASE DecideEnds(w)
  <2> DEFINE works == Works(P, t.run.acts, t.facts, t.now)
             next == [t.run EXCEPT !.status = "completed", !.acts = works]
             set == {"acts", "status"}
  <2>0. works \in ActsOver(Actions)
    BY <1>1, TickFields, RunFields, TheProgram, WorksTyped
  <2> HIDE DEF works
  <2>1. next \in RunRec(Actions) /\ next.status = "completed"
    <3> HIDE DEF t
    <3>1. PICK r \in RunRec(Actions) : r = t.run
      BY <1>1
    <3>2. [r EXCEPT !.status = "completed", !.acts = works] \in RunRec(Actions)
          /\ [r EXCEPT !.status = "completed", !.acts = works].status = "completed"
      BY <2>0 DEF RunRec
    <3>3. QED
      BY <3>1, <3>2
  <2>2. /\ pc' = [pc EXCEPT ![w] = "finish"]
        /\ tick' = [tick EXCEPT ![w] = Wants(tick[w], next, set, Never)]
        /\ UNCHANGED <<clock, case, asked, send, touched, run, revived, overtaken>>
    BY <1>5 DEF DecideEnds, Finishing, Goto, TickFrame, rows, outside, works
  <2>3. set \in SUBSET Fields /\ Never \in Nat /\ "inFlight" \notin set /\ "status" \in set
    BY DEF Fields, NewRun, Never
  <2>4. next.status \notin Active
    BY <2>1 DEF Active
  <2> HIDE DEF next, set
  <2>5. QED
    BY <1>2, <1>3, <2>1, <2>2, <2>3, <2>4, FlightWants
<1>6. CASE DecideSleeps(w)
  <2>1. PICK at \in Nat : Silent(w, DecidedRun(w), DecidedSet(w), at) /\ at # Never
    BY <1>6 DEF DecideSleeps
  <2>2. /\ pc' = [pc EXCEPT ![w] = "finish"]
        /\ tick' = [tick EXCEPT ![w] = Wants(tick[w], DecidedRun(w), DecidedSet(w), at)]
        /\ UNCHANGED <<clock, case, asked, send, touched, run, revived, overtaken>>
    BY <2>1 DEF Silent, Finishing, Goto, TickFrame, rows, outside
  <2>3. DecidedRun(w) \in RunRec(Actions) /\ DecidedSet(w) \in SUBSET Fields
        /\ "inFlight" \notin DecidedSet(w)
    BY <1>1, DecidedTyped
  <2>4. QED
    BY <1>2, <1>3, <2>1, <2>2, <2>3, FlightWants
<1>7. CASE DecideAsks(w)
  <2> DEFINE place == IF t.run.inFlight = NoDecision THEN "fresh" ELSE "inFlight"
             r == DecidedRun(w)
             set == DecidedSet(w)
  <2>1. PICK a \in Actions \cup {Ask}, n \in Nat \ {0} :
          tick' = [tick EXCEPT ![w].next = r, ![w].set = set, ![w].chosen = a, ![w].attempt = n]
    BY <1>7 DEF DecideAsks
  <2>2. /\ pc' = [pc EXCEPT ![w] = place]
        /\ UNCHANGED <<clock, case, asked, send, touched, run, revived, overtaken>>
    BY <1>7 DEF DecideAsks, Goto, TickFrame, rows, outside
  <2>3. "inFlight" \notin set
    BY <1>1, DecidedTyped
  <2> DEFINE u == [tick[w] EXCEPT !.next = r, !.set = set, !.chosen = a, !.attempt = n]
  <2> HIDE DEF r, set
  <2>4. tick' = [tick EXCEPT ![w] = u]
    BY <1>1, <2>1 DEF Typed
  <2>5. u.now = t.now /\ u.run = t.run /\ u.wake = t.wake /\ u.sends = t.sends /\ u.set = set
    BY <1>1 DEF TickRec
  <2> HIDE DEF u
  <2>6. t.run.inFlight = NoDecision => NoneGoing
    BY <1>2, <1>3 DEF CopyKnows, NoneGoing, Row, Decision, NoDecision
  <2>7. (place = "fresh" /\ NoneGoing) \/ place = "inFlight"
    BY <2>6
  <2> HIDE DEF place, t
  <2>8. QED
    BY <1>2, <1>3, <2>2, <2>3, <2>4, <2>5, <2>7, FlightGoes DEF t
<1>8. QED
  BY <1>1, <1>4, <1>5, <1>6, <1>7, DecideWays

\* A run that exits cancels its rows.
LEMMA FlightCancelSends ==
  ASSUME OwnProcesses, TypeInv, FlightInv, NEW w \in Ticker, CancelSends(w) PROVE FlightInv'
<1>1. /\ pc[w] = "cancelSends" /\ CancelRows /\ pc' = [pc EXCEPT ![w] = "finish"]
      /\ UNCHANGED <<clock, case, asked, tick, run, revived, overtaken>>
  BY DEF CancelSends, Goto, outside
<1>2. /\ \A s \in Row : InF(s)' => InF(s)
      /\ \A s \in Row : send[s] = "none" => send'[s] = "none"
  BY <1>1, CancelledRows
<1>3. Owns(w) /\ run.lease.until >= clock
  BY <1>1, AtWorkOwns DEF AtWork, OwnPlaces
<1>4. pc'[w] = "finish" /\ \A v \in Ticker : v # w => pc'[v] = pc[v]
  BY <1>1 DEF TypeInv, Typed
<1>5. MarkerKnows' /\ OneGoing'
  BY <1>1, <1>2 DEF FlightInv, MarkerKnows, OneGoing
<1>6. ASSUME NEW v \in Ticker, v # w PROVE Ticking(v)'
  BY <1>1, <1>3, <1>4, <1>6, Waits DEF Owns
<1>7. Careful(w)
  BY DEF FlightInv, Ticking
<1>8. Ending(w) /\ ~tick[w].sends
  BY <1>1, <1>7 DEF Careful, Early, Later
<1>9. Careful(w)'
  BY <1>1, <1>4, <1>7, <1>8 DEF Careful, Early, Later, Marking, Ending
<1>10. Leased(w)' /\ CopyKnows(w)' /\ Settled(w)' /\ Pending(w)'
  BY <1>1, <1>3, <1>4, <1>8 DEF Leased, Owns, CopyKnows, Settled, Sure, Ending, Marking, Pending, Deciding
<1>11. QED
  BY <1>5, <1>6, <1>9, <1>10 DEF FlightInv, Ticking

\* What the tick read of the decision in flight is true of all there is.
LEMMA FlightRead ==
  ASSUME OwnProcesses, TypeInv, FlightInv, NEW w \in Ticker, ReadInFlight(w) PROVE FlightInv'
<1> DEFINE read == RowsOf(tick[w].run.inFlight)
           todo == {s \in read : send[s] = "sent" /\ s \notin counted}
           busy == \E s \in read : sendIsInFlight(s, tick[w].now)
           stale == {s \in read : send[s] = "queued" /\ tick[w].now - touched[s] >= Recheck}
           u == [tick[w] EXCEPT !.todo = todo, !.busy = busy, !.stale = stale]
<1>1. Typed /\ tick[w] \in TickRec(Actions) /\ tick[w].now \in Nat /\ clock \in Nat
  BY TickFields DEF TypeInv, Typed
<1>2. /\ pc[w] = "inFlight" /\ pc' = [pc EXCEPT ![w] = "reconcile"]
      /\ UNCHANGED <<clock, case, asked, send, touched, run, revived, overtaken>>
  BY DEF ReadInFlight, Goto, TickFrame, rows, outside
<1>3. tick' = [tick EXCEPT ![w].todo = todo, ![w].busy = busy, ![w].stale = stale]
  BY DEF ReadInFlight
<1>4. Owns(w) /\ run.lease.until >= clock
  BY <1>2, AtWorkOwns DEF AtWork, OwnPlaces
<1>5. Careful(w) /\ CopyKnows(w) /\ pc[w] \notin Later \cup Early
  BY <1>2 DEF FlightInv, Ticking, Later, Early
<1>6. ~tick[w].sends /\ "inFlight" \notin tick[w].set /\ tick[w].now <= clock
  BY <1>2, <1>5 DEF Careful, Early, Later
<1>7. busy \/ NoneGoing
  <2> SUFFICES ASSUME ~busy, NEW s \in Row, InF(s), ~revived PROVE FALSE
    BY DEF NoneGoing
  <2>1. s[1] = tick[w].run.inFlight
    BY <1>2, <1>4, <1>5 DEF CopyKnows
  <2>2. s \in read
    BY <2>1 DEF RowsOf, InF, sendIsInFlight, InFlight
  <2>3. touched[s] \in Nat /\ Recheck \in Nat
    BY <1>1, Numbers DEF Typed
  <2>4. sendIsInFlight(s, tick[w].now)
    BY <1>1, <1>6, <2>3 DEF InF, sendIsInFlight
  <2>5. QED
    BY <2>2, <2>4
<1> HIDE DEF todo, busy, stale
<1>8. tick' = [tick EXCEPT ![w] = u]
  BY <1>1, <1>3 DEF Typed
<1>9. /\ u.now = tick[w].now /\ u.run = tick[w].run /\ u.wake = tick[w].wake /\ u.sends = tick[w].sends
      /\ u.set = tick[w].set /\ u.busy = busy
  BY <1>1 DEF TickRec
<1> HIDE DEF u
<1>10. QED
  BY <1>2, <1>4, <1>5, <1>6, <1>7, <1>8, <1>9, FlightGoes

\* What a tick knows while it reconciles.
LEMMA Reconciling ==
  ASSUME TypeInv, FlightInv, NEW w \in Ticker, pc[w] \in {"reconcile"} \cup Marking
  PROVE  /\ Owns(w) /\ run.lease.until >= clock /\ pc[w] \notin Later \cup Early
         /\ ~tick[w].sends /\ "inFlight" \notin tick[w].set
         /\ tick[w].busy \/ NoneGoing
BY DEF FlightInv, Ticking, Leased, AtWork, OwnPlaces, Careful, Early, Later, Marking, Settled, Sure

LEMMA FlightReconcile ==
  ASSUME OwnProcesses, TypeInv, FlightInv, NEW w \in Ticker, Reconcile(w) PROVE FlightInv'
<1>1. tick[w] \in TickRec(Actions) /\ tick[w].todo \subseteq Row /\ Typed
  BY TickFields DEF TypeInv
<1>2. PICK s \in tick[w].todo :
        /\ run' = Counted(s) /\ (revived => revived')
        /\ tick' = [tick EXCEPT ![w].todo = @ \ {s}, ![w].row = s]
        /\ pc' = [pc EXCEPT ![w] = IF run.lastCounted = s[1] THEN "markOnly" ELSE "mark"]
  BY DEF Reconcile, SetRun, Goto
<1>3. pc[w] = "reconcile" /\ UNCHANGED <<clock, case, asked, send, touched>>
  BY DEF Reconcile, TickFrame, rows, outside
<1>4. s[1] <= Len(asked) /\ s \in Row
  BY <1>1 DEF TypeInv, Named
<1>5. run'.lease = run.lease /\ run'.inFlight = run.inFlight /\ (run.status \in Active <=> run'.status \in Active)
  BY <1>2, <1>4, CountedKeeps
<1> DEFINE left == tick[w].todo \ {s}
           u == [tick[w] EXCEPT !.todo = left, !.row = s]
           place == IF run.lastCounted = s[1] THEN "markOnly" ELSE "mark"
<1> HIDE DEF left
<1>6. tick' = [tick EXCEPT ![w] = u]
  BY <1>1, <1>2 DEF left, Typed
<1>7. /\ u.now = tick[w].now /\ u.run = tick[w].run /\ u.wake = tick[w].wake /\ u.sends = tick[w].sends
      /\ u.set = tick[w].set /\ u.busy = tick[w].busy
  BY <1>1 DEF TickRec
<1> HIDE DEF u
<1>8. pc' = [pc EXCEPT ![w] = place] /\ place \in Marking
  BY <1>2 DEF Marking
<1> HIDE DEF place
<1>9. place \notin {"inFlight", "fresh", "timing", "recipients"}
  BY <1>8 DEF Marking
<1>10. QED
  BY <1>2, <1>3, <1>5, <1>6, <1>7, <1>8, <1>9, FlightGoes, Reconciling

LEMMA FlightMark ==
  ASSUME OwnProcesses, TypeInv, FlightInv, NEW w \in Ticker, ReconcileMark(w) \/ ReconcileSchedule(w)
  PROVE  FlightInv'
<1>1. pc[w] \in {"reconcile"} \cup Marking
  BY DEF ReconcileMark, ReconcileSchedule, Marking
<1>2. UNCHANGED <<clock, case, asked, send, touched, tick>> /\ (revived => revived')
  <2>1. CASE ReconcileMark(w)
    BY <2>1 DEF ReconcileMark, outside
  <2>2. CASE ReconcileSchedule(w)
    BY <2>2 DEF ReconcileSchedule, SetRun, TickFrame, rows, outside
  <2>3. QED
    BY <2>1, <2>2
<1>3. run'.lease = run.lease /\ run'.inFlight = run.inFlight /\ run'.status = run.status
  BY ScheduledKeeps DEF ReconcileMark, ReconcileSchedule, SetRun
<1>4. PICK place \in {"schedule", "reconcile"} : pc' = [pc EXCEPT ![w] = place]
  BY DEF ReconcileMark, ReconcileSchedule, Goto
<1>5. tick' = [tick EXCEPT ![w] = tick[w]]
  BY <1>2 DEF TypeInv, Typed
<1>6. place \in {"reconcile"} \cup Marking /\ place \notin {"inFlight", "fresh", "timing", "recipients"}
  BY DEF Marking
<1>7. QED
  BY <1>1, <1>2, <1>3, <1>4, <1>5, <1>6, FlightGoes, Reconciling

\* Nothing of the decision is in flight: the marker may go.
LEMMA FlightReconciled ==
  ASSUME OwnProcesses, TypeInv, FlightInv, NEW w \in Ticker, Reconciled(w) PROVE FlightInv'
<1> DEFINE t == tick[w]
           clear == [t.next EXCEPT !.inFlight = NoDecision]
           set == t.set \cup {"inFlight"}
<1>1. /\ t \in TickRec(Actions) /\ t.next \in RunRec(Actions) /\ t.set \in SUBSET Fields
      /\ t.now \in Nat /\ Typed /\ Recheck \in Nat
  BY TickFields, Numbers DEF TypeInv
<1>2. pc[w] = "reconcile" /\ UNCHANGED <<clock, case, asked, send, touched, run, revived, overtaken>>
  BY DEF Reconciled, Silent, Finishing, TickFrame, rows, outside
<1>3. /\ Owns(w) /\ run.lease.until >= clock /\ pc[w] \notin Later \cup Early /\ ~t.sends
      /\ "inFlight" \notin t.set /\ (t.busy \/ NoneGoing)
  BY <1>2, Reconciling
<1>4. clear \in RunRec(Actions)
  <2> HIDE DEF t
  <2>1. PICK r \in RunRec(Actions) : r = t.next
    BY <1>1
  <2>2. [r EXCEPT !.inFlight = NoDecision] \in RunRec(Actions)
    BY DEF RunRec
  <2>3. QED
    BY <2>1, <2>2
<1>5. set \in SUBSET Fields
  BY <1>1 DEF Fields, NewRun
<1>6. CASE t.busy
  <2>1. pc' = [pc EXCEPT ![w] = "finish"]
        /\ tick' = [tick EXCEPT ![w] = Wants(tick[w], t.next, t.set, t.now + Recheck)]
    BY <1>6 DEF Reconciled, Goto
  <2>2. 0 < t.now
    BY <1>3 DEF FlightInv, Ticking, Careful
  <2>3. t.now + Recheck \in Nat /\ t.now + Recheck # Never
    BY <1>1, <2>2 DEF Never
  <2>4. QED
    BY <1>1, <1>2, <1>3, <2>1, <2>3, FlightWants
<1>7. CASE ~t.busy /\ t.row # NoRow
  <2>1. pc' = [pc EXCEPT ![w] = "finish"] /\ tick' = [tick EXCEPT ![w] = Wants(tick[w], clear, set, t.now + 1)]
    BY <1>7 DEF Reconciled, Silent, Finishing, Goto
  <2>2. t.now + 1 \in Nat /\ t.now + 1 # Never
    BY <1>1 DEF Never
  <2> HIDE DEF clear, set
  <2>3. QED
    BY <1>2, <1>3, <1>4, <1>5, <1>7, <2>1, <2>2, FlightWants
<1>8. CASE ~t.busy /\ t.row = NoRow
  <2> DEFINE u == [t EXCEPT !.next = clear, !.set = set]
  <2>1. pc' = [pc EXCEPT ![w] = "fresh"] /\ tick' = [tick EXCEPT ![w].next = clear, ![w].set = set]
    BY <1>8 DEF Reconciled, Goto
  <2> HIDE DEF clear, set
  <2>2. tick' = [tick EXCEPT ![w] = u]
    BY <1>1, <2>1 DEF Typed
  <2>3. u.now = t.now /\ u.run = t.run /\ u.wake = t.wake /\ u.sends = t.sends
    BY <1>1 DEF TickRec
  <2> HIDE DEF u
  <2>4. QED
    BY <1>2, <1>3, <1>8, <2>1, <2>2, <2>3, FlightGoes
<1>9. QED
  BY <1>6, <1>7, <1>8

\* What a tick knows once it has reconciled.
LEMMA Clearing ==
  ASSUME TypeInv, FlightInv, NEW w \in Ticker, pc[w] \in {"fresh", "timing"}
  PROVE  /\ Owns(w) /\ run.lease.until >= clock /\ pc[w] \notin Later \cup Early
         /\ ~tick[w].sends /\ NoneGoing /\ 0 < tick[w].now
         /\ tick[w].next \in RunRec(Actions) /\ tick[w].set \in SUBSET Fields /\ tick[w].now \in Nat
         /\ run.lease.until \in Nat
<1>1. Owns(w) /\ run.lease.until >= clock
  BY AtWorkOwns DEF AtWork, OwnPlaces
<1>2. tick[w].next \in RunRec(Actions) /\ tick[w].set \in SUBSET Fields /\ tick[w].now \in Nat
  BY TickFields DEF TypeInv
<1>3. run.lease.until \in Nat
  BY RunFields DEF TypeInv, Typed, LeaseRec
<1>4. pc[w] \notin Later \cup Early
  BY DEF Later, Early
<1>5. ~tick[w].sends /\ 0 < tick[w].now
  BY <1>4 DEF FlightInv, Ticking, Careful
<1>6. NoneGoing
  BY DEF FlightInv, Ticking, Settled, Sure
<1>7. QED
  BY <1>1, <1>2, <1>3, <1>4, <1>5, <1>6

LEMMA FlightFresh ==
  ASSUME OwnProcesses, TypeInv, FlightInv, NEW w \in Ticker, Fresh(w) \/ Timing(w) PROVE FlightInv'
<1> DEFINE t == tick[w]
<1>1. pc[w] \in {"fresh", "timing"}
  BY DEF Fresh, Timing
<1>2. CASE LoseLease(w)
  BY <1>2, FlightEnds
<1>3. CASE \E at \in Nat : /\ at # Never /\ pc' = [pc EXCEPT ![w] = "finish"]
                           /\ tick' = [tick EXCEPT ![w] = Wants(t, t.next, t.set, at)]
                           /\ UNCHANGED <<clock, case, asked, send, touched, run, revived, overtaken>>
  <2>1. PICK at \in Nat : /\ at # Never /\ pc' = [pc EXCEPT ![w] = "finish"]
                          /\ tick' = [tick EXCEPT ![w] = Wants(t, t.next, t.set, at)]
                          /\ UNCHANGED <<clock, case, asked, send, touched, run, revived, overtaken>>
    BY <1>3
  <2> DEFINE next == t.next
             set == t.set
  <2>2. /\ next \in RunRec(Actions) /\ set \in SUBSET Fields
        /\ tick' = [tick EXCEPT ![w] = Wants(tick[w], next, set, at)]
    BY <1>1, <2>1, Clearing
  <2> HIDE DEF next, set
  <2>3. Owns(w) /\ run.lease.until >= clock /\ pc[w] \notin Later \cup Early /\ NoneGoing
    BY <1>1, Clearing
  <2>4. QED
    BY <2>1, <2>2, <2>3, FlightWants
<1>4. CASE \E place \in {"timing", "recipients"} :
             /\ pc' = [pc EXCEPT ![w] = place]
             /\ UNCHANGED <<clock, case, asked, send, touched, run, revived, overtaken, tick>>
  <2>1. tick' = [tick EXCEPT ![w] = tick[w]]
    BY <1>4 DEF TypeInv, Typed
  <2>2. PICK place \in {"timing", "recipients"} :
             /\ pc' = [pc EXCEPT ![w] = place]
             /\ UNCHANGED <<clock, case, asked, send, touched, run, revived, overtaken, tick>>
    BY <1>4
  <2>3. QED
    BY <1>1, <2>1, <2>2, Clearing, FlightGoes
<1>5. ASSUME NEW at \in Nat, at # Never, Silent(w, t.next, t.set, at)
      PROVE  FlightInv'
  BY <1>3, <1>5 DEF Silent, Finishing, Goto, TickFrame, rows, outside
<1>6. t.now + 1 \in Nat /\ t.now + 1 # Never
  BY <1>1, Clearing DEF Never
<1>7. EligibleAt(t) \in Nat /\ (EligibleAt(t) > t.now => EligibleAt(t) # Never)
  BY <1>1, Clearing, EligibleTyped DEF Never, TypeInv
<1>8. CASE Fresh(w) /\ ~LoseLease(w)
  <2>1. Silent(w, t.next, t.set, t.now + 1)
        \/ (Goto(w, "timing") /\ UNCHANGED <<run, revived, overtaken, tick>> /\ TickFrame)
    BY <1>8 DEF Fresh
  <2>2. CASE Silent(w, t.next, t.set, t.now + 1)
    BY <1>5, <1>6, <2>2
  <2>3. CASE Goto(w, "timing") /\ UNCHANGED <<run, revived, overtaken, tick>> /\ TickFrame
    BY <1>4, <2>3 DEF Goto, TickFrame, rows, outside
  <2>4. QED
    BY <2>1, <2>2, <2>3
<1>9. CASE Timing(w)
  <2>1. \/ Silent(w, t.next, t.set, EligibleAt(t)) /\ EligibleAt(t) > t.now
        \/ Goto(w, "recipients") /\ UNCHANGED <<run, revived, overtaken, tick>> /\ TickFrame
        \/ /\ Goto(w, "finish") /\ tick' = [tick EXCEPT ![w] = Wants(t, t.next, t.set, t.now + 1)]
           /\ UNCHANGED <<clock, outside, run, revived, overtaken, rows, asked>>
    BY <1>9 DEF Timing
  <2>2. CASE Silent(w, t.next, t.set, EligibleAt(t)) /\ EligibleAt(t) > t.now
    BY <1>5, <1>7, <2>2
  <2>3. CASE Goto(w, "recipients") /\ UNCHANGED <<run, revived, overtaken, tick>> /\ TickFrame
    BY <1>4, <2>3 DEF Goto, TickFrame, rows, outside
  <2>4. CASE /\ Goto(w, "finish") /\ tick' = [tick EXCEPT ![w] = Wants(t, t.next, t.set, t.now + 1)]
             /\ UNCHANGED <<clock, outside, run, revived, overtaken, rows, asked>>
    BY <1>3, <1>6, <2>4 DEF Goto, rows, outside
  <2>5. QED
    BY <2>1, <2>2, <2>3, <2>4
<1>10. QED
  BY <1>2, <1>8, <1>9

\* The recipients are known, and the lease is still the tick's.
LEMMA FlightRecipients ==
  ASSUME OwnProcesses, TypeInv, FlightInv, NEW w \in Ticker, Recipients(w) PROVE FlightInv'
<1> DEFINE t == tick[w]
<1>1. /\ Typed /\ t \in TickRec(Actions) /\ t.now \in Nat /\ t.set \in SUBSET Fields
      /\ t.next \in RunRec(Actions) /\ clock \in Nat /\ run \in RunRec(Actions)
  BY TickFields DEF TypeInv, Typed
<1>2. CASE LoseLease(w)
  BY <1>2, FlightEnds
<1>3. CASE ~LoseLease(w)
  <2>1. /\ pc[w] = "recipients" /\ Owns(w) /\ run' = Renewed(w) /\ (revived => revived')
        /\ pc' = [pc EXCEPT ![w] = "finish"] /\ UNCHANGED <<clock, case, asked, send, touched>>
    BY <1>3 DEF Recipients, SetRun, Goto, rows, outside
  <2>2. /\ run'.lease = [owner |-> run.lease.owner, until |-> clock + LeaseSpan]
        /\ run'.inFlight = run.inFlight /\ run'.status = run.status
    BY <1>1, <2>1, RenewedTyped DEF Fields, NewRun
  <2>3. run'.lease.owner = run.lease.owner /\ run'.lease.until >= clock
    BY <1>1, <2>2, Numbers
  <2>4. pc[w] \notin Later \cup Early
    BY <2>1 DEF Later, Early
  <2>5. Careful(w) /\ NoneGoing
    BY <2>1 DEF FlightInv, Ticking, Settled, Sure
  <2>6. CASE tick' = [tick EXCEPT ![w] = Wants(t, t.next, t.set, GapEnd(w))]
    <3>1. GapEnd(w) \in Nat /\ GapEnd(w) # Never
      BY <1>1, TheProgram DEF GapEnd, Never
    <3>2. QED
      BY <1>1, <2>1, <2>2, <2>3, <2>4, <2>5, <2>6, <3>1, FlightWants
  <2>7. ASSUME tick' # [tick EXCEPT ![w] = Wants(t, t.next, t.set, GapEnd(w))] PROVE FlightInv'
    <3> DEFINE next == IF case.arm = "holdout" THEN HeldOut(t) ELSE Marked(t)
               set == IF case.arm = "treatment" THEN t.set \cup {"inFlight", "nextTick"}
                      ELSE t.set \cup HoldoutSet \cup
                           (IF t.chosen = Ask THEN {"askSent", "status"} ELSE {})
               u == [tick[w] EXCEPT !.sends = TRUE, !.next = next, !.set = set]
    <3>1. tick' = [tick EXCEPT ![w].sends = TRUE, ![w].next = next, ![w].set = set]
      BY <1>3, <2>7 DEF Recipients
    <3>2. "nextTick" \in set
      BY DEF HoldoutSet
    <3> HIDE DEF next, set
    <3>3. tick' = [tick EXCEPT ![w] = u]
      BY <1>1, <3>1 DEF Typed
    <3>4. u.now = t.now /\ u.run = t.run /\ u.wake = t.wake /\ u.sends = TRUE /\ u.set = set
      BY <1>1 DEF TickRec
    <3> HIDE DEF u
    <3>5. pc'[w] = "finish" /\ tick'[w] = u
      BY <1>1, <2>1, <3>3 DEF Typed
    <3>6. Careful(w)'
      BY <2>1, <2>4, <2>5, <3>2, <3>4, <3>5 DEF Careful, Early, Later, Marking
    <3>7. \A s \in Row : InF(s)' => InF(s)
      BY <2>1 DEF InF, sendIsInFlight
    <3>8. Settled(w)'
      BY <2>1, <2>5, <3>7 DEF Settled, NoneGoing
    <3>9. Leased(w)' /\ CopyKnows(w)' /\ Pending(w)'
      BY <2>1, <2>3, <3>5 DEF Leased, Owns, CopyKnows, Pending, Deciding
    <3>10. QED
      BY <2>1, <2>2, <2>3, <3>3, <3>6, <3>8, <3>9, TickFlight DEF Ticking
  <2>8. QED
    BY <2>6, <2>7
<1>4. QED
  BY <1>2, <1>3

\* The run moved under the tick's last write.
LEMMA FlightReread ==
  ASSUME OwnProcesses, TypeInv, FlightInv, NEW w \in Ticker, Reread(w) PROVE FlightInv'
<1> DEFINE t == tick[w]
<1>1. /\ Typed /\ t \in TickRec(Actions) /\ t.now \in Nat /\ t.next \in RunRec(Actions)
      /\ clock \in Nat /\ pc[w] = "finish"
  BY TickFields DEF TypeInv, Typed, Reread
<1>2. Owns(w) /\ run.lease.until >= clock /\ Careful(w)
  BY <1>1, AtWorkOwns DEF AtWork, OwnPlaces, FlightInv, Ticking
<1>3. CASE LoseLease(w)
  BY <1>3, FlightEnds
<1>4. CASE ~LoseLease(w) /\ CountMoved(w)
  <2>1. /\ pc' = [pc EXCEPT ![w] = "abandon"]
        /\ UNCHANGED <<clock, case, asked, send, touched, run, revived, overtaken, tick>>
    BY <1>4 DEF Reread, Goto, TickFrame, rows, outside
  <2>2. tick' = [tick EXCEPT ![w] = t] /\ pc'[w] = "abandon" /\ tick'[w] = t
    BY <1>1, <2>1 DEF Typed
  <2>3. Careful(w)'
    BY <1>1, <1>2, <2>1, <2>2 DEF Careful, Early, Later, Marking
  <2>4. Leased(w)' /\ CopyKnows(w)' /\ Settled(w)' /\ Pending(w)'
    BY <1>2, <2>1, <2>2 DEF Leased, Owns, CopyKnows, Settled, Sure, Marking, Pending, Deciding
  <2>5. QED
    BY <2>1, <2>2, <2>3, <2>4, TickFlight DEF Ticking
<1>5. CASE ~LoseLease(w) /\ ~CountMoved(w)
  <2> DEFINE n == IF "nextTick" \in t.set THEN t.now + 1 ELSE t.next.nextTick
             next == [t.next EXCEPT !.nextTick = n]
             wake == run.wake
             u == [tick[w] EXCEPT !.wake = wake, !.next = next]
  <2>1. /\ UNCHANGED pc /\ UNCHANGED <<clock, case, asked, send, touched, run, revived, overtaken>>
        /\ tick' = [tick EXCEPT ![w].wake = run.wake,
                      ![w].next.nextTick = IF "nextTick" \in t.set THEN t.now + 1 ELSE @]
    BY <1>5 DEF Reread, TickFrame, rows, outside
  <2>2. tick' = [tick EXCEPT ![w] = u]
    BY <1>1, <2>1 DEF Typed, TickRec
  <2>3. next.status = t.next.status /\ next.nextTick = n
    <3> HIDE DEF n, t
    <3>1. PICK r \in RunRec(Actions) : r = t.next
      BY <1>1
    <3>2. [r EXCEPT !.nextTick = n].status = r.status /\ [r EXCEPT !.nextTick = n].nextTick = n
      BY DEF RunRec
    <3>3. QED
      BY <3>1, <3>2
  <2>4. "nextTick" \in t.set => n <= t.now + 1
    BY <1>1
  <2> HIDE DEF n, next, wake
  <2>5. u.now = t.now /\ u.run = t.run /\ u.sends = t.sends /\ u.set = t.set /\ u.next = next
    BY <1>1 DEF TickRec
  <2> HIDE DEF u
  <2>6. pc' = [pc EXCEPT ![w] = "finish"] /\ pc'[w] = "finish" /\ tick'[w] = u
    BY <1>1, <2>1, <2>2 DEF Typed
  <2>7. Careful(w)'
    BY <1>1, <1>2, <2>1, <2>3, <2>4, <2>5, <2>6 DEF Careful, Early, Later, Marking, Ending
  <2>8. \A s \in Row : InF(s)' => InF(s)
    BY <2>1 DEF InF, sendIsInFlight
  <2>9. Sure(w)' => Sure(w)
    BY <1>1, <2>3, <2>5, <2>6 DEF Sure, Marking, Ending
  <2>10. Settled(w)'
    BY <2>1, <2>8, <2>9 DEF Settled, NoneGoing, FlightInv, Ticking
  <2>11. Leased(w)' /\ CopyKnows(w)' /\ Pending(w)'
    BY <1>2, <2>1, <2>6 DEF Leased, Owns, CopyKnows, Pending, Deciding
  <2>12. QED
    BY <2>1, <2>2, <2>6, <2>7, <2>10, <2>11, TickFlight DEF Ticking
<1>6. QED
  BY <1>3, <1>4, <1>5

LEMMA FlightAbandon ==
  ASSUME OwnProcesses, TypeInv, FlightInv, NEW w \in Ticker, Abandon(w) \/ Enqueue(w) PROVE FlightInv'
<1>1. Typed /\ tick[w] \in TickRec(Actions) /\ run \in RunRec(Actions)
  BY TickFields DEF TypeInv, Typed
<1>2. /\ pc[w] \in {"abandon", "enqueue"} /\ UNCHANGED <<clock, case, asked, send, touched>>
      /\ revived => revived'
  <2>1. CASE Abandon(w)
    BY <2>1 DEF Abandon, SetRun, TickFrame, rows, outside
  <2>2. CASE Enqueue(w)
    BY <2>2 DEF Enqueue, outside
  <2>3. QED
    BY <2>1, <2>2
<1>3. run'.lease = run.lease /\ run'.inFlight = run.inFlight /\ run'.status = run.status
  <2>1. CASE Abandon(w)
    <3>1. PICK n : run' = run \/ run' = [run EXCEPT !.nextTick = n]
      BY <2>1 DEF Abandon, SetRun
    <3>2. QED
      BY <1>1, <3>1 DEF RunRec
  <2>2. CASE Enqueue(w)
    BY <2>2 DEF Enqueue
  <2>3. QED
    BY <2>1, <2>2
<1>4. PICK place \in {"release", "enqueue"} : pc' = [pc EXCEPT ![w] = place]
  <2>1. CASE Abandon(w)
    BY <2>1 DEF Abandon, Goto
  <2>2. CASE Enqueue(w)
    BY <2>2 DEF Enqueue, Goto
  <2>3. QED
    BY <2>1, <2>2
<1>5. PICK u : /\ tick' = [tick EXCEPT ![w] = u]
               /\ u.now = tick[w].now /\ u.sends = tick[w].sends
  <2>1. CASE Abandon(w)
    <3>1. tick' = [tick EXCEPT ![w] = tick[w]]
      BY <1>1, <2>1 DEF Abandon, Typed
    <3>2. QED
      BY <3>1
  <2>2. CASE Enqueue(w)
    <3>1. PICK s : tick' = [tick EXCEPT ![w].todo = @ \ {s}]
      BY <2>2 DEF Enqueue
    <3> DEFINE left == tick[w].todo \ {s}
               u == [tick[w] EXCEPT !.todo = left]
    <3>2. tick' = [tick EXCEPT ![w] = u]
      BY <1>1, <3>1 DEF Typed
    <3> HIDE DEF left
    <3>3. u.now = tick[w].now /\ u.sends = tick[w].sends
      BY <1>1 DEF TickRec
    <3> HIDE DEF u
    <3>4. QED
      BY <3>2, <3>3
  <2>3. QED
    BY <2>1, <2>2
<1>6. pc'[w] = place /\ tick'[w] = u
  BY <1>1, <1>4, <1>5 DEF Typed
<1>7. Careful(w)
  BY DEF FlightInv, Ticking
<1>8. Careful(w)'
  BY <1>2, <1>5, <1>6, <1>7 DEF Careful, Early, Later, Marking
<1>9. Leased(w)' /\ CopyKnows(w)' /\ Settled(w)' /\ Pending(w)'
  BY <1>6 DEF Leased, AtWork, OwnPlaces, CopyKnows, Settled, Sure, Marking, Pending, Deciding
<1>10. QED
  BY <1>2, <1>3, <1>4, <1>5, <1>8, <1>9, TickFlight DEF Ticking

\* Between the write of a decision and its rows.
LEMMA FlightSettle ==
  ASSUME OwnProcesses, TypeInv, FlightInv, NEW w \in Ticker, settleActionDates(w) \/ RenewForRows(w)
  PROVE  FlightInv'
<1>1. Typed /\ run \in RunRec(Actions) /\ clock \in Nat
  BY DEF TypeInv, Typed
<1>2. CASE LoseLease(w)
  BY <1>2, FlightEnds
<1>3. CASE ~LoseLease(w)
  <2>1. /\ pc[w] \in {"settle", "renew"} /\ UNCHANGED <<clock, case, asked, send, touched, tick>>
        /\ revived => revived'
    <3>1. CASE settleActionDates(w)
      BY <3>1 DEF settleActionDates, SetRun, TickFrame, rows, outside
    <3>2. CASE RenewForRows(w)
      BY <1>3, <3>2 DEF RenewForRows, SetRun, TickFrame, rows, outside
    <3>3. QED
      BY <3>1, <3>2
  <2>2. PICK place : /\ pc' = [pc EXCEPT ![w] = place] /\ place \in {"renew", "insert", "release"}
                     /\ place # "release" => Deciding(w)
    <3>1. CASE settleActionDates(w)
      BY <3>1 DEF settleActionDates, Goto, Deciding
    <3>2. CASE RenewForRows(w)
      BY <1>3, <3>2 DEF RenewForRows, Goto, Deciding
    <3>3. QED
      BY <3>1, <3>2
  <2>3. /\ run'.inFlight = run.inFlight /\ run'.status = run.status
        /\ run'.lease = run.lease
           \/ (run'.lease.owner = run.lease.owner /\ run'.lease.until >= clock)
    <3>1. CASE settleActionDates(w)
      <4>1. PICK acts : run' = [run EXCEPT !.acts = acts]
        BY <3>1 DEF settleActionDates, SetRun
      <4>2. QED
        BY <1>1, <4>1 DEF RunRec
    <3>2. CASE RenewForRows(w)
      <4>1. run' = Renewed(w)
        BY <1>3, <3>2 DEF RenewForRows, SetRun
      <4>2. /\ run'.lease = [owner |-> run.lease.owner, until |-> clock + LeaseSpan]
            /\ run'.inFlight = run.inFlight /\ run'.status = run.status
        BY <1>1, <4>1, RenewedTyped DEF Fields, NewRun
      <4>3. QED
        BY <1>1, <4>2, Numbers
    <3>3. QED
      BY <3>1, <3>2
  <2>4. tick' = [tick EXCEPT ![w] = tick[w]] /\ pc'[w] = place /\ tick'[w] = tick[w]
    BY <1>1, <2>1, <2>2 DEF Typed
  <2>5. Ticking(w)
    BY DEF FlightInv
  <2>6. Careful(w)'
    BY <2>1, <2>2, <2>4, <2>5 DEF Ticking, Careful, Early, Later, Marking
  <2>7. Deciding(w) => AtWork(w) /\ Sure(w)
    BY DEF Deciding, AtWork, OwnPlaces, Sure
  <2>8. Leased(w)'
    BY <2>1, <2>2, <2>3, <2>4, <2>5, <2>7 DEF Ticking, Leased, AtWork, OwnPlaces, Marking, Owns
  <2>9. \A s \in Row : InF(s)' => InF(s)
    BY <2>1 DEF InF, sendIsInFlight
  <2>10. Settled(w)'
    BY <2>1, <2>2, <2>4, <2>5, <2>7, <2>9 DEF Ticking, Settled, Sure, Marking, NoneGoing
  <2>11. Pending(w)'
    BY <2>1, <2>2, <2>3, <2>4, <2>5 DEF Ticking, Pending, Deciding
  <2>12. CopyKnows(w)'
    BY <2>2, <2>4 DEF CopyKnows
  <2>13. QED
    BY <2>1, <2>2, <2>3, <2>4, <2>6, <2>8, <2>10, <2>11, <2>12, TickFlight DEF Ticking
<1>4. QED
  BY <1>2, <1>3

\* The last write of a tick: its decision takes the marker once nothing else is
\* in flight.
LEMMA FlightWrite ==
  ASSUME OwnProcesses, TypeInv, FlightInv, NEW w \in Ticker, Write(w) PROVE FlightInv'
<1> DEFINE t == tick[w]
           d == Len(asked) + 1
           todo == IF t.sends THEN {d} \X case.to ELSE {}
           u == [tick[w] EXCEPT !.todo = todo]
           question == [action |-> t.chosen, attempt |-> t.attempt, at |-> t.now]
<1>1. Typed /\ t \in TickRec(Actions) /\ Len(asked) \in Nat /\ asked \in Seq(Question(Actions))
  BY TickFields DEF TypeInv, Typed
<1>2. /\ t.sends => Len(asked) < MaxDecision
      /\ run' = WrittenRun(w) /\ revived' = (revived \/ (run.status \notin Active /\ run'.status \in Active))
      /\ asked' = IF t.sends THEN Append(asked, question) ELSE asked
      /\ tick' = [tick EXCEPT ![w].todo = todo]
      /\ pc' = [pc EXCEPT ![w] = "settle"]
      /\ UNCHANGED <<clock, case, send, touched>>
  BY DEF Write, WrittenRun, SetRun, Goto, rows, outside
<1>3. pc[w] = "finish" /\ Owns(w)
  BY DEF Write, Matches
<1>4. Owns(w) /\ run.lease.until >= clock
  BY <1>3, AtWorkOwns DEF AtWork, OwnPlaces
<1>5. Careful(w) /\ Settled(w) /\ MarkerKnows /\ OneGoing
  BY DEF FlightInv, Ticking
<1>6. run'.lease = IF t.sends THEN run.lease ELSE NoLease
  BY <1>2, WrittenTyped
<1>7. run'.inFlight = IF t.sends /\ case.arm = "treatment" THEN d
                      ELSE IF "inFlight" \in t.set THEN t.next.inFlight ELSE run.inFlight
  BY <1>2, WrittenTyped
<1>8. run'.status = IF "status" \in t.set THEN t.next.status ELSE run.status
  BY <1>2, WrittenTyped
<1> HIDE DEF question
<1>9. asked' = asked \/ (t.sends /\ Len(asked') = d)
  BY <1>1, <1>2
<1>10. t.sends => Len(asked') = d
  BY <1>1, <1>2
<1>11. \A s \in todo : s[1] = d
  BY <1>1
<1> HIDE DEF todo
<1>12. tick' = [tick EXCEPT ![w] = u]
  BY <1>1, <1>2 DEF Typed
<1>13. /\ u.now = t.now /\ u.run = t.run /\ u.wake = t.wake /\ u.sends = t.sends /\ u.set = t.set
       /\ u.next = t.next /\ u.todo = todo
  BY <1>1 DEF TickRec
<1> HIDE DEF u
<1>14. pc'[w] = "settle" /\ tick'[w] = u /\ \A v \in Ticker : v # w => pc'[v] = pc[v] /\ tick'[v] = tick[v]
  BY <1>1, <1>2, <1>12 DEF Typed
<1>15. \A s \in Row : InF(s)' <=> InF(s)
  BY <1>2 DEF InF, sendIsInFlight
<1>16. (revived => revived') /\ (run.status \notin Active => run'.status \notin Active \/ revived')
  BY <1>2
<1>17. t.sends => NoneGoing
  BY <1>3, <1>5 DEF Settled, Sure
<1>18. MarkerKnows'
  <2> SUFFICES ASSUME run'.status \in Active, NEW s \in Row, InF(s), ~revived'
               PROVE  run'.inFlight = s[1]
    BY <1>15 DEF MarkerKnows
  <2>1. ~revived /\ run.status \in Active /\ ~NoneGoing /\ ~t.sends
    BY <1>16, <1>17 DEF NoneGoing
  <2>2. CASE "inFlight" \in t.set
    <3>1. ~Ending(w)
      BY <1>8 DEF Ending
    <3>2. NoneGoing
      BY <1>3, <1>5, <2>2, <3>1 DEF Settled, Sure
    <3>3. QED
      BY <2>1, <3>2
  <2>3. CASE "inFlight" \notin t.set
    BY <1>5, <1>7, <2>1, <2>3 DEF MarkerKnows
  <2>4. QED
    BY <2>2, <2>3
<1>19. OneGoing'
  BY <1>5, <1>15, <1>16 DEF OneGoing
<1>20. ASSUME NEW v \in Ticker, v # w PROVE Ticking(v)'
  <2>1. Owns(v)' => Owns(v)
    BY <1>6, ProgramRunAssumption DEF Owns, NoLease
  <2>2. QED
    BY <1>2, <1>3, <1>14, <1>20, <2>1, Waits
<1>21. Leased(w)'
  BY <1>2, <1>4, <1>6, <1>13, <1>14 DEF Leased, AtWork, OwnPlaces, Marking, Owns
<1>22. CopyKnows(w)'
  BY <1>14 DEF CopyKnows
<1>23. Settled(w)'
  BY <1>13, <1>14, <1>15, <1>16, <1>17 DEF Settled, Sure, Marking, NoneGoing
<1>24. Careful(w)'
  BY <1>2, <1>3, <1>5, <1>13, <1>14 DEF Careful, Early, Later, Marking
<1>25. Pending(w)'
  <2> SUFFICES ASSUME t.sends
               PROVE  /\ \A s \in u.todo : s[1] = Len(asked')
                      /\ \A s \in Row : s[1] = Len(asked') => send[s] = "none"
                      /\ case.arm = "treatment" => run'.inFlight = Len(asked')
    BY <1>2, <1>13, <1>14 DEF Pending, Deciding
  <2>1. \A s \in Row : s[1] = d => send[s] = "none"
    BY <1>1 DEF TypeInv, Named, Row, Decision
  <2>2. QED
    BY <1>7, <1>10, <1>11, <1>13, <2>1
<1>26. QED
  BY <1>14, <1>18, <1>19, <1>20, <1>21, <1>22, <1>23, <1>24, <1>25 DEF FlightInv, Ticking

\* The rows of the decision.
LEMMA FlightInsert ==
  ASSUME OwnProcesses, TypeInv, FlightInv, NEW w \in Ticker, InsertRows(w) PROVE FlightInv'
<1> DEFINE new == tick[w].todo
<1>1. Typed /\ new \subseteq Row /\ tick[w].now \in Nat
  BY TickFields DEF TypeInv
<1>2. /\ send' = [s \in Row |-> IF s \notin new THEN send[s]
                                ELSE IF case.arm = "holdout" THEN "holdout" ELSE "queued"]
      /\ touched' = [s \in Row |-> IF s \in new THEN tick[w].now ELSE touched[s]]
      /\ pc[w] = "insert" /\ UNCHANGED <<clock, case, run, revived, overtaken, asked, tick>>
  BY DEF InsertRows, outside
<1>3. PICK place \in {"release", "enqueue"} : pc' = [pc EXCEPT ![w] = place]
  BY DEF InsertRows, Goto
<1>4. pc'[w] = place /\ \A v \in Ticker : v # w => pc'[v] = pc[v]
  BY <1>1, <1>3 DEF Typed
<1>5. Owns(w) /\ Sure(w) /\ Deciding(w)
  BY <1>2, AtWorkOwns DEF AtWork, OwnPlaces, Sure, Deciding
<1>6. NoneGoing /\ Pending(w) /\ Careful(w)
  BY <1>5 DEF FlightInv, Ticking, Settled
<1>7. /\ \A s \in new : s[1] = Len(asked)
      /\ case.arm = "treatment" => run.inFlight = Len(asked) \/ run.status \notin Active \/ revived
  BY <1>5, <1>6 DEF Pending
<1>8. case.arm \in {"treatment", "holdout"}
  BY <1>1, ProgramRunAssumption DEF Typed
<1>9. ASSUME NEW s \in Row, InF(s)' PROVE revived \/ (s \in new /\ case.arm = "treatment")
  <2>1. CASE s \in new
    <3>1. case.arm = "holdout" => send'[s] = "holdout"
      BY <1>2, <2>1
    <3>2. QED
      BY <1>8, <1>9, <2>1, <3>1 DEF InF, sendIsInFlight, InFlight
  <2>2. CASE s \notin new
    <3>1. InF(s)
      BY <1>2, <1>9, <2>2 DEF InF, sendIsInFlight
    <3>2. QED
      BY <1>6, <3>1 DEF NoneGoing
  <2>3. QED
    BY <2>1, <2>2
<1>10. MarkerKnows'
  BY <1>2, <1>7, <1>9 DEF MarkerKnows
<1>11. OneGoing'
  BY <1>2, <1>7, <1>9 DEF OneGoing
<1>12. ASSUME NEW v \in Ticker, v # w PROVE Ticking(v)'
  BY <1>2, <1>4, <1>5, <1>12, Waits DEF Owns
<1>13. Careful(w)'
  BY <1>2, <1>4, <1>6 DEF Careful, Early, Later, Marking
<1>14. Leased(w)' /\ CopyKnows(w)' /\ Settled(w)' /\ Pending(w)'
  BY <1>4 DEF Leased, AtWork, OwnPlaces, CopyKnows, Settled, Sure, Marking, Pending, Deciding
<1>15. QED
  BY <1>10, <1>11, <1>12, <1>13, <1>14 DEF FlightInv, Ticking

LEMMA FlightInit == Init => FlightInv /\ Working
<1> SUFFICES ASSUME Init PROVE FlightInv /\ Working
  OBVIOUS
<1>1. \A s \in Row : ~InF(s)
  BY DEF Init, InF, sendIsInFlight, InFlight
<1>2. MarkerKnows /\ OneGoing
  BY <1>1 DEF MarkerKnows, OneGoing
<1>3. ASSUME NEW w \in Ticker PROVE Ticking(w)
  <2>1. pc[w] = "idle" /\ tick[w] = NoTick /\ clock = 1
    BY DEF Init
  <2>2. NoTick.now = 0 /\ NoTick.sends = FALSE /\ NoTick.wake = NoTick.run.wake
    BY DEF NoTick, NewRun
  <2>3. QED
    BY <2>1, <2>2 DEF Ticking, Leased, AtWork, OwnPlaces, Marking, CopyKnows, Settled, Sure, Careful,
                      Early, Later, Pending, Deciding
<1>4. Working
  BY DEF Init, Working
<1>5. QED
  BY <1>2, <1>3, <1>4 DEF FlightInv

LEMMA FlightStep ==
  ASSUME OwnProcesses, TypeInv, FlightInv, Working, [Next]_vars PROVE FlightInv'
<1>1. ASSUME NEW w \in Ticker, TickStep(w) PROVE FlightInv'
  <2>1. CASE Due(w) \/ acquireLease(w) \/ Resolve(w) \/ Decide(w) \/ CancelSends(w) \/ ReadInFlight(w)
    BY <2>1, FlightDue, FlightAcquire, FlightResolve, FlightDecide, FlightCancelSends, FlightRead
  <2>2. CASE Reconcile(w) \/ ReconcileMark(w) \/ ReconcileSchedule(w) \/ Reconciled(w) \/ Fresh(w)
             \/ Timing(w) \/ Recipients(w)
    BY <2>2, FlightReconcile, FlightMark, FlightReconciled, FlightFresh, FlightRecipients
  <2>3. CASE Write(w) \/ Reread(w) \/ Abandon(w) \/ settleActionDates(w) \/ RenewForRows(w)
             \/ InsertRows(w) \/ Enqueue(w) \/ releaseLease(w)
    BY <2>3, FlightWrite, FlightReread, FlightAbandon, FlightSettle, FlightInsert, FlightEnds
  <2>4. QED
    BY <1>1, <2>1, <2>2, <2>3 DEF TickStep
<1>2. ASSUME NEW w \in Ticker, HostFails(w) \/ Crash(w) PROVE FlightInv'
  BY <1>2, FlightEnds
<1>3. ASSUME NEW s \in Row, Dispatch(s) \/ DispatchDies(s) PROVE FlightInv'
  BY <1>3, FlightClaim, FlightRow, FlightHooks, FlightClear DEF Dispatch
<1>4. CASE Operators \/ Pass \/ Slow
  BY <1>4, FlightWorld, FlightClock
<1>5. CASE UNCHANGED vars
  <2>1. UNCHANGED <<clock, case, asked, pc, tick, send, touched, run, revived, overtaken>>
    BY <1>5 DEF vars, outside, rows
  <2>2. QED
    BY <2>1, HookKeeps
<1>6. QED
  BY <1>1, <1>2, <1>3, <1>4, <1>5 DEF Next

LEMMA WorkingStep ==
  ASSUME TypeInv, FlightInv, Working, [Next]_vars PROVE Working'
<1> DEFINE Busy == {"guard", "facts", "done", "cancel", "accept"}
<1> SUFFICES ASSUME NEW s \in Row, stage'[s] \in Busy PROVE send'[s] = "sending"
  BY DEF Working, Row, Decision
<1>1. send \in [Row -> RowStatus] /\ stage \in [Row -> Stages]
  BY DEF TypeInv, Typed
<1>2. ASSUME UNCHANGED <<send, stage>> PROVE send'[s] = "sending"
  BY <1>2 DEF Working
<1>3. ASSUME CancelRows, UNCHANGED stage PROVE send'[s] = "sending"
  BY <1>3 DEF Working, CancelRows, Cancelled
<1>4. ASSUME NEW w \in Ticker, TickStep(w) \/ HostFails(w) \/ Crash(w)
      PROVE  (UNCHANGED <<send, stage>>) \/ CancelSends(w) \/ InsertRows(w)
  <2>1. CASE Due(w) \/ acquireLease(w) \/ Resolve(w) \/ HostFails(w) \/ Crash(w)
    BY <2>1 DEF Due, acquireLease, Resolve, LoseLease, HostFails, Crash, TickFrame, rows
  <2>2. CASE Decide(w)
    BY <2>2 DEF Decide, Finishing, Silent, TickFrame, rows
  <2>3. CASE ReadInFlight(w) \/ Reconcile(w) \/ ReconcileMark(w) \/ ReconcileSchedule(w)
    BY <2>3 DEF ReadInFlight, Reconcile, ReconcileMark, ReconcileSchedule, TickFrame, rows
  <2>4. CASE Reconciled(w) \/ Fresh(w) \/ Timing(w)
    BY <2>4 DEF Reconciled, Fresh, Timing, Finishing, Silent, LoseLease, TickFrame, rows
  <2>5. CASE Recipients(w) \/ Reread(w) \/ Abandon(w) \/ settleActionDates(w) \/ RenewForRows(w)
    BY <2>5 DEF Recipients, Reread, Abandon, settleActionDates, RenewForRows, LoseLease, TickFrame, rows
  <2>6. CASE Write(w) \/ Enqueue(w) \/ releaseLease(w)
    BY <2>6 DEF Write, Enqueue, releaseLease, TickFrame, rows
  <2>7. QED
    BY <1>4, <2>1, <2>2, <2>3, <2>4, <2>5, <2>6 DEF TickStep
<1>5. ASSUME NEW w \in Ticker, CancelSends(w) PROVE send'[s] = "sending"
  BY <1>3, <1>5 DEF CancelSends
<1>6. ASSUME NEW w \in Ticker, InsertRows(w) PROVE send'[s] = "sending"
  <2>1. Pending(w) /\ Deciding(w) /\ UNCHANGED stage
    BY <1>6 DEF FlightInv, Ticking, InsertRows, Deciding
  <2>2. send[s] = "sending"
    BY <2>1 DEF Working
  <2>3. s \notin tick[w].todo
    BY <2>1, <2>2 DEF Pending
  <2>4. QED
    BY <1>6, <2>2, <2>3 DEF InsertRows
<1>7. ASSUME NEW u \in Row, Dispatch(u) \/ DispatchDies(u) PROVE send'[s] = "sending"
  <2>1. ASSUME NEW place, Step(u, place)
        PROVE  stage'[s] = IF s = u THEN place ELSE stage[s]
    BY <1>1, <2>1 DEF Step
  <2>2. ASSUME NEW st, SetSend(u, st)
        PROVE  send'[s] = IF s = u THEN st ELSE send[s]
    BY <1>1, <2>2 DEF SetSend
  <2>3. stage[s] \in Busy => send[s] = "sending"
    BY DEF Working
  <2>4. CASE Claim(u)
    BY <2>1, <2>2, <2>3, <2>4 DEF Claim
  <2>5. CASE Guard(u) \/ GuardFacts(u) \/ GuardDone(u)
    <3>1. UNCHANGED send /\ stage[u] \in Busy
      BY <2>5 DEF Guard, GuardFacts, GuardDone, Verdict, HookFrame
    <3>2. stage[s] \in Busy
      <4>1. PICK place : Step(u, place)
        BY <2>5 DEF Guard, GuardFacts, GuardDone, Verdict
      <4>2. QED
        BY <2>1, <3>1, <4>1
    <3>3. QED
      BY <2>3, <3>1, <3>2
  <2>6. CASE CancelRow(u) \/ Accepted(u)
    BY <2>1, <2>2, <2>3, <2>6 DEF CancelRow, Accepted
  <2>7. CASE Refused(u)
    BY <2>1, <2>2, <2>3, <2>7 DEF Refused
  <2>8. CASE DeferHook(u) \/ CountHook(u) \/ MarkHook(u) \/ ScheduleHook(u)
    BY <2>1, <2>3, <2>8 DEF DeferHook, CountHook, MarkHook, ScheduleHook, HookFrame
  <2>9. CASE clearInFlightIfSettled(u) \/ DispatchDies(u)
    BY <2>1, <2>3, <2>9 DEF clearInFlightIfSettled, DispatchDies, HookFrame
  <2>10. CASE Sweep(u)
    <3>1. UNCHANGED stage /\ SetSend(u, "queued") /\ stage[u] = "none"
      BY <2>10 DEF Sweep
    <3>2. QED
      BY <2>2, <2>3, <3>1
  <2>11. QED
    BY <1>7, <2>4, <2>5, <2>6, <2>7, <2>8, <2>9, <2>10 DEF Dispatch
<1>8. CASE Operators \/ Pass \/ Slow \/ UNCHANGED vars
  <2>1. (UNCHANGED <<send, stage>>) \/ CancelForOperator
    BY <1>8 DEF Operators, Abort, SetEnabled, FireExit, FactsChange, Click, Wake, World, Pass, Slow,
                vars, rows
  <2>2. CASE CancelForOperator
    BY <1>3, <2>2 DEF CancelForOperator
  <2>3. QED
    BY <1>2, <2>1, <2>2
<1>9. QED
  BY <1>2, <1>4, <1>5, <1>6, <1>7, <1>8 DEF Next

\* A run never has the mail of two of its decisions under way (the
\* reconciliation and the fenced write of programs/tick.ts, with the hooks that
\* clear the marker), if the executions of a tick are told apart by their leases. A run
\* that a late write revived, or whose rows were given up for dead, is excused.
THEOREM OneDecisionInFlight ==
  ASSUME OwnProcesses PROVE Spec => []OneInFlight
<1>1. Init => TypeInv /\ Plain /\ FlightInv /\ Working
  BY TypeInit, FlightInit
<1>2. TypeInv /\ Plain /\ FlightInv /\ Working /\ [Next]_vars
        => (TypeInv /\ Plain /\ FlightInv /\ Working)'
  BY TypeStep, PlainStep, FlightStep, WorkingStep
<1>3. FlightInv => OneInFlight
  <2>1. \A s \in Row : Going(s) => InF(s)
    BY DEF Going, InF, sendIsInFlight
  <2>2. QED
    BY <2>1 DEF FlightInv, OneGoing, OneInFlight
<1>4. QED
  BY <1>1, <1>2, <1>3, PTL DEF Spec

\* Only the last write takes a tick from finish to settle.
LEMMA OnlyWrites ==
  ASSUME Typed, Next, NEW w \in Ticker, pc[w] = "finish", pc'[w] = "settle"
  PROVE  Write(w)
<1>1. pc \in [Ticker -> Places]
  BY DEF Typed
<1>2. ASSUME NEW v \in Ticker, NEW place, Goto(v, place)
      PROVE  v = w /\ place = "settle"
  BY <1>1, <1>2 DEF Goto
<1>3. ASSUME NEW v \in Ticker, TickStep(v) \/ HostFails(v) \/ Crash(v)
      PROVE  v = w /\ Write(w)
  <2>1. CASE Due(v) \/ acquireLease(v) \/ HostFails(v) \/ Crash(v) \/ releaseLease(v) \/ LoseLease(v)
    BY <1>2, <2>1 DEF Due, acquireLease, HostFails, Crash, releaseLease, LoseLease, Stop
  <2>2. CASE (Resolve(v) \/ Recipients(v) \/ RenewForRows(v) \/ Fresh(v)) /\ ~LoseLease(v)
    <3>1. PICK place : Goto(v, place) /\ place # "settle"
      <4>1. CASE Resolve(v)
        BY <2>2, <4>1 DEF Resolve
      <4>2. CASE Recipients(v)
        BY <2>2, <4>2 DEF Recipients
      <4>3. CASE RenewForRows(v)
        BY <2>2, <4>3 DEF RenewForRows
      <4>4. CASE Fresh(v)
        BY <2>2, <4>4 DEF Fresh, Silent, Finishing
      <4>5. QED
        BY <2>2, <4>1, <4>2, <4>3, <4>4
    <3>2. QED
      BY <1>2, <3>1
  <2>3. CASE Decide(v)
    BY <1>2, <2>3 DEF Decide, Silent, Finishing
  <2>4. CASE CancelSends(v) \/ ReadInFlight(v) \/ Reconcile(v) \/ ReconcileMark(v)
             \/ ReconcileSchedule(v)
    BY <1>2, <2>4 DEF CancelSends, ReadInFlight, Reconcile, ReconcileMark, ReconcileSchedule
  <2>5. CASE Reconciled(v) \/ Timing(v)
    BY <1>2, <2>5 DEF Reconciled, Timing, Silent, Finishing
  <2>6. CASE Reread(v) /\ ~LoseLease(v)
    BY <1>2, <2>6 DEF Reread
  <2>7. CASE Abandon(v) \/ settleActionDates(v) \/ InsertRows(v) \/ Enqueue(v)
    BY <1>2, <2>7 DEF Abandon, settleActionDates, InsertRows, Enqueue
  <2>8. CASE Write(v)
    BY <1>2, <2>8 DEF Write
  <2>9. QED
    BY <1>3, <2>1, <2>2, <2>3, <2>4, <2>5, <2>6, <2>7, <2>8 DEF TickStep
<1>4. ASSUME NEW s \in Row, Dispatch(s) \/ DispatchDies(s) PROVE UNCHANGED pc
  BY <1>4 DEF Dispatch, DispatchDies, Claim, Guard, GuardFacts, GuardDone, CancelRow, Accepted,
     Refused, DeferHook, CountHook, MarkHook, ScheduleHook, clearInFlightIfSettled, Sweep,
     Verdict, HookFrame, DispatchFrame
<1>5. Operators \/ Pass \/ Slow => UNCHANGED pc
  BY DEF Operators, Abort, SetEnabled, CancelForOperator, FireExit, FactsChange, Click, Wake,
     World, Pass, Slow
<1>6. QED
  BY <1>3, <1>4, <1>5 DEF Next

\* A wake that lands while a tick is at work is not slept through: finish of
\* programs/tick.ts reads the run again and then schedules the next tick at once.
THEOREM WakeIsNotSleptThrough ==
  ASSUME OwnProcesses PROVE Spec => WakeNotSleptThrough
<1>1. Init => TypeInv /\ Plain /\ FlightInv /\ Working
  BY TypeInit, FlightInit
<1>2. TypeInv /\ Plain /\ FlightInv /\ Working /\ [Next]_vars
        => (TypeInv /\ Plain /\ FlightInv /\ Working)'
  BY TypeStep, PlainStep, FlightStep, WorkingStep
<1> DEFINE Woken == \A w \in Ticker :
              pc[w] = "finish" /\ pc'[w] = "settle" /\ run.wake # tick[w].run.wake
                /\ run'.status \in Active => run'.nextTick <= tick[w].now + 1
<1>3. TypeInv /\ FlightInv /\ [Next]_vars => [Woken]_vars
  <2> SUFFICES ASSUME TypeInv, FlightInv, Next, NEW w \in Ticker, pc[w] = "finish", pc'[w] = "settle",
                      run.wake # tick[w].run.wake, run'.status \in Active
               PROVE  run'.nextTick <= tick[w].now + 1
    OBVIOUS
  <2>1. Write(w)
    BY OnlyWrites DEF TypeInv
  <2>2. run' = WrittenRun(w) /\ run.wake = tick[w].wake /\ (tick[w].sends => Len(asked) < MaxDecision)
    BY <2>1 DEF Write, WrittenRun, SetRun, Matches
  <2>3. run'.nextTick = IF "nextTick" \in tick[w].set THEN tick[w].next.nextTick ELSE run.nextTick
    BY <2>2, WrittenTyped
  <2>4. run'.status = IF "status" \in tick[w].set THEN tick[w].next.status ELSE run.status
    BY <2>2, WrittenTyped
  <2>5. QED
    BY <2>2, <2>3, <2>4 DEF FlightInv, Ticking, Careful, Ending
<1>4. QED
  BY <1>1, <1>2, <1>3, PTL DEF Spec, WakeNotSleptThrough
-----------------------------------------------------------------------------
(* The gap between the mail of two decisions.                              *)

\* The shortest of the program's gaps.
\* The books know mail of decision d: some of it was accepted no later than the
\* date that the run has for its last send.
OnBooks(d) == \E u \in Row : u[1] = d /\ send[u] = "sent" /\ touched[u] <= run.lastSent

\* What is in flight, or accepted and not counted yet, is of the newest decision;
\* so is the marker, or of an earlier one.
Newest == /\ \A s \in Row : InF(s) \/ s \in ToCount => s[1] = Len(asked)
          /\ run.inFlight <= Len(asked)
\* What is counted, or about to be flagged as counted, is on the books.
Booked == /\ \A s \in Row : s \in counted \/ stage[s] \in Marking => OnBooks(s[1])
          /\ run.lastCounted # NoDecision => OnBooks(run.lastCounted)
          /\ \A s \in Row : stage[s] = "count" => send[s] = "sent"
\* A row is no older than its decision.
Dates  == /\ \A d \in 1..Len(asked) : 0 < asked[d].at /\ asked[d].at <= clock
          /\ \A s \in Row : send[s] # "none" => asked[s[1]].at <= touched[s]
\* A decision is its own gap later than mail of each earlier one that has any.
Spaced == \A d, e \in 1..Len(asked) : d < e /\ (\E s \in Row : s[1] = d /\ send[s] = "sent")
            => \E u \in Row : u[1] = d /\ send[u] = "sent" /\ touched[u] + GapBefore(e) <= asked[e].at

\* A tick at `place` with the record t: it writes no date of a send and no count
\* of its own; while it has the lease its copy is of the books as they are, or of
\* a count before; it reconciles mail of the newest decision; it has waited for
\* the gap; and the decision it made is of its own now.
Abreast(w, t)   == Owns(w) => /\ t.run.lastCounted <= run.lastCounted
                              /\ t.run.lastCounted = run.lastCounted => t.run.lastSent = run.lastSent
Rested(t)       == \/ t.run.lastSent = Never
                   \/ t.run.lastSent + ShortestGap(t.chosen, t.attempt - 1) <= t.now
Books(w, place, t) ==
  /\ "lastSent" \notin t.set /\ "lastCounted" \notin t.set
  /\ "inFlight" \in t.set /\ ~t.sends => t.next.inFlight = NoDecision
  /\ place \notin Early => Abreast(w, t)
  /\ place \in {"reconcile"} \cup Marking => \A s \in t.todo : send[s] = "sent" /\ s[1] = Len(asked)
  /\ place \in Marking => OnBooks(t.row[1])
  /\ place = "recipients" \/ (place = "finish" /\ t.sends) => Rested(t)
  /\ place \in {"renew", "insert"} \/ (place = "settle" /\ t.sends) => asked[Len(asked)].at = t.now

Calm     == case.arm = "treatment" /\ ~revived /\ ~overtaken
RowBooks == Newest /\ Booked /\ Dates /\ Spaced
BookInv  == RowBooks /\ \A w \in Ticker : Books(w, pc[w], tick[w])
\* The control arm has no mail.
Unsent   == case.arm = "holdout" => \A s \in Row : send[s] \in {"none", "holdout"}

\* No gap of an attempt is shorter than the shortest one.
LEMMA GapIsLeast ==
  ASSUME Typed, NEW a \in Actions \cup {Ask}, NEW i, NEW n, NEW progress
  PROVE  ShortestGap(a, i) \in Nat /\ ShortestGap(a, i) <= gapMs(P, a, i, n, progress)
<1> DEFINE own == minGap(P, a, i)
           k == Widened(P, n)
           normal == own * k
<1>1. own \in Nat /\ P.fast \in Nat /\ P.slowFactor \in Nat \ {0}
  <2>1. IsProgram(P) /\ a \in DOMAIN P.actions \cup {Ask}
    BY TheProgram
  <2>2. own \in Nat
    BY <2>1, GapTyped
  <2>3. QED
    BY <2>1, <2>2 DEF IsProgram
<1>2. k \in Nat \ {0}
  BY <1>1 DEF Widened
<1>3. gapMs(P, a, i, n, progress) = IF progress /\ P.fast > 0 /\ P.fast < normal
                                    THEN P.fast ELSE normal
  BY DEF gapMs
<1>4. ShortestGap(a, i) = IF P.fast > 0 /\ P.fast <= own THEN P.fast ELSE own
  BY <1>1, LargerNat DEF ShortestGap
<1> HIDE DEF own, k
<1>5. normal \in Nat /\ own <= normal
  <2>1. PICK j \in Nat : k = j + 1
    <3>1. k - 1 \in Nat /\ k = (k - 1) + 1
      BY <1>2
    <3>2. QED
      BY <3>1
  <2>2. own * (j + 1) = own * j + own /\ own * j \in Nat
    BY <1>1, <2>1
  <2>3. QED
    BY <1>1, <2>1, <2>2
<1> HIDE DEF normal
<1>6. QED
  BY <1>1, <1>3, <1>4, <1>5

\* Books are kept while mail that was accepted stays, and the date of the last
\* send does not go back.
LEMMA OnBooksKept ==
  ASSUME TypeInv, TypeInv', NEW d, OnBooks(d), run.lastSent <= run'.lastSent,
         \A s \in Row : send[s] = "sent" => send'[s] = "sent" /\ touched'[s] = touched[s]
  PROVE  OnBooks(d)'
<1>1. run.lastSent \in Nat /\ run'.lastSent \in Nat /\ touched \in [Row -> Nat]
  BY RunFields DEF TypeInv, Typed
<1>2. PICK u \in Row : u[1] = d /\ send[u] = "sent" /\ touched[u] <= run.lastSent
  BY DEF OnBooks
<1>3. u[1] = d /\ send'[u] = "sent" /\ touched'[u] <= run'.lastSent
  BY <1>1, <1>2
<1>4. Row' = Row
  BY DEF Row, Decision
<1>5. QED
  BY <1>3, <1>4 DEF OnBooks

\* What a step that makes no decision has to show of the rows and the books.
LEMMA RowsBook ==
  ASSUME TypeInv, TypeInv', RowBooks, UNCHANGED <<asked, case>>, clock <= clock',
         \A s \in Row : send[s] = "sent" => send'[s] = "sent" /\ touched'[s] = touched[s],
         \A s \in Row : send'[s] = "sent" => send[s] = "sent" \/ InF(s),
         \A s \in Row : InF(s)' => InF(s) \/ s[1] = Len(asked),
         \A s \in Row : stage'[s] = "count" => stage[s] = "count" \/ (InF(s) /\ send'[s] = "sent"),
         \A s \in Row : send'[s] # "none" => \/ send[s] # "none" /\ touched'[s] \in {touched[s], clock}
                                             \/ asked[s[1]].at <= touched'[s],
         counted \subseteq counted',
         \A s \in Row : s \in counted' \/ stage'[s] \in Marking
                          => s \in counted \/ stage[s] \in Marking \/ OnBooks(s[1])',
         run.lastSent <= run'.lastSent,
         run'.lastCounted = run.lastCounted \/ OnBooks(run.lastCounted)',
         run'.inFlight \in {run.inFlight, NoDecision}
  PROVE  RowBooks'
<1>1. /\ clock \in Nat /\ clock' \in Nat /\ touched \in [Row -> Nat] /\ touched' \in [Row -> Nat]
      /\ Len(asked) \in Nat /\ run.inFlight \in Decision \cup {NoDecision}
  BY RunFields DEF TypeInv, Typed
<1>2. Newest'
  <2>1. \A s \in Row : (s \in ToCount)' => s \in ToCount \/ InF(s)
    BY DEF ToCount
  <2>2. \A s \in Row : InF(s)' \/ (s \in ToCount)' => s[1] = Len(asked)
    BY <2>1 DEF RowBooks, Newest
  <2>3. run'.inFlight <= Len(asked)
    BY <1>1 DEF RowBooks, Newest, NoDecision
  <2>4. QED
    BY <2>2, <2>3 DEF Newest, Row, Decision
<1>3. \A d : OnBooks(d) => OnBooks(d)'
  BY OnBooksKept
<1>4. Booked'
  <2>1. \A s \in Row : s \in counted' \/ stage'[s] \in Marking => OnBooks(s[1])'
    BY <1>3 DEF RowBooks, Booked
  <2>2. (run.lastCounted # NoDecision => OnBooks(run.lastCounted))'
    <3>1. CASE run'.lastCounted = run.lastCounted /\ run.lastCounted # NoDecision
      <4>1. PICK d : d = run.lastCounted
        OBVIOUS
      <4>2. OnBooks(d)'
        BY <1>3, <3>1, <4>1 DEF RowBooks, Booked
      <4>3. QED
        BY <3>1, <4>1, <4>2 DEF OnBooks
    <3>2. QED
      BY <3>1
  <2>3. \A s \in Row : stage'[s] = "count" => send'[s] = "sent"
    BY DEF RowBooks, Booked
  <2>4. QED
    <3>1. \A s \in Row : (s \in counted \/ stage[s] \in Marking => OnBooks(s[1]))'
      BY <2>1
    <3>2. Row' = Row
      BY DEF Row, Decision
    <3>3. QED
      BY <2>2, <2>3, <3>1, <3>2 DEF Booked
<1>5. Dates'
  <2>1. \A d \in 1..Len(asked) : asked[d].at \in Nat /\ 0 < asked[d].at /\ asked[d].at <= clock
    <3>1. \A d \in 1..Len(asked) : asked[d] \in Question(Actions)
      BY DEF TypeInv, Typed
    <3>2. QED
      BY <3>1 DEF RowBooks, Dates, Question
  <2>2. \A d \in 1..Len(asked') : 0 < asked'[d].at /\ asked'[d].at <= clock'
    BY <1>1, <2>1
  <2>3. ASSUME NEW s \in Row, send'[s] # "none" PROVE asked'[s[1]].at <= touched'[s]
    <3>1. send[s] # "none" => s[1] \in 1..Len(asked) /\ asked[s[1]].at <= touched[s]
      BY AskedTyped DEF RowBooks, Dates, TypeInv, Named
    <3>2. QED
      BY <2>1, <2>3, <3>1
  <2>4. QED
    BY <2>2, <2>3 DEF Dates, Row, Decision
<1>6. Spaced'
  <2>1. \A e \in 1..Len(asked) : GapBefore(e)' = GapBefore(e)
    BY DEF GapBefore, ShortestGap, P
  <2> SUFFICES ASSUME NEW d \in 1..Len(asked), NEW e \in 1..Len(asked), d < e,
                      NEW s \in Row, s[1] = d, send'[s] = "sent"
               PROVE  \E u \in Row : u[1] = d /\ send'[u] = "sent" /\ touched'[u] + GapBefore(e) <= asked[e].at
    BY <2>1 DEF Spaced, Row, Decision
  <2>2. send[s] = "sent"
    BY <1>1 DEF RowBooks, Newest
  <2>3. PICK u \in Row : u[1] = d /\ send[u] = "sent" /\ touched[u] + GapBefore(e) <= asked[e].at
    BY <2>2 DEF RowBooks, Spaced
  <2>4. QED
    BY <2>3
<1>7. QED
  BY <1>2, <1>4, <1>5, <1>6 DEF RowBooks

\* A tick that does not move is still abreast of the books if its lease is its
\* own no more than it was, and the books moved on to a later decision, if at all.
LEMMA WaitsBook ==
  ASSUME TypeInv, TypeInv', BookInv, NEW v \in Ticker,
         pc'[v] = pc[v], tick'[v] = tick[v], UNCHANGED case, Owns(v)' => Owns(v),
         UNCHANGED asked \/ ~AtWork(v),
         \A s \in Row : send[s] = "sent" => send'[s] = "sent" /\ touched'[s] = touched[s],
         \/ run'.lastSent = run.lastSent /\ run'.lastCounted = run.lastCounted
         \/ run.lastSent <= run'.lastSent /\ run.lastCounted < run'.lastCounted
  PROVE  Books(v, pc[v], tick[v])'
<1> DEFINE t == tick[v]
<1>1. Books(v, pc[v], t)
  BY DEF BookInv
<1>2. /\ run.lastSent \in Nat /\ run'.lastSent \in Nat /\ t.todo \subseteq Row
      /\ run.lastCounted \in Nat /\ run'.lastCounted \in Nat /\ t.run.lastCounted \in Nat
  <2>1. run \in RunRec(Actions) /\ run' \in RunRec(Actions)' /\ t.run \in RunRec(Actions) /\ t.todo \subseteq Row
    BY TickFields DEF TypeInv, Typed
  <2>2. /\ run.lastCounted \in Decision \cup {NoDecision}
        /\ run'.lastCounted \in Decision \cup {NoDecision}
        /\ t.run.lastCounted \in Decision \cup {NoDecision}
        /\ run.lastSent \in Nat /\ run'.lastSent \in Nat
    BY <2>1 DEF RunRec
  <2>3. QED
    BY <2>1, <2>2, Numbers DEF Decision, NoDecision
<1>3. Abreast(v, t) => Abreast(v, t)'
  BY <1>2 DEF Abreast
<1>4. \A d : OnBooks(d) => OnBooks(d)'
  BY <1>2, OnBooksKept
<1>5. Rested(t) => Rested(t)'
  BY DEF Rested, ShortestGap, P
<1>6. ~AtWork(v) => /\ pc[v] \notin {"reconcile", "renew", "insert", "finish"} \cup Marking
                    /\ pc[v] # "settle" \/ ~t.sends
  BY DEF AtWork, OwnPlaces, Marking
<1>7. pc[v] \in {"reconcile"} \cup Marking => \A s \in t.todo : send'[s] = "sent" /\ s[1] = Len(asked')
  BY <1>1, <1>2, <1>6 DEF Books
<1>8. pc[v] \in {"renew", "insert"} \/ (pc[v] = "settle" /\ t.sends) => asked'[Len(asked')].at = t.now
  BY <1>1, <1>6 DEF Books
<1>9. QED
  BY <1>1, <1>3, <1>4, <1>5, <1>7, <1>8 DEF Books

\* A step of a tick that leaves the rows and the books alone.
LEMMA TickBook ==
  ASSUME OwnProcesses, TypeInv, TypeInv', BookInv, NEW w \in Ticker, NEW place, NEW t,
         UNCHANGED <<clock, case, asked, send, touched, stage, counted>>,
         pc' = [pc EXCEPT ![w] = place], tick' = [tick EXCEPT ![w] = t],
         run'.lastSent = run.lastSent, run'.lastCounted = run.lastCounted,
         run'.inFlight \in {run.inFlight, NoDecision},
         run'.lease.owner \in {run.lease.owner, Process[w], Nobody},
         Books(w, place, t)'
  PROVE  BookInv'
<1>1. RowBooks'
  <2>1. \A s \in Row : InF(s)' => InF(s)
    BY DEF InF, sendIsInFlight
  <2>2. \A s \in Row : send[s] # "none" => touched'[s] \in {touched[s], clock}
    OBVIOUS
  <2>3. clock <= clock' /\ run.lastSent <= run'.lastSent
    BY RunFields DEF TypeInv, Typed
  <2>4. QED
    BY <2>1, <2>2, <2>3, RowsBook DEF BookInv
<1>2. ASSUME NEW v \in Ticker PROVE Books(v, pc[v], tick[v])'
  <2>1. CASE v # w
    <3>1. pc'[v] = pc[v] /\ tick'[v] = tick[v]
      BY <2>1 DEF TypeInv, Typed
    <3>2. Owns(v)' => Owns(v)
      BY <2>1, ProgramRunAssumption DEF Owns, OwnProcesses
    <3>3. QED
      BY <3>1, <3>2, WaitsBook
  <2>2. CASE v = w
    <3>1. pc'[w] = place /\ tick'[w] = t
      BY DEF TypeInv, Typed
    <3>2. QED
      BY <2>2, <3>1
  <2>3. QED
    BY <2>1, <2>2
<1>3. QED
  BY <1>1, <1>2 DEF BookInv

\* The same, for a tick that takes no lease and comes to where it is right as
\* things are.
LEMMA GoesBook ==
  ASSUME OwnProcesses, TypeInv, TypeInv', BookInv, NEW w \in Ticker, NEW place, NEW t,
         UNCHANGED <<clock, case, asked, send, touched, stage, counted>>,
         pc' = [pc EXCEPT ![w] = place], tick' = [tick EXCEPT ![w] = t],
         run'.lastSent = run.lastSent, run'.lastCounted = run.lastCounted,
         run'.inFlight \in {run.inFlight, NoDecision},
         run'.lease.owner \in {run.lease.owner, Nobody},
         Books(w, place, t)
  PROVE  BookInv'
<1>1. Owns(w)' => Owns(w)
  BY ProgramRunAssumption DEF Owns
<1>2. Abreast(w, t) => Abreast(w, t)'
  BY <1>1 DEF Abreast
<1>3. OnBooks(t.row[1]) => OnBooks(t.row[1])'
  BY DEF OnBooks, Row, Decision
<1>4. Rested(t) => Rested(t)'
  BY DEF Rested, ShortestGap, P
<1>5. Books(w, place, t)'
  BY <1>2, <1>3, <1>4 DEF Books
<1>6. QED
  BY <1>5, TickBook

\* The end of a tick, wherever it was.
LEMMA StopBook ==
  ASSUME OwnProcesses, TypeInv, TypeInv', BookInv, NEW w \in Ticker, Stop(w),
         UNCHANGED <<clock, case, asked, rows>>,
         run'.lastSent = run.lastSent, run'.lastCounted = run.lastCounted,
         run'.inFlight = run.inFlight, run'.lease.owner \in {run.lease.owner, Nobody}
  PROVE  BookInv'
<1>1. pc' = [pc EXCEPT ![w] = "idle"] /\ tick' = [tick EXCEPT ![w] = NoTick]
  BY DEF Stop, Goto
<1>2. Books(w, "idle", NoTick)
  BY DEF Books, NoTick, Early, Marking
<1>3. QED
  BY <1>1, <1>2, GoesBook DEF rows

LEMMA BookEnds ==
  ASSUME OwnProcesses, TypeInv, TypeInv', BookInv, NEW w \in Ticker,
         LoseLease(w) \/ HostFails(w) \/ Crash(w) \/ releaseLease(w)
  PROVE  BookInv'
<1>1. run \in RunRec(Actions)
  BY DEF TypeInv, Typed
<1>2. CASE LoseLease(w) \/ Crash(w)
  BY <1>2, StopBook DEF LoseLease, Crash, TickFrame, outside
<1>3. CASE releaseLease(w)
  <2>1. run' = run \/ run' = [run EXCEPT !.lease = NoLease]
    BY <1>3 DEF releaseLease, SetRun
  <2>2. /\ run'.lastSent = run.lastSent /\ run'.lastCounted = run.lastCounted
        /\ run'.inFlight = run.inFlight /\ run'.lease.owner \in {run.lease.owner, Nobody}
    BY <1>1, <2>1 DEF RunRec, NoLease
  <2>3. QED
    BY <1>3, <2>2, StopBook DEF releaseLease, TickFrame, outside
<1>4. CASE HostFails(w)
  <2>1. PICK n, l : run' = [run EXCEPT !.lease = l, !.nextTick = n] /\ l \in {run.lease, NoLease}
    BY <1>4 DEF HostFails, SetRun
  <2>2. /\ run'.lastSent = run.lastSent /\ run'.lastCounted = run.lastCounted
        /\ run'.inFlight = run.inFlight /\ run'.lease = l
    BY <1>1, <2>1 DEF RunRec
  <2>3. run'.lease.owner \in {run.lease.owner, Nobody}
    BY <2>1, <2>2 DEF NoLease
  <2>4. QED
    BY <1>4, <2>2, <2>3, StopBook DEF HostFails, outside
<1>5. QED
  BY <1>2, <1>3, <1>4

LEMMA BookDue ==
  ASSUME OwnProcesses, TypeInv, TypeInv', BookInv, NEW w \in Ticker, Due(w) PROVE BookInv'
<1>1. /\ pc' = [pc EXCEPT ![w] = "acquire"] /\ pc[w] = "idle"
      /\ UNCHANGED <<clock, case, asked, send, touched, stage, counted, run, tick>>
  BY DEF Due, Goto, outside, rows
<1>2. tick' = [tick EXCEPT ![w] = tick[w]]
  BY <1>1 DEF TypeInv, Typed
<1>3. Books(w, "acquire", tick[w])
  BY DEF BookInv, Books, Early, Marking
<1>4. QED
  BY <1>1, <1>2, <1>3, GoesBook

\* The copy of a tick that takes the lease is of the books as they are.
LEMMA BookAcquire ==
  ASSUME OwnProcesses, TypeInv, TypeInv', BookInv, NEW w \in Ticker, acquireLease(w) PROVE BookInv'
<1>1. run \in RunRec(Actions) /\ clock \in Nat /\ NoTick \in TickRec(Actions)
  BY NoTickTyped DEF TypeInv, Typed
<1>2. UNCHANGED <<clock, case, asked, rows>>
  BY DEF acquireLease, TickFrame, outside
<1>3. CASE ~(run.status \in Active /\ LeaseFree)
  BY <1>2, <1>3, StopBook DEF acquireLease
<1>4. CASE run.status \in Active /\ LeaseFree
  <2> DEFINE l == [owner |-> Process[w], until |-> clock + LeaseSpan]
             r == [run EXCEPT !.lease = l]
             t == [NoTick EXCEPT !.now = clock, !.run = r, !.next = r, !.wake = r.wake]
  <2>1. run' = r /\ pc' = [pc EXCEPT ![w] = "resolve"] /\ tick' = [tick EXCEPT ![w] = t]
    BY <1>4 DEF acquireLease, SetRun, Goto
  <2>2. l.owner = Process[w]
    OBVIOUS
  <2> HIDE DEF l
  <2>3. r.lease = l /\ r.inFlight = run.inFlight /\ r.lastSent = run.lastSent
        /\ r.lastCounted = run.lastCounted
    BY <1>1 DEF RunRec
  <2>4. r.lastCounted \in Nat
    <3>1. run.lastCounted \in Decision \cup {NoDecision}
      BY <1>1, RunFields
    <3>2. QED
      BY <2>3, <3>1, Numbers DEF Decision, NoDecision
  <2> HIDE DEF r
  <2>5. t.run = r /\ t.set = {} /\ t.sends = FALSE
    BY <1>1 DEF TickRec, NoTick
  <2> HIDE DEF t
  <2>6. PICK u : u = t
    OBVIOUS
  <2>7. Abreast(w, u)'
    BY <2>1, <2>4, <2>5, <2>6 DEF Abreast
  <2>8. Books(w, "resolve", u)'
    BY <2>5, <2>6, <2>7 DEF Books, Marking
  <2>9. QED
    BY <1>2, <2>1, <2>2, <2>3, <2>6, <2>8, TickBook DEF rows
<1>5. QED
  BY <1>3, <1>4

\* Where a tick has nothing to know but its copy.
LEMMA PlainBook ==
  ASSUME BookInv, NEW w \in Ticker, pc[w] \notin Early, NEW place, NEW t,
         t.run = tick[w].run, "lastSent" \notin t.set, "lastCounted" \notin t.set,
         "inFlight" \in t.set /\ ~t.sends => t.next.inFlight = NoDecision,
         place \notin {"reconcile", "recipients", "renew", "insert"} \cup Marking,
         place \in {"finish", "settle"} => ~t.sends
  PROVE  Books(w, place, t)
<1>1. Abreast(w, tick[w])
  BY DEF BookInv, Books
<1>2. Abreast(w, t)
  BY <1>1 DEF Abreast
<1>3. QED
  BY <1>2 DEF Books

\* Renewing the lease leaves the books alone.
LEMMA RenewedBook ==
  ASSUME TypeInv, NEW w \in Ticker, run' = Renewed(w)
  PROVE  /\ run'.lastSent = run.lastSent /\ run'.lastCounted = run.lastCounted
         /\ run'.inFlight = run.inFlight /\ run'.lease.owner = run.lease.owner
<1>1. run' = Renewed(w) /\ Typed
  BY DEF TypeInv
<1>2. QED
  BY <1>1, RenewedTyped DEF Fields, NewRun

LEMMA BookResolve ==
  ASSUME OwnProcesses, TypeInv, TypeInv', BookInv, NEW w \in Ticker, Resolve(w) PROVE BookInv'
<1>1. tick[w] \in TickRec(Actions) /\ Typed /\ pc[w] = "resolve"
  BY TickFields DEF TypeInv, Resolve
<1>2. CASE LoseLease(w)
  BY <1>2, BookEnds
<1>3. CASE ~LoseLease(w)
  <2> DEFINE t == [tick[w] EXCEPT !.facts = facts]
  <2>1. /\ run' = Renewed(w) /\ pc' = [pc EXCEPT ![w] = "decide"]
        /\ tick' = [tick EXCEPT ![w].facts = facts]
        /\ UNCHANGED <<clock, case, asked, send, touched, stage, counted>>
    BY <1>3 DEF Resolve, SetRun, Goto, TickFrame, rows, outside
  <2>2. tick' = [tick EXCEPT ![w] = t]
    BY <2>1 DEF TypeInv, Typed
  <2>3. t.run = tick[w].run /\ t.set = tick[w].set /\ t.sends = tick[w].sends /\ t.next = tick[w].next
    BY <1>1 DEF TickRec
  <2> HIDE DEF t
  <2>4. /\ "lastSent" \notin t.set /\ "lastCounted" \notin t.set /\ pc[w] \notin Early
        /\ "inFlight" \in t.set /\ ~t.sends => t.next.inFlight = NoDecision
    BY <1>1, <2>3 DEF BookInv, Books, Early
  <2>5. Books(w, "decide", t)
    BY <2>3, <2>4, PlainBook DEF Marking
  <2>6. QED
    BY <2>1, <2>2, <2>5, RenewedBook, GoesBook
<1>4. QED
  BY <1>2, <1>3

\* A tick that has decided what to write and makes no decision.
LEMMA WantsBook ==
  ASSUME OwnProcesses, TypeInv, TypeInv', FlightInv, BookInv, NEW w \in Ticker,
         pc[w] \notin Later \cup Early, NEW place \in {"cancelSends", "finish"},
         NEW next \in RunRec(Actions), NEW set, NEW at,
         "lastSent" \notin set, "lastCounted" \notin set,
         "inFlight" \in set => next.inFlight = NoDecision,
         UNCHANGED <<clock, case, asked, send, touched, stage, counted>>,
         pc' = [pc EXCEPT ![w] = place],
         tick' = [tick EXCEPT ![w] = Wants(tick[w], next, set, at)],
         run'.lastSent = run.lastSent, run'.lastCounted = run.lastCounted,
         run'.inFlight = run.inFlight, run'.lease.owner = run.lease.owner
  PROVE  BookInv'
<1>1. tick[w] \in TickRec(Actions) /\ ~tick[w].sends
  BY TickFields DEF TypeInv, FlightInv, Ticking, Careful
<1>2. PICK u : u = Wants(tick[w], next, set, at)
  OBVIOUS
<1>3. u.run = tick[w].run /\ ~u.sends
  BY <1>1, <1>2, WantsKeeps
<1>4. u.next.inFlight = next.inFlight /\ \A f : f \in u.set <=> f \in set \/ (f = "nextTick" /\ at # Never)
  BY <1>1, <1>2, WantsFields
<1>5. Books(w, place, u)
  BY <1>3, <1>4, PlainBook DEF Marking
<1>6. QED
  BY <1>2, <1>5, GoesBook

\* What the books say of a tick before it writes.
LEMMA TickBooks ==
  ASSUME TypeInv, FlightInv, BookInv, NEW w \in Ticker
  PROVE  /\ "lastSent" \notin tick[w].set /\ "lastCounted" \notin tick[w].set
         /\ pc[w] \notin Later => ~tick[w].sends
         /\ "inFlight" \in tick[w].set /\ ~tick[w].sends => tick[w].next.inFlight = NoDecision
         /\ tick[w] \in TickRec(Actions) /\ tick[w].next \in RunRec(Actions)
         /\ tick[w].set \in SUBSET Fields /\ tick[w].todo \subseteq Row
BY TickFields DEF TypeInv, BookInv, Books, FlightInv, Ticking, Careful

LEMMA BookDecide ==
  ASSUME OwnProcesses, TypeInv, TypeInv', FlightInv, BookInv, NEW w \in Ticker, Decide(w)
  PROVE  BookInv'
<1> DEFINE t == tick[w]
<1>1. Typed /\ t \in TickRec(Actions) /\ t.run \in RunRec(Actions)
  BY TickFields DEF TypeInv
<1>2. pc[w] = "decide" /\ pc[w] \notin Later \cup Early
  BY <1>1, DecideWays DEF Later, Early
<1>3. CASE DecideExits(w)
  <2> DEFINE next == [t.run EXCEPT !.status = "exited", !.inFlight = NoDecision]
             set == {"status", "inFlight"}
  <2>1. next \in RunRec(Actions) /\ next.inFlight = NoDecision
    BY <1>1 DEF RunRec
  <2>2. /\ pc' = [pc EXCEPT ![w] = "cancelSends"]
        /\ tick' = [tick EXCEPT ![w] = Wants(tick[w], next, set, Never)]
        /\ UNCHANGED <<clock, case, asked, send, touched, stage, counted, run>>
    BY <1>3 DEF DecideExits, Finishing, Goto, TickFrame, rows, outside
  <2>3. "lastSent" \notin set /\ "lastCounted" \notin set
    OBVIOUS
  <2> HIDE DEF next, set
  <2>4. QED
    BY <1>2, <2>1, <2>2, <2>3, WantsBook
<1>4. CASE DecideEnds(w)
  <2> DEFINE works == Works(P, t.run.acts, t.facts, t.now)
             next == [t.run EXCEPT !.status = "completed", !.acts = works]
             set == {"acts", "status"}
  <2>1. works \in ActsOver(Actions)
    BY <1>1, TickFields, RunFields, TheProgram, WorksTyped
  <2> HIDE DEF works
  <2>2. next \in RunRec(Actions)
    <3> HIDE DEF t
    <3>1. PICK r \in RunRec(Actions) : r = t.run
      BY <1>1
    <3>2. [r EXCEPT !.status = "completed", !.acts = works] \in RunRec(Actions)
      BY <2>1 DEF RunRec
    <3>3. QED
      BY <3>1, <3>2
  <2>3. /\ pc' = [pc EXCEPT ![w] = "finish"]
        /\ tick' = [tick EXCEPT ![w] = Wants(tick[w], next, set, Never)]
        /\ UNCHANGED <<clock, case, asked, send, touched, stage, counted, run>>
    BY <1>4 DEF DecideEnds, Finishing, Goto, TickFrame, rows, outside, works
  <2>4. "lastSent" \notin set /\ "lastCounted" \notin set /\ "inFlight" \notin set
    OBVIOUS
  <2> HIDE DEF next, set
  <2>5. QED
    BY <1>2, <2>2, <2>3, <2>4, WantsBook
<1>5. CASE DecideSleeps(w)
  <2>1. PICK at \in Nat : Silent(w, DecidedRun(w), DecidedSet(w), at)
    BY <1>5 DEF DecideSleeps
  <2>2. /\ pc' = [pc EXCEPT ![w] = "finish"]
        /\ tick' = [tick EXCEPT ![w] = Wants(tick[w], DecidedRun(w), DecidedSet(w), at)]
        /\ UNCHANGED <<clock, case, asked, send, touched, stage, counted, run>>
    BY <2>1 DEF Silent, Finishing, Goto, TickFrame, rows, outside
  <2>3. DecidedRun(w) \in RunRec(Actions) /\ DecidedSet(w) \cap {"inFlight", "lastSent", "lastCounted"} = {}
    BY <1>1, DecidedTyped
  <2>4. QED
    BY <1>2, <2>2, <2>3, WantsBook
<1>6. CASE DecideAsks(w)
  <2> DEFINE r == DecidedRun(w)
             set == DecidedSet(w)
  <2>1. PICK a \in Actions \cup {Ask}, n \in Nat \ {0} :
          tick' = [tick EXCEPT ![w].next = r, ![w].set = set, ![w].chosen = a, ![w].attempt = n]
    BY <1>6 DEF DecideAsks
  <2>2. PICK place \in {"fresh", "inFlight"} : pc' = [pc EXCEPT ![w] = place]
    BY <1>6 DEF DecideAsks, Goto
  <2>3. UNCHANGED <<clock, case, asked, send, touched, stage, counted, run>>
    BY <1>6 DEF DecideAsks, TickFrame, rows, outside
  <2>4. "lastSent" \notin set /\ "lastCounted" \notin set /\ "inFlight" \notin set
    BY <1>1, DecidedTyped
  <2> DEFINE u == [tick[w] EXCEPT !.next = r, !.set = set, !.chosen = a, !.attempt = n]
  <2> HIDE DEF r, set
  <2>5. tick' = [tick EXCEPT ![w] = u]
    BY <1>1, <2>1 DEF Typed
  <2>6. u.run = tick[w].run /\ u.set = set
    BY <1>1 DEF TickRec
  <2> HIDE DEF u
  <2>7. Books(w, place, u)
    BY <1>2, <2>4, <2>6, PlainBook DEF Marking
  <2>8. QED
    BY <2>2, <2>3, <2>5, <2>7, GoesBook
<1>7. QED
  BY <1>1, <1>3, <1>4, <1>5, <1>6, DecideWays

\* What the tick reads of mail that is not counted is of the newest decision.
LEMMA BookRead ==
  ASSUME OwnProcesses, TypeInv, TypeInv', BookInv, NEW w \in Ticker, ReadInFlight(w) PROVE BookInv'
<1> DEFINE read == RowsOf(tick[w].run.inFlight)
           todo == {s \in read : send[s] = "sent" /\ s \notin counted}
           busy == \E s \in read : sendIsInFlight(s, tick[w].now)
           stale == {s \in read : send[s] = "queued" /\ tick[w].now - touched[s] >= Recheck}
           u == [tick[w] EXCEPT !.todo = todo, !.busy = busy, !.stale = stale]
<1>1. tick[w] \in TickRec(Actions) /\ pc[w] \notin Early
  BY TickFields DEF TypeInv, ReadInFlight, Early
<1>2. /\ pc' = [pc EXCEPT ![w] = "reconcile"]
      /\ UNCHANGED <<clock, case, asked, send, touched, stage, counted, run>>
  BY DEF ReadInFlight, Goto, TickFrame, rows, outside
<1>3. tick' = [tick EXCEPT ![w].todo = todo, ![w].busy = busy, ![w].stale = stale]
  BY DEF ReadInFlight
<1>4. \A s \in todo : send[s] = "sent" /\ s[1] = Len(asked)
  BY DEF BookInv, RowBooks, Newest, ToCount, RowsOf
<1> HIDE DEF todo, busy, stale
<1>5. tick' = [tick EXCEPT ![w] = u]
  BY <1>1, <1>3 DEF TypeInv, Typed
<1>6. /\ u.run = tick[w].run /\ u.set = tick[w].set /\ u.sends = tick[w].sends
      /\ u.next = tick[w].next /\ u.todo = todo
  BY <1>1 DEF TickRec
<1> HIDE DEF u
<1>7. Books(w, "reconcile", u)
  BY <1>1, <1>4, <1>6 DEF BookInv, Books, Abreast, Marking
<1>8. QED
  BY <1>2, <1>5, <1>7, GoesBook

LEMMA BookReconciled ==
  ASSUME OwnProcesses, TypeInv, TypeInv', FlightInv, BookInv, NEW w \in Ticker, Reconciled(w)
  PROVE  BookInv'
<1> DEFINE t == tick[w]
           clear == [t.next EXCEPT !.inFlight = NoDecision]
           set == t.set \cup {"inFlight"}
<1>1. /\ t \in TickRec(Actions) /\ t.next \in RunRec(Actions) /\ ~t.sends
      /\ pc[w] = "reconcile" /\ pc[w] \notin Later \cup Early
      /\ "lastSent" \notin t.set /\ "lastCounted" \notin t.set
      /\ "inFlight" \in t.set => t.next.inFlight = NoDecision
  BY TickBooks DEF Reconciled, Later, Early
<1>2. UNCHANGED <<clock, case, asked, send, touched, stage, counted, run>>
  BY DEF Reconciled, Silent, Finishing, TickFrame, rows, outside
<1>3. clear \in RunRec(Actions) /\ clear.inFlight = NoDecision
  <2> HIDE DEF t
  <2>1. PICK r \in RunRec(Actions) : r = t.next
    BY <1>1
  <2>2. [r EXCEPT !.inFlight = NoDecision] \in RunRec(Actions)
        /\ [r EXCEPT !.inFlight = NoDecision].inFlight = NoDecision
    BY DEF RunRec
  <2>3. QED
    BY <2>1, <2>2
<1>4. "lastSent" \notin set /\ "lastCounted" \notin set
  BY <1>1
<1>5. CASE t.busy
  <2>1. pc' = [pc EXCEPT ![w] = "finish"]
        /\ tick' = [tick EXCEPT ![w] = Wants(tick[w], t.next, t.set, t.now + Recheck)]
    BY <1>5 DEF Reconciled, Goto
  <2>2. QED
    BY <1>1, <1>2, <2>1, WantsBook
<1>6. CASE ~t.busy /\ t.row # NoRow
  <2>1. pc' = [pc EXCEPT ![w] = "finish"] /\ tick' = [tick EXCEPT ![w] = Wants(tick[w], clear, set, t.now + 1)]
    BY <1>6 DEF Reconciled, Silent, Finishing, Goto
  <2> HIDE DEF clear, set
  <2>2. QED
    BY <1>1, <1>2, <1>3, <1>4, <2>1, WantsBook
<1>7. CASE ~t.busy /\ t.row = NoRow
  <2> DEFINE u == [t EXCEPT !.next = clear, !.set = set]
  <2>1. pc' = [pc EXCEPT ![w] = "fresh"] /\ tick' = [tick EXCEPT ![w].next = clear, ![w].set = set]
    BY <1>7 DEF Reconciled, Goto
  <2> HIDE DEF clear, set
  <2>2. tick' = [tick EXCEPT ![w] = u]
    BY <1>1, <2>1 DEF TypeInv, Typed
  <2>3. u.run = t.run /\ u.set = set /\ u.next = clear
    BY <1>1 DEF TickRec
  <2> HIDE DEF u
  <2>4. Books(w, "fresh", u)
    BY <1>1, <1>3, <1>4, <2>3, PlainBook DEF Marking
  <2>5. QED
    BY <1>2, <2>1, <2>2, <2>4, GoesBook
<1>8. QED
  BY <1>5, <1>6, <1>7

\* The gap is waited for before the recipients are asked.
LEMMA TimelyRests ==
  ASSUME TypeInv, NEW w \in Ticker, EligibleAt(tick[w]) <= tick[w].now
  PROVE  Rested(tick[w])
<1> DEFINE t == tick[w]
           least == ShortestGap(t.chosen, t.attempt - 1)
           gap == gapMs(P, t.chosen, t.attempt - 1, t.next.stage, Progress(t))
<1>1. Typed /\ t.run.lastSent \in Nat /\ t.now \in Nat
  BY TickFields, RunFields DEF TypeInv
<1>2. gap \in Nat /\ least \in Nat /\ least <= gap
  BY <1>1, TickFields, TheProgram, GapTyped, GapIsLeast
<1>3. t.run.lastSent # Never => t.run.lastSent + gap <= t.now
  BY DEF EligibleAt
<1> HIDE DEF gap, least, t
<1>4. t.run.lastSent = Never \/ t.run.lastSent + least <= t.now
  BY <1>1, <1>2, <1>3
<1>5. QED
  BY <1>4 DEF Rested, least, t

LEMMA BookFresh ==
  ASSUME OwnProcesses, TypeInv, TypeInv', FlightInv, BookInv, NEW w \in Ticker, Fresh(w) \/ Timing(w)
  PROVE  BookInv'
<1> DEFINE t == tick[w]
<1>1. /\ pc[w] \in {"fresh", "timing"} /\ pc[w] \notin Later \cup Early
      /\ t.next \in RunRec(Actions) /\ "lastSent" \notin t.set /\ "lastCounted" \notin t.set
      /\ "inFlight" \in t.set => t.next.inFlight = NoDecision
  BY TickBooks DEF Fresh, Timing, Later, Early
<1>2. CASE LoseLease(w)
  BY <1>2, BookEnds
<1>3. CASE ~LoseLease(w)
  <2>1. UNCHANGED <<clock, case, asked, send, touched, stage, counted, run>>
    BY <1>3 DEF Fresh, Timing, Silent, Finishing, TickFrame, rows, outside
  <2>2. \/ \E at : /\ pc' = [pc EXCEPT ![w] = "finish"]
                   /\ tick' = [tick EXCEPT ![w] = Wants(tick[w], t.next, t.set, at)]
        \/ pc' = [pc EXCEPT ![w] = "timing"] /\ UNCHANGED tick
        \/ pc' = [pc EXCEPT ![w] = "recipients"] /\ UNCHANGED tick /\ EligibleAt(t) <= t.now
    <3>1. CASE Fresh(w)
      BY <1>3, <3>1 DEF Fresh, Silent, Finishing, Goto
    <3>2. CASE Timing(w)
      BY <3>2 DEF Timing, Silent, Finishing, Goto
    <3>3. QED
      BY <3>1, <3>2
  <2>3. CASE \E at : /\ pc' = [pc EXCEPT ![w] = "finish"]
                     /\ tick' = [tick EXCEPT ![w] = Wants(tick[w], t.next, t.set, at)]
    BY <1>1, <2>1, <2>3, WantsBook
  <2>4. ASSUME UNCHANGED tick PROVE tick' = [tick EXCEPT ![w] = tick[w]]
    BY <2>4 DEF TypeInv, Typed
  <2>5. Books(w, pc[w], t)
    BY DEF BookInv
  <2>6. CASE pc' = [pc EXCEPT ![w] = "timing"] /\ UNCHANGED tick
    <3>1. Books(w, "timing", t)
      BY <1>1, <2>5 DEF Books, Early, Marking
    <3>2. QED
      BY <2>1, <2>4, <2>6, <3>1, GoesBook
  <2>7. CASE pc' = [pc EXCEPT ![w] = "recipients"] /\ UNCHANGED tick /\ EligibleAt(t) <= t.now
    <3>1. Rested(t)
      BY <2>7, TimelyRests
    <3>2. Books(w, "recipients", t)
      BY <1>1, <2>5, <3>1 DEF Books, Early, Marking
    <3>3. QED
      BY <2>1, <2>4, <2>7, <3>2, GoesBook
  <2>8. QED
    BY <2>2, <2>3, <2>6, <2>7
<1>4. QED
  BY <1>2, <1>3

LEMMA BookRecipients ==
  ASSUME OwnProcesses, TypeInv, TypeInv', FlightInv, BookInv, case.arm = "treatment",
         NEW w \in Ticker, Recipients(w)
  PROVE  BookInv'
<1> DEFINE t == tick[w]
<1>1. /\ t \in TickRec(Actions) /\ t.next \in RunRec(Actions)
      /\ pc[w] = "recipients" /\ pc[w] \notin Later \cup Early
      /\ "lastSent" \notin t.set /\ "lastCounted" \notin t.set
      /\ "inFlight" \in t.set => t.next.inFlight = NoDecision
  BY TickBooks DEF Recipients, Later, Early
<1>2. CASE LoseLease(w)
  BY <1>2, BookEnds
<1>3. CASE ~LoseLease(w)
  <2>1. /\ run' = Renewed(w) /\ pc' = [pc EXCEPT ![w] = "finish"]
        /\ UNCHANGED <<clock, case, asked, send, touched, stage, counted>>
    BY <1>3 DEF Recipients, SetRun, Goto, rows, outside
  <2>2. CASE tick' = [tick EXCEPT ![w] = Wants(t, t.next, t.set, GapEnd(w))]
    BY <1>1, <2>1, <2>2, RenewedBook, WantsBook
  <2>3. CASE tick' # [tick EXCEPT ![w] = Wants(t, t.next, t.set, GapEnd(w))]
    <3> DEFINE next == IF case.arm = "holdout" THEN HeldOut(t) ELSE Marked(t)
               set == IF case.arm = "treatment" THEN t.set \cup {"inFlight", "nextTick"}
                      ELSE t.set \cup HoldoutSet \cup
                           (IF t.chosen = Ask THEN {"askSent", "status"} ELSE {})
               u == [tick[w] EXCEPT !.sends = TRUE, !.next = next, !.set = set]
    <3>1. tick' = [tick EXCEPT ![w].sends = TRUE, ![w].next = next, ![w].set = set]
      BY <1>3, <2>3 DEF Recipients
    <3>2. "lastSent" \notin set /\ "lastCounted" \notin set
      BY <1>1
    <3> HIDE DEF next, set
    <3>3. tick' = [tick EXCEPT ![w] = u]
      BY <1>1, <3>1 DEF TypeInv, Typed
    <3>4. /\ u.now = t.now /\ u.run = t.run /\ u.sends = TRUE /\ u.set = set
          /\ u.chosen = t.chosen /\ u.attempt = t.attempt
      BY <1>1 DEF TickRec
    <3> HIDE DEF u
    <3>5. Rested(u)
      BY <1>1, <3>4 DEF BookInv, Books, Rested
    <3>6. Abreast(w, u)
      BY <1>1, <3>4 DEF BookInv, Books, Abreast
    <3>7. Books(w, "finish", u)
      BY <3>2, <3>4, <3>5, <3>6 DEF Books, Marking
    <3>8. QED
      BY <2>1, <3>3, <3>7, RenewedBook, GoesBook
  <2>4. QED
    BY <2>2, <2>3
<1>4. QED
  BY <1>2, <1>3

LEMMA BookReread ==
  ASSUME OwnProcesses, TypeInv, TypeInv', FlightInv, BookInv, NEW w \in Ticker, Reread(w)
  PROVE  BookInv'
<1> DEFINE t == tick[w]
<1>1. /\ Typed /\ t \in TickRec(Actions) /\ t.now \in Nat /\ t.next \in RunRec(Actions)
      /\ pc[w] = "finish" /\ pc[w] \notin Early
      /\ "lastSent" \notin t.set /\ "lastCounted" \notin t.set
      /\ "inFlight" \in t.set /\ ~t.sends => t.next.inFlight = NoDecision
  BY TickFields, TickBooks DEF TypeInv, Reread, Early
<1>2. CASE LoseLease(w)
  BY <1>2, BookEnds
<1>3. CASE ~LoseLease(w) /\ CountMoved(w)
  <2>1. /\ pc' = [pc EXCEPT ![w] = "abandon"] /\ UNCHANGED tick
        /\ UNCHANGED <<clock, case, asked, send, touched, stage, counted, run>>
    BY <1>3 DEF Reread, Goto, TickFrame, rows, outside
  <2>2. tick' = [tick EXCEPT ![w] = t]
    BY <1>1, <2>1 DEF Typed
  <2>3. Books(w, "abandon", t)
    BY <1>1, PlainBook DEF Marking
  <2>4. QED
    BY <2>1, <2>2, <2>3, GoesBook
<1>4. CASE ~LoseLease(w) /\ ~CountMoved(w)
  <2> DEFINE n == IF "nextTick" \in t.set THEN t.now + 1 ELSE t.next.nextTick
             next == [t.next EXCEPT !.nextTick = n]
             wake == run.wake
             u == [tick[w] EXCEPT !.wake = wake, !.next = next]
  <2>1. /\ UNCHANGED pc /\ UNCHANGED <<clock, case, asked, send, touched, stage, counted, run>>
        /\ tick' = [tick EXCEPT ![w].wake = run.wake,
                      ![w].next.nextTick = IF "nextTick" \in t.set THEN t.now + 1 ELSE @]
    BY <1>4 DEF Reread, TickFrame, rows, outside
  <2>2. tick' = [tick EXCEPT ![w] = u]
    BY <1>1, <2>1 DEF Typed, TickRec
  <2>3. next.inFlight = t.next.inFlight
    <3> HIDE DEF n, t
    <3>1. PICK r \in RunRec(Actions) : r = t.next
      BY <1>1
    <3>2. [r EXCEPT !.nextTick = n].inFlight = r.inFlight
      BY DEF RunRec
    <3>3. QED
      BY <3>1, <3>2
  <2> HIDE DEF n, next, wake
  <2>4. /\ u.now = t.now /\ u.run = t.run /\ u.sends = t.sends /\ u.set = t.set /\ u.next = next
        /\ u.chosen = t.chosen /\ u.attempt = t.attempt
    BY <1>1 DEF TickRec
  <2> HIDE DEF u
  <2>5. pc' = [pc EXCEPT ![w] = "finish"]
    BY <1>1, <2>1 DEF Typed
  <2>6. Books(w, pc[w], t)
    BY DEF BookInv
  <2>7. Books(w, "finish", u)
    BY <1>1, <2>3, <2>4, <2>6 DEF Books, Abreast, Rested, Marking
  <2>8. QED
    BY <2>1, <2>2, <2>5, <2>7, GoesBook
<1>5. QED
  BY <1>2, <1>3, <1>4

LEMMA BookAbandon ==
  ASSUME OwnProcesses, TypeInv, TypeInv', FlightInv, BookInv, NEW w \in Ticker, Abandon(w) \/ Enqueue(w)
  PROVE  BookInv'
<1>1. /\ Typed /\ tick[w] \in TickRec(Actions) /\ run \in RunRec(Actions)
      /\ "lastSent" \notin tick[w].set /\ "lastCounted" \notin tick[w].set
      /\ "inFlight" \in tick[w].set /\ ~tick[w].sends => tick[w].next.inFlight = NoDecision
  BY TickFields, TickBooks DEF TypeInv, Typed
<1>2. CASE Abandon(w)
  <2>1. /\ pc' = [pc EXCEPT ![w] = "release"] /\ UNCHANGED tick /\ pc[w] \notin Early
        /\ UNCHANGED <<clock, case, asked, send, touched, stage, counted>>
    BY <1>2 DEF Abandon, Goto, TickFrame, rows, outside, Early
  <2>2. tick' = [tick EXCEPT ![w] = tick[w]]
    BY <2>1, <1>1 DEF Typed
  <2>3. PICK n : run' = run \/ run' = [run EXCEPT !.nextTick = n]
    BY <1>2 DEF Abandon, SetRun
  <2>4. /\ run'.lease = run.lease /\ run'.inFlight = run.inFlight
        /\ run'.lastSent = run.lastSent /\ run'.lastCounted = run.lastCounted
    BY <1>1, <2>3 DEF RunRec
  <2>5. Books(w, "release", tick[w])
    BY <1>1, <2>1, PlainBook DEF Marking
  <2>6. QED
    BY <2>1, <2>2, <2>4, <2>5, GoesBook
<1>3. CASE Enqueue(w)
  <2>1. PICK s, place : /\ tick' = [tick EXCEPT ![w].todo = @ \ {s}]
                        /\ pc' = [pc EXCEPT ![w] = place] /\ place \in {"enqueue", "release"}
    BY <1>3 DEF Enqueue, Goto
  <2>2. pc[w] \notin Early /\ UNCHANGED <<clock, case, asked, send, touched, stage, counted, run>>
    BY <1>3 DEF Enqueue, outside, Early
  <2> DEFINE left == tick[w].todo \ {s}
             u == [tick[w] EXCEPT !.todo = left]
  <2>3. tick' = [tick EXCEPT ![w] = u]
    BY <1>1, <2>1 DEF Typed
  <2> HIDE DEF left
  <2>4. u.run = tick[w].run /\ u.sends = tick[w].sends /\ u.set = tick[w].set /\ u.next = tick[w].next
    BY <1>1 DEF TickRec
  <2> HIDE DEF u
  <2>5. Books(w, place, u)
    BY <1>1, <2>1, <2>2, <2>4, PlainBook DEF Marking
  <2>6. QED
    BY <2>1, <2>2, <2>3, <2>5, GoesBook
<1>4. QED
  BY <1>2, <1>3

\* Between the write of a decision and its rows.
LEMMA BookSettle ==
  ASSUME OwnProcesses, TypeInv, TypeInv', BookInv, NEW w \in Ticker,
         settleActionDates(w) \/ RenewForRows(w)
  PROVE  BookInv'
<1>1. Typed /\ run \in RunRec(Actions) /\ Books(w, pc[w], tick[w])
  BY DEF TypeInv, Typed, BookInv
<1>2. CASE LoseLease(w)
  BY <1>2, BookEnds
<1>3. CASE ~LoseLease(w)
  <2>1. /\ UNCHANGED <<clock, case, asked, send, touched, stage, counted, tick>>
        /\ pc[w] \in {"settle", "renew"}
    <3>1. CASE settleActionDates(w)
      BY <3>1 DEF settleActionDates, TickFrame, rows, outside
    <3>2. CASE RenewForRows(w)
      BY <1>3, <3>2 DEF RenewForRows, TickFrame, rows, outside
    <3>3. QED
      BY <3>1, <3>2
  <2>2. PICK place : /\ pc' = [pc EXCEPT ![w] = place] /\ place \in {"renew", "insert", "release"}
                     /\ place # "release" => Deciding(w)
    <3>1. CASE settleActionDates(w)
      BY <3>1 DEF settleActionDates, Goto, Deciding
    <3>2. CASE RenewForRows(w)
      BY <1>3, <3>2 DEF RenewForRows, Goto, Deciding
    <3>3. QED
      BY <3>1, <3>2
  <2>3. /\ run'.lastSent = run.lastSent /\ run'.lastCounted = run.lastCounted
        /\ run'.inFlight = run.inFlight /\ run'.lease.owner = run.lease.owner
    <3>1. CASE settleActionDates(w)
      <4>1. PICK acts : run' = [run EXCEPT !.acts = acts]
        BY <3>1 DEF settleActionDates, SetRun
      <4>2. QED
        BY <1>1, <4>1 DEF RunRec
    <3>2. CASE RenewForRows(w)
      BY <1>3, <3>2, RenewedBook DEF RenewForRows, SetRun
    <3>3. QED
      BY <3>1, <3>2
  <2>4. tick' = [tick EXCEPT ![w] = tick[w]]
    BY <1>1, <2>1 DEF Typed
  <2>5. Books(w, place, tick[w])
    BY <1>1, <2>1, <2>2 DEF Books, Deciding, Early, Marking
  <2>6. QED
    BY <2>1, <2>2, <2>3, <2>4, <2>5, GoesBook
<1>4. QED
  BY <1>2, <1>3

LEMMA BookSchedule ==
  ASSUME OwnProcesses, TypeInv, TypeInv', BookInv, NEW w \in Ticker, ReconcileSchedule(w)
  PROVE  BookInv'
<1>1. /\ Typed /\ Books(w, pc[w], tick[w])
      /\ tick[w].row \in Row /\ tick[w].row[1] <= Len(asked)
  BY DEF TypeInv, Named, BookInv, ReconcileSchedule, Marking
<1>2. /\ pc' = [pc EXCEPT ![w] = "reconcile"] /\ pc[w] = "schedule"
      /\ UNCHANGED <<clock, case, asked, send, touched, stage, counted, tick>>
      /\ run' = Scheduled(tick[w].row)
  BY DEF ReconcileSchedule, SetRun, Goto, TickFrame, rows, outside
<1>3. /\ run'.lastSent = run.lastSent /\ run'.lastCounted = run.lastCounted
      /\ run'.inFlight = run.inFlight /\ run'.lease = run.lease
  BY <1>1, <1>2, ScheduledTyped
<1>4. tick' = [tick EXCEPT ![w] = tick[w]]
  BY <1>1, <1>2 DEF Typed
<1>5. Books(w, "reconcile", tick[w])
  BY <1>1, <1>2 DEF Books, Early, Marking
<1>6. QED
  BY <1>2, <1>3, <1>4, <1>5, GoesBook

\* A run that exits cancels its rows.
LEMMA BookCancel ==
  ASSUME OwnProcesses, TypeInv, TypeInv', FlightInv, BookInv, NEW w \in Ticker, CancelSends(w)
  PROVE  BookInv'
<1>1. /\ pc[w] = "cancelSends" /\ CancelRows /\ pc' = [pc EXCEPT ![w] = "finish"]
      /\ UNCHANGED <<clock, case, asked, tick, run, counted, stage>>
  BY DEF CancelSends, Goto, outside
<1>2. \A s \in Row : InF(s)' => InF(s)
  BY <1>1, CancelledRows
<1>3. \A s \in Row : /\ send[s] = "sent" => send'[s] = "sent" /\ touched'[s] = touched[s]
                     /\ send'[s] = "sent" => send[s] = "sent"
                     /\ send'[s] # "none" => send[s] # "none" /\ touched'[s] \in {touched[s], clock}
  BY <1>1 DEF CancelRows, Cancelled
<1>4. RowBooks'
  <2>1. clock <= clock' /\ run.lastSent <= run'.lastSent
    BY <1>1, RunFields DEF TypeInv, Typed
  <2>2. QED
    BY <1>1, <1>2, <1>3, <2>1, RowsBook DEF BookInv
<1>5. ASSUME NEW v \in Ticker PROVE Books(v, pc[v], tick[v])'
  <2>1. CASE v # w
    <3>1. pc'[v] = pc[v] /\ tick'[v] = tick[v] /\ (Owns(v)' => Owns(v))
      BY <1>1, <2>1 DEF TypeInv, Typed, Owns
    <3>2. QED
      BY <1>1, <1>3, <3>1, WaitsBook
  <2>2. CASE v = w
    <3>1. pc'[w] = "finish" /\ tick'[w] = tick[w] /\ ~tick[w].sends
      BY <1>1, TickBooks DEF TypeInv, Typed, Later
    <3>2. Books(w, pc[w], tick[w])
      BY DEF BookInv
    <3>3. Abreast(w, tick[w]) => Abreast(w, tick[w])'
      BY <1>1 DEF Abreast, Owns
    <3>4. Books(w, pc[w], tick[w])'
      BY <1>1, <3>1, <3>2, <3>3 DEF Books, Early, Marking
    <3>5. QED
      BY <2>2, <3>4
  <2>3. QED
    BY <2>1, <2>2
<1>6. QED
  BY <1>4, <1>5 DEF BookInv

\* A count of mail of the newest decision: the books know it, and they move on
\* unless they have counted it before.
LEMMA CountBook ==
  ASSUME TypeInv, RowBooks, NEW s \in Row, send[s] = "sent", s[1] = Len(asked), run' = Counted(s),
         UNCHANGED <<send, touched>>
  PROVE  /\ OnBooks(s[1])' /\ run'.lastCounted = s[1] /\ OnBooks(run.lastCounted)'
         /\ run.lastSent <= run'.lastSent
         /\ run'.inFlight = run.inFlight /\ run'.lease = run.lease
         /\ \/ run'.lastSent = run.lastSent /\ run'.lastCounted = run.lastCounted
            \/ run.lastCounted < run'.lastCounted
<1>1. Typed /\ s[1] <= Len(asked) /\ s[1] \in Nat \ {0} /\ run.lastSent \in Nat /\ touched[s] \in Nat
      /\ run.lastCounted \in Decision \cup {NoDecision}
  BY RunFields, Numbers DEF TypeInv, Typed, Row, Decision
<1>2. /\ run'.inFlight = run.inFlight /\ run'.lease = run.lease /\ run'.lastCounted = s[1]
  BY <1>1, CountTyped
<1>3. Row' = Row
  BY DEF Row, Decision
<1>4. CASE run.lastCounted = s[1]
  <2>1. run' = run
    BY <1>1, <1>4, CountTyped
  <2>2. PICK u \in Row : u[1] = s[1] /\ send[u] = "sent" /\ touched[u] <= run.lastSent
    BY <1>1, <1>4 DEF RowBooks, Booked, OnBooks, NoDecision
  <2>3. OnBooks(s[1])' /\ OnBooks(run.lastCounted)'
    BY <1>2, <1>3, <2>1, <2>2 DEF OnBooks
  <2>4. QED
    BY <1>1, <1>2, <2>1, <2>3
<1>5. CASE run.lastCounted # s[1]
  <2>1. run'.lastSent = IF run.lastSent >= touched[s] THEN run.lastSent ELSE touched[s]
    BY <1>1, <1>5, CountTyped, LargerNat
  <2>2. run.lastSent <= run'.lastSent /\ touched[s] <= run'.lastSent
    BY <1>1, <2>1
  <2>3. OnBooks(s[1])' /\ OnBooks(run.lastCounted)'
    BY <1>2, <1>3, <2>2 DEF OnBooks
  <2>4. run.lastCounted < s[1]
    <3>1. CASE run.lastCounted = NoDecision
      BY <1>1, <3>1 DEF NoDecision
    <3>2. CASE run.lastCounted # NoDecision
      <4>1. PICK u \in Row : u[1] = run.lastCounted /\ send[u] = "sent"
        BY <3>2 DEF RowBooks, Booked, OnBooks
      <4>2. run.lastCounted <= Len(asked) /\ run.lastCounted \in Nat
        BY <1>1, <3>2, <4>1, Numbers DEF TypeInv, Named, Decision
      <4>3. QED
        BY <1>1, <1>5, <4>2
    <3>3. QED
      BY <3>1, <3>2
  <2>5. QED
    BY <1>2, <2>2, <2>3, <2>4
<1>6. QED
  BY <1>4, <1>5

LEMMA BookReconcile ==
  ASSUME OwnProcesses, TypeInv, TypeInv', FlightInv, BookInv, NEW w \in Ticker, Reconcile(w)
  PROVE  BookInv'
<1>1. /\ tick[w] \in TickRec(Actions) /\ tick[w].todo \subseteq Row /\ ~tick[w].sends
      /\ pc[w] = "reconcile" /\ Books(w, pc[w], tick[w])
  BY TickBooks DEF Reconcile, Later, BookInv
<1>2. PICK s \in tick[w].todo :
        /\ run' = Counted(s)
        /\ tick' = [tick EXCEPT ![w].todo = @ \ {s}, ![w].row = s]
        /\ pc' = [pc EXCEPT ![w] = IF run.lastCounted = s[1] THEN "markOnly" ELSE "mark"]
  BY DEF Reconcile, SetRun, Goto
<1>3. UNCHANGED <<clock, case, asked, send, touched, counted, stage>>
  BY DEF Reconcile, TickFrame, rows, outside
<1>4. s \in Row /\ send[s] = "sent" /\ s[1] = Len(asked)
  BY <1>1 DEF Books
<1>5. /\ OnBooks(s[1])' /\ OnBooks(run.lastCounted)' /\ run.lastSent <= run'.lastSent
      /\ run'.inFlight = run.inFlight /\ run'.lease = run.lease
      /\ \/ run'.lastSent = run.lastSent /\ run'.lastCounted = run.lastCounted
         \/ run.lastCounted < run'.lastCounted
  BY <1>2, <1>3, <1>4, CountBook DEF BookInv
<1>6. RowBooks'
  <2>1. \A u \in Row : InF(u)' => InF(u)
    BY <1>3 DEF InF, sendIsInFlight
  <2>2. clock <= clock'
    BY <1>3 DEF TypeInv, Typed
  <2>3. QED
    BY <1>3, <1>5, <2>1, <2>2, RowsBook DEF BookInv
<1> DEFINE left == tick[w].todo \ {s}
           u == [tick[w] EXCEPT !.todo = left, !.row = s]
<1> HIDE DEF left
<1>7. tick' = [tick EXCEPT ![w] = u]
  BY <1>1, <1>2 DEF left, TypeInv, Typed
<1>8. /\ u.run = tick[w].run /\ u.set = tick[w].set /\ u.sends = tick[w].sends
      /\ u.next = tick[w].next /\ u.todo = left /\ u.row = s
  BY <1>1 DEF TickRec
<1> HIDE DEF u
<1>9. PICK place \in {"mark", "markOnly"} : pc' = [pc EXCEPT ![w] = place]
  BY <1>2
<1>10. ASSUME NEW v \in Ticker, v # w PROVE Books(v, pc[v], tick[v])'
  <2>1. pc'[v] = pc[v] /\ tick'[v] = tick[v] /\ (Owns(v)' => Owns(v))
    BY <1>5, <1>7, <1>9, <1>10 DEF TypeInv, Typed, Owns
  <2>2. QED
    BY <1>3, <1>5, <2>1, WaitsBook
<1>11. Books(w, pc[w], tick[w])'
  <2>1. pc'[w] = place /\ tick'[w] = u
    BY <1>7, <1>9 DEF TypeInv, Typed
  <2>2. /\ run.lastCounted \in Nat /\ run'.lastCounted \in Nat /\ tick[w].run.lastCounted \in Nat
    <3>1. /\ run.lastCounted \in Decision \cup {NoDecision}
          /\ run'.lastCounted \in Decision \cup {NoDecision}
          /\ tick[w].run.lastCounted \in Decision \cup {NoDecision}
      BY RunFields, TickFields DEF TypeInv, Typed
    <3>2. QED
      BY <3>1, Numbers DEF Decision, NoDecision
  <2>3. Abreast(w, tick[w])
    BY <1>1 DEF Books, Early
  <2>4. PICK t : t = tick[w].run
    OBVIOUS
  <2>5. Owns(w)' => /\ t.lastCounted <= run'.lastCounted
                    /\ t.lastCounted = run'.lastCounted => t.lastSent = run'.lastSent
    BY <1>5, <2>2, <2>3, <2>4 DEF Abreast, Owns
  <2>6. PICK q : q = u
    OBVIOUS
  <2>7. Abreast(w, q)'
    BY <1>8, <2>4, <2>5, <2>6 DEF Abreast
  <2>8. OnBooks(q.row[1])'
    BY <1>5, <1>8, <2>6
  <2>9. \A r \in q.todo : send'[r] = "sent" /\ r[1] = Len(asked')
    BY <1>1, <1>3, <1>8, <2>6 DEF Books, left
  <2>10. Books(w, place, q)'
    BY <1>1, <1>8, <2>6, <2>7, <2>8, <2>9 DEF Books, Marking
  <2>11. QED
    BY <2>1, <2>6, <2>10
<1>12. QED
  BY <1>6, <1>10, <1>11 DEF BookInv

LEMMA BookMark ==
  ASSUME OwnProcesses, TypeInv, TypeInv', BookInv, NEW w \in Ticker, ReconcileMark(w)
  PROVE  BookInv'
<1>1. /\ pc[w] \in {"mark", "markOnly"} /\ counted' = counted \cup {tick[w].row}
      /\ UNCHANGED <<clock, case, asked, send, touched, stage, tick, run>>
  BY DEF ReconcileMark, outside
<1>2. PICK place \in {"schedule", "reconcile"} :
        pc' = [pc EXCEPT ![w] = place] /\ (place = "schedule" => pc[w] = "mark")
  BY DEF ReconcileMark, Goto
<1>3. Books(w, pc[w], tick[w]) /\ tick[w].row \in Row
  BY <1>1 DEF BookInv, TypeInv, Named, Marking
<1>4. OnBooks(tick[w].row[1])
  BY <1>1, <1>3 DEF Books, Marking
<1>5. \A d : OnBooks(d) => OnBooks(d)'
  BY <1>1 DEF OnBooks, Row, Decision
<1>6. RowBooks'
  <2>1. \A u \in Row : InF(u)' => InF(u)
    BY <1>1 DEF InF, sendIsInFlight
  <2>2. clock <= clock' /\ run.lastSent <= run'.lastSent
    BY <1>1, RunFields DEF TypeInv, Typed
  <2>3. PICK r \in Row : r = tick[w].row
    BY <1>3
  <2>4. OnBooks(r[1])'
    BY <1>4, <1>5, <2>3
  <2>5. \A s \in Row : s \in counted' \/ stage'[s] \in Marking
          => s \in counted \/ stage[s] \in Marking \/ OnBooks(s[1])'
    BY <1>1, <2>3, <2>4
  <2>6. \A s \in Row : send'[s] # "none" => send[s] # "none" /\ touched'[s] \in {touched[s], clock}
    BY <1>1
  <2>7. counted \subseteq counted'
    BY <1>1
  <2>8. QED
    BY <1>1, <2>1, <2>2, <2>5, <2>6, <2>7, RowsBook DEF BookInv
<1>7. ASSUME NEW v \in Ticker, v # w PROVE Books(v, pc[v], tick[v])'
  <2>1. pc'[v] = pc[v] /\ tick'[v] = tick[v] /\ (Owns(v)' => Owns(v))
    BY <1>1, <1>2, <1>7 DEF TypeInv, Typed, Owns
  <2>2. QED
    BY <1>1, <2>1, WaitsBook
<1>8. Books(w, pc[w], tick[w])'
  <2>1. pc'[w] = place /\ tick'[w] = tick[w]
    BY <1>1, <1>2 DEF TypeInv, Typed
  <2>2. PICK q : q = tick[w]
    OBVIOUS
  <2>3. Abreast(w, q)'
    BY <1>1, <1>3, <2>2 DEF Books, Abreast, Owns, Early
  <2>4. OnBooks(q.row[1])'
    BY <1>4, <1>5, <2>2
  <2>5. Books(w, place, q)'
    BY <1>1, <1>2, <1>3, <2>2, <2>3, <2>4 DEF Books, Early, Marking
  <2>6. QED
    BY <2>1, <2>2, <2>5
<1>9. QED
  BY <1>6, <1>7, <1>8 DEF BookInv

\* The decision that a tick writes: all that was accepted is counted, and the tick
\* waited for the gap from the last of it on.
LEMMA DecidedRows ==
  ASSUME TypeInv, TypeInv', RowBooks, UNCHANGED <<clock, case, send, touched, stage, counted>>,
         NEW now \in Nat, 0 < now, now <= clock,
         NEW a \in Actions \cup {Ask}, NEW i \in Nat \ {0},
         asked' = Append(asked, [action |-> a, attempt |-> i, at |-> now]),
         NoneGoing, ~revived, ToCount = {},
         run.lastSent = Never \/ run.lastSent + ShortestGap(a, i - 1) <= now,
         run'.lastSent = run.lastSent, run'.lastCounted = run.lastCounted,
         run'.inFlight = Len(asked) + 1
  PROVE  RowBooks'
<1> DEFINE n == Len(asked)
           q == [action |-> a, attempt |-> i, at |-> now]
           gap == ShortestGap(a, i - 1)
<1>1. /\ n \in Nat /\ asked \in Seq(Question(Actions)) /\ clock \in Nat /\ run.lastSent \in Nat
      /\ touched \in [Row -> Nat]
  BY RunFields DEF TypeInv, Typed
<1>2. q.at = now /\ ShortestGap(q.action, q.attempt - 1) = gap
  OBVIOUS
<1> HIDE DEF q, gap
<1>3. Len(asked') = n + 1 /\ asked'[n + 1] = q /\ \A d \in 1..n : asked'[d] = asked[d]
  BY <1>1 DEF q
<1>4. /\ Row' = Row
      /\ \A d \in 1..(n + 1) : GapBefore(d)' = IF d = n + 1 THEN gap ELSE GapBefore(d)
  <2>1. \A b, j : ShortestGap(b, j)' = ShortestGap(b, j)
    BY DEF ShortestGap, P
  <2>2. \A d : GapBefore(d)' = ShortestGap(asked'[d].action, asked'[d].attempt - 1)
    BY <2>1 DEF GapBefore
  <2>3. ASSUME NEW d \in 1..(n + 1)
        PROVE  GapBefore(d)' = IF d = n + 1 THEN gap ELSE GapBefore(d)
    <3>1. d # n + 1 => d \in 1..n
      BY <1>1
    <3>2. QED
      BY <1>2, <1>3, <2>2, <3>1 DEF GapBefore
  <2>4. QED
    BY <2>3 DEF Row, Decision
<1>5. \A s \in Row : s[1] \in Nat \ {0} /\ (send[s] # "none" => s[1] \in 1..n)
  BY AskedTyped, Numbers DEF TypeInv, Named, Row, Decision
<1>6. \A d \in 1..n : asked[d].at \in Nat /\ 0 < asked[d].at /\ asked[d].at <= clock
  <2>1. \A d \in 1..n : asked[d] \in Question(Actions)
    BY <1>1
  <2>2. QED
    BY <2>1 DEF RowBooks, Dates, Question
<1>7. \A s \in Row : ~InF(s)' /\ (s \notin ToCount)'
  BY DEF NoneGoing, InF, sendIsInFlight, ToCount, Row, Decision
<1>8. Newest'
  BY <1>1, <1>3, <1>4, <1>7 DEF Newest
<1>9. \A d : OnBooks(d) <=> OnBooks(d)'
  BY <1>4 DEF OnBooks
<1>10. Booked'
  <2>1. \A s \in Row : (s \in counted \/ stage[s] \in Marking => OnBooks(s[1]))'
    BY <1>9 DEF RowBooks, Booked
  <2>2. (run.lastCounted # NoDecision => OnBooks(run.lastCounted))'
    <3>1. PICK d : d = run.lastCounted
      OBVIOUS
    <3>2. d # NoDecision => OnBooks(d)'
      BY <1>9, <3>1 DEF RowBooks, Booked
    <3>3. QED
      BY <3>1, <3>2 DEF OnBooks
  <2>3. \A s \in Row : (stage[s] = "count" => send[s] = "sent")'
    BY DEF RowBooks, Booked
  <2>4. QED
    BY <1>4, <2>1, <2>2, <2>3 DEF Booked
<1>11. Dates'
  <2>1. \A d \in 1..(n + 1) : 0 < asked'[d].at /\ asked'[d].at <= clock
    <3>1. \A d \in 1..(n + 1) : d \in 1..n \/ d = n + 1
      BY <1>1
    <3>2. QED
      BY <1>2, <1>3, <1>6, <3>1
  <2>2. \A s \in Row : send[s] # "none" => asked'[s[1]].at <= touched[s]
    BY <1>3, <1>5 DEF RowBooks, Dates
  <2>3. QED
    BY <1>3, <1>4, <2>1, <2>2 DEF Dates
<1>12. Spaced'
  <2> SUFFICES ASSUME NEW d \in 1..(n + 1), NEW e \in 1..(n + 1), d < e,
                      NEW s \in Row, s[1] = d, send[s] = "sent",
                      NEW g, g = IF e = n + 1 THEN gap ELSE GapBefore(e)
               PROVE  \E u \in Row : u[1] = d /\ send[u] = "sent" /\ touched[u] + g <= asked'[e].at
    BY <1>3, <1>4 DEF Spaced
  <2>1. CASE e \in 1..n
    <3>1. d \in 1..n
      BY <1>5
    <3>2. \E u \in Row : u[1] = d /\ send[u] = "sent" /\ touched[u] + GapBefore(e) <= asked[e].at
      BY <2>1, <3>1 DEF RowBooks, Spaced
    <3>3. e # n + 1
      BY <1>1, <2>1
    <3>4. QED
      BY <1>3, <2>1, <3>2, <3>3
  <2>2. CASE e = n + 1
    <3>1. s \in counted
      BY DEF ToCount
    <3>2. PICK u \in Row : u[1] = d /\ send[u] = "sent" /\ touched[u] <= run.lastSent
      BY <3>1 DEF RowBooks, Booked, OnBooks
    <3>3. 0 < touched[u] /\ touched[u] \in Nat
      BY <1>1, <1>5, <1>6, <3>2 DEF RowBooks, Dates
    <3>4. run.lastSent + gap <= now
      BY <1>1, <3>2, <3>3 DEF Never, gap
    <3>5. gap \in Nat
      BY GapIsLeast DEF TypeInv, gap
    <3>6. touched[u] + gap <= now
      BY <1>1, <3>2, <3>3, <3>4, <3>5
    <3>7. QED
      BY <1>2, <1>3, <2>2, <3>2, <3>6
  <2>3. QED
    BY <1>1, <2>1, <2>2
<1>13. QED
  BY <1>8, <1>10, <1>11, <1>12 DEF RowBooks

LEMMA BookWrite ==
  ASSUME OwnProcesses, TypeInv, TypeInv', FlightInv, BookInv, Calm, Calm', NEW w \in Ticker, Write(w)
  PROVE  BookInv'
<1> DEFINE t == tick[w]
           todo == IF t.sends THEN {Len(asked) + 1} \X case.to ELSE {}
           u == [tick[w] EXCEPT !.todo = todo]
<1>1. /\ Typed /\ t \in TickRec(Actions) /\ t.now \in Nat /\ Len(asked) \in Nat
      /\ run \in RunRec(Actions) /\ run.inFlight \in Decision \cup {NoDecision}
      /\ asked \in Seq(Question(Actions))
      /\ "lastSent" \notin t.set /\ "lastCounted" \notin t.set
      /\ "inFlight" \in t.set /\ ~t.sends => t.next.inFlight = NoDecision
  BY TickFields, RunFields, TickBooks DEF TypeInv, Typed
<1>2. /\ t.sends => Len(asked) < MaxDecision
      /\ run' = WrittenRun(w) /\ SetRun(WrittenRun(w))
      /\ asked' = IF t.sends THEN Append(asked, [action |-> t.chosen, attempt |-> t.attempt, at |-> t.now]) ELSE asked
      /\ tick' = [tick EXCEPT ![w].todo = todo]
      /\ pc' = [pc EXCEPT ![w] = "settle"]
      /\ UNCHANGED <<clock, case, send, touched, stage, counted>>
  BY DEF Write, WrittenRun, SetRun, Goto, rows, outside
<1>3. pc[w] = "finish" /\ pc[w] \notin Early /\ Owns(w) /\ ~CountMoved(w)
  BY DEF Write, Matches, Early
<1>4. /\ run'.lastSent = run.lastSent
      /\ run'.inFlight = IF t.sends THEN Len(asked) + 1
                         ELSE IF "inFlight" \in t.set THEN t.next.inFlight ELSE run.inFlight
  BY <1>1, <1>2, WrittenTyped DEF Calm
<1>5. run'.lastCounted = run.lastCounted
  BY <1>1, <1>2, WrittenTyped DEF Calm
<1>6. run'.lease.owner \in {run.lease.owner, Nobody}
  <2>1. run'.lease = IF t.sends THEN run.lease ELSE NoLease
    BY <1>2, WrittenTyped
  <2>2. QED
    BY <2>1 DEF NoLease
<1> HIDE DEF todo
<1>7. tick' = [tick EXCEPT ![w] = u]
  BY <1>1, <1>2 DEF Typed
<1>8. /\ u.now = t.now /\ u.run = t.run /\ u.sends = t.sends /\ u.set = t.set /\ u.next = t.next
  BY <1>1 DEF TickRec
<1> HIDE DEF u
<1>9. CASE ~t.sends
  <2>1. asked' = asked /\ run'.inFlight \in {run.inFlight, NoDecision}
    BY <1>1, <1>2, <1>4, <1>9
  <2>2. Books(w, "settle", u)
    BY <1>1, <1>3, <1>8, <1>9, PlainBook DEF Marking
  <2>3. QED
    BY <1>2, <1>4, <1>5, <1>6, <1>7, <2>1, <2>2, GoesBook
<1>10. CASE t.sends
  <2>1. Books(w, "finish", t) /\ RowBooks /\ Settled(w) /\ Careful(w)
    BY <1>3 DEF BookInv, FlightInv, Ticking
  <2>2. 0 < t.now /\ t.now <= clock /\ NoneGoing
    BY <1>3, <1>10, <2>1 DEF Careful, Settled, Sure
  <2>3. t.run.lastSent = run.lastSent
    BY <1>3, <1>10, <2>1 DEF Books, Abreast, Early, CountMoved
  <2>4. run.lastSent = Never \/ run.lastSent + ShortestGap(t.chosen, t.attempt - 1) <= t.now
    BY <1>10, <2>1, <2>3 DEF Books, Rested
  <2>5. run'.inFlight = Len(asked) + 1
    BY <1>4, <1>10
  <2>6. ToCount = {}
    <3>1. run'.inFlight \notin {run.inFlight, NoDecision}
      <4>1. run.inFlight <= Len(asked) /\ run.inFlight \in Nat
        BY <1>1, <2>1, Numbers DEF RowBooks, Newest, Decision, NoDecision
      <4>2. QED
        BY <1>1, <2>5, <4>1 DEF NoDecision
    <3>2. ~overtaken'
      BY DEF Calm
    <3>3. QED
      BY <1>2, <3>1, <3>2 DEF SetRun
  <2>7. asked' = Append(asked, [action |-> t.chosen, attempt |-> t.attempt, at |-> t.now]) /\ ~revived
    BY <1>2, <1>10 DEF Calm
  <2>8. RowBooks'
    <3>1. t.chosen \in Actions \cup {Ask} /\ t.attempt \in Nat \ {0}
      BY <1>1, TickFields
    <3>2. QED
      BY <1>1, <1>2, <1>4, <1>5, <2>1, <2>2, <2>4, <2>5, <2>6, <2>7, <3>1, DecidedRows
  <2>9. ASSUME NEW v \in Ticker, v # w PROVE Books(v, pc[v], tick[v])'
    <3>1. pc'[v] = pc[v] /\ tick'[v] = tick[v] /\ (Owns(v)' => Owns(v))
      BY <1>2, <1>6, <1>7, <2>9, ProgramRunAssumption DEF TypeInv, Typed, Owns
    <3>2. ~AtWork(v)
      BY <1>3, <2>9, OthersRest
    <3>3. QED
      BY <1>2, <1>4, <1>5, <3>1, <3>2, WaitsBook
  <2>10. Books(w, pc[w], tick[w])'
    <3>1. pc'[w] = "settle" /\ tick'[w] = u
      BY <1>2, <1>7 DEF TypeInv, Typed
    <3>2. PICK q : q = u
      OBVIOUS
    <3>3. asked'[Len(asked')].at = q.now
      <4>1. PICK x : x = [action |-> t.chosen, attempt |-> t.attempt, at |-> t.now]
        OBVIOUS
      <4>2. x.at = t.now
        BY <4>1
      <4>3. Len(asked') = Len(asked) + 1 /\ asked'[Len(asked) + 1] = x
        BY <1>1, <2>7, <4>1
      <4>4. QED
        BY <1>8, <3>2, <4>2, <4>3
    <3>4. Abreast(w, q)'
      BY <1>3, <1>4, <1>5, <1>8, <2>1, <3>2 DEF Books, Abreast, Early
    <3>5. Books(w, "settle", q)'
      BY <1>1, <1>8, <1>10, <3>2, <3>3, <3>4 DEF Books, Marking
    <3>6. QED
      BY <3>1, <3>2, <3>5
  <2>11. QED
    BY <2>8, <2>9, <2>10 DEF BookInv
<1>11. QED
  BY <1>9, <1>10

\* The rows of the decision are as old as it is.
LEMMA BookInsert ==
  ASSUME OwnProcesses, TypeInv, TypeInv', FlightInv, BookInv, case.arm = "treatment",
         NEW w \in Ticker, InsertRows(w)
  PROVE  BookInv'
<1> DEFINE new == tick[w].todo
<1>1. /\ Typed /\ new \subseteq Row /\ pc[w] = "insert" /\ pc[w] \notin Early
      /\ "lastSent" \notin tick[w].set /\ "lastCounted" \notin tick[w].set
      /\ "inFlight" \in tick[w].set /\ ~tick[w].sends => tick[w].next.inFlight = NoDecision
      /\ Pending(w) /\ Deciding(w) /\ Books(w, pc[w], tick[w])
  BY TickBooks DEF TypeInv, InsertRows, Early, FlightInv, Ticking, Deciding, BookInv
<1>2. /\ send' = [s \in Row |-> IF s \notin new THEN send[s] ELSE "queued"]
      /\ touched' = [s \in Row |-> IF s \in new THEN tick[w].now ELSE touched[s]]
      /\ counted' = counted /\ pc' = [pc EXCEPT ![w] = "enqueue"]
      /\ UNCHANGED <<clock, case, run, revived, overtaken, asked, tick, stage>>
  BY DEF InsertRows, Goto, outside
<1>3. asked[Len(asked)].at = tick[w].now
  BY <1>1 DEF Books
<1>4. \A s \in new : s \in Row /\ s[1] = Len(asked) /\ send[s] = "none"
  BY <1>1 DEF Pending
<1>5. \A s \in Row : /\ send[s] = "sent" => send'[s] = "sent" /\ touched'[s] = touched[s]
                     /\ send'[s] = "sent" => send[s] = "sent"
  BY <1>2, <1>4
<1>6. RowBooks'
  <2>1. \A s \in Row : InF(s)' => InF(s) \/ s[1] = Len(asked)
    BY <1>2, <1>4 DEF InF, sendIsInFlight
  <2>2. \A s \in Row : send'[s] # "none" => \/ send[s] # "none" /\ touched'[s] \in {touched[s], clock}
                                            \/ asked[s[1]].at <= touched'[s]
    <3> SUFFICES ASSUME NEW s \in Row, s \in new PROVE asked[s[1]].at <= touched'[s]
      BY <1>2
    <3>1. asked[s[1]].at = tick[w].now /\ touched'[s] = tick[w].now
      BY <1>2, <1>3, <1>4
    <3>2. tick[w].now \in Nat
      BY <1>1, TickFields
    <3>3. QED
      BY <3>1, <3>2
  <2>3. clock <= clock' /\ run.lastSent <= run'.lastSent
    BY <1>2, RunFields DEF TypeInv, Typed
  <2>4. QED
    BY <1>2, <1>5, <2>1, <2>2, <2>3, RowsBook DEF BookInv
<1>7. ASSUME NEW v \in Ticker, v # w PROVE Books(v, pc[v], tick[v])'
  <2>1. pc'[v] = pc[v] /\ tick'[v] = tick[v] /\ (Owns(v)' => Owns(v))
    BY <1>2, <1>7 DEF TypeInv, Typed, Owns
  <2>2. QED
    BY <1>2, <1>5, <2>1, WaitsBook
<1>8. Books(w, pc[w], tick[w])'
  <2>1. pc'[w] = "enqueue" /\ tick'[w] = tick[w]
    BY <1>2 DEF TypeInv, Typed
  <2>2. PICK q : q = tick[w]
    OBVIOUS
  <2>3. Abreast(w, q)'
    BY <1>1, <1>2, <2>2 DEF Books, Abreast, Owns
  <2>4. Books(w, "enqueue", q)'
    BY <1>1, <2>2, <2>3 DEF Books, Early, Marking
  <2>5. QED
    BY <2>1, <2>2, <2>4
<1>9. QED
  BY <1>6, <1>7, <1>8 DEF BookInv

\* A step of the dispatch or of the world.
LEMMA HookBook ==
  ASSUME TypeInv, TypeInv', BookInv, UNCHANGED <<clock, case, asked, pc, tick>>,
         \A s \in Row : send[s] = "sent" => send'[s] = "sent" /\ touched'[s] = touched[s],
         \A s \in Row : send'[s] = "sent" => send[s] = "sent" \/ InF(s),
         \A s \in Row : InF(s)' => InF(s),
         \A s \in Row : stage'[s] = "count" => stage[s] = "count" \/ (InF(s) /\ send'[s] = "sent"),
         \A s \in Row : send'[s] # "none" => send[s] # "none" /\ touched'[s] \in {touched[s], clock},
         counted \subseteq counted',
         \A s \in Row : s \in counted' \/ stage'[s] \in Marking
                          => s \in counted \/ stage[s] \in Marking \/ OnBooks(s[1])',
         run'.lastCounted = run.lastCounted \/ OnBooks(run.lastCounted)',
         run'.inFlight \in {run.inFlight, NoDecision}, run'.lease = run.lease,
         \/ run'.lastSent = run.lastSent /\ run'.lastCounted = run.lastCounted
         \/ run.lastSent <= run'.lastSent /\ run.lastCounted < run'.lastCounted
  PROVE  BookInv'
<1>1. clock <= clock' /\ run.lastSent <= run'.lastSent
  BY RunFields DEF TypeInv, Typed
<1>2. RowBooks'
  BY <1>1, RowsBook DEF BookInv
<1>3. ASSUME NEW v \in Ticker PROVE Books(v, pc[v], tick[v])'
  BY WaitsBook DEF Owns
<1>4. QED
  BY <1>2, <1>3 DEF BookInv

\* A hook that leaves the rows' status alone.
LEMMA StageBook ==
  ASSUME TypeInv, TypeInv', BookInv, UNCHANGED <<clock, case, asked, pc, tick, send, touched>>,
         NEW s \in Row, NEW place, stage' = [stage EXCEPT ![s] = place], place # "count",
         counted' = counted \/ counted' = counted \cup {s},
         counted' # counted \/ place \in Marking => OnBooks(s[1])',
         run'.lastCounted = run.lastCounted \/ OnBooks(run.lastCounted)',
         run'.inFlight \in {run.inFlight, NoDecision}, run'.lease = run.lease,
         \/ run'.lastSent = run.lastSent /\ run'.lastCounted = run.lastCounted
         \/ run.lastSent <= run'.lastSent /\ run.lastCounted < run'.lastCounted
  PROVE  BookInv'
<1>1. stage \in [Row -> Stages]
  BY DEF TypeInv, Typed
<1>2. \A u \in Row : stage'[u] = IF u = s THEN place ELSE stage[u]
  BY <1>1
<1>3. \A u \in Row : InF(u)' => InF(u)
  BY DEF InF, sendIsInFlight
<1>4. \A u \in Row : stage'[u] = "count" => stage[u] = "count"
  BY <1>2
<1>5. counted \subseteq counted'
  OBVIOUS
<1>6. PICK d : d = s[1]
  OBVIOUS
<1>7. counted' # counted \/ place \in Marking => OnBooks(d)'
  BY <1>6
<1>8. \A u \in Row : u \in counted' \/ stage'[u] \in Marking
          => u \in counted \/ stage[u] \in Marking \/ OnBooks(u[1])'
  BY <1>2, <1>6, <1>7
<1>9. \A u \in Row : send'[u] # "none" => send[u] # "none" /\ touched'[u] \in {touched[u], clock}
  OBVIOUS
<1>10. \A u \in Row : /\ send[u] = "sent" => send'[u] = "sent" /\ touched'[u] = touched[u]
                      /\ send'[u] = "sent" => send[u] = "sent"
  OBVIOUS
<1>11. QED
  BY <1>3, <1>4, <1>5, <1>8, <1>9, <1>10, HookBook

\* A row in flight that changes its status.
LEMMA RowBook ==
  ASSUME TypeInv, TypeInv', BookInv, UNCHANGED <<clock, case, asked, pc, tick, run, counted>>,
         NEW s \in Row, InF(s), NEW st, SetSend(s, st), NEW place,
         UNCHANGED stage \/ stage' = [stage EXCEPT ![s] = place],
         place = "count" => st = "sent", place \notin Marking
  PROVE  BookInv'
<1>1. stage \in [Row -> Stages] /\ send \in [Row -> RowStatus] /\ touched \in [Row -> Nat]
  BY DEF TypeInv, Typed
<1>2. \A u \in Row : /\ send'[u] = IF u = s THEN st ELSE send[u]
                     /\ touched'[u] = IF u = s THEN clock ELSE touched[u]
                     /\ stage'[u] = stage[u] \/ (u = s /\ stage'[u] = place)
  BY <1>1 DEF SetSend
<1>3. send[s] \notin {"none", "sent"}
  BY DEF InF, sendIsInFlight, InFlight
<1>4. \A u \in Row : InF(u)' => InF(u)
  BY <1>2 DEF InF, sendIsInFlight
<1>5. \A u \in Row : stage'[u] = "count" => stage[u] = "count" \/ (InF(u) /\ send'[u] = "sent")
  BY <1>2
<1>6. \A u \in Row : u \in counted' \/ stage'[u] \in Marking => u \in counted \/ stage[u] \in Marking
  BY <1>2
<1>7. \A u \in Row : /\ send[u] = "sent" => send'[u] = "sent" /\ touched'[u] = touched[u]
                     /\ send'[u] = "sent" => send[u] = "sent" \/ InF(u)
                     /\ send'[u] # "none" => send[u] # "none" /\ touched'[u] \in {touched[u], clock}
  BY <1>2, <1>3
<1>8. counted \subseteq counted'
  OBVIOUS
<1>9. QED
  BY <1>4, <1>5, <1>6, <1>7, <1>8, HookBook

LEMMA BookRow ==
  ASSUME TypeInv, TypeInv', BookInv, Working, NEW s \in Row,
         CancelRow(s) \/ Accepted(s) \/ Refused(s) \/ Sweep(s)
  PROVE  BookInv'
<1>1. send[s] = "sending"
  BY DEF Working, CancelRow, Accepted, Refused, Sweep
<1>2. UNCHANGED <<clock, case, asked, pc, tick, run, counted>>
  BY DEF CancelRow, Accepted, Refused, Sweep, DispatchFrame, outside
<1>3. InF(s)
  BY <1>1 DEF InF, sendIsInFlight, InFlight
<1>4. PICK st, place :
        /\ SetSend(s, st) /\ (UNCHANGED stage \/ stage' = [stage EXCEPT ![s] = place])
        /\ place = "count" => st = "sent"
        /\ place \notin Marking
  <2>1. CASE CancelRow(s) \/ Accepted(s)
    BY <2>1 DEF CancelRow, Accepted, Step, Marking
  <2>2. CASE Refused(s)
    BY <2>2 DEF Refused, Step, Marking
  <2>3. CASE Sweep(s)
    <3>1. SetSend(s, "queued") /\ UNCHANGED stage
      BY <2>3 DEF Sweep
    <3>2. "none" \notin Marking
      BY DEF Marking
    <3>3. QED
      BY <3>1, <3>2
  <2>4. QED
    BY <2>1, <2>2, <2>3
<1>5. QED
  BY <1>2, <1>3, <1>4, RowBook

LEMMA BookClaim ==
  ASSUME TypeInv, TypeInv', BookInv, Calm', NEW s \in Row, Claim(s) PROVE BookInv'
<1>1. /\ UNCHANGED <<clock, case, asked, pc, tick, run, counted>>
      /\ ~(send[s] = "failed" /\ clock - touched[s] >= Recheck)
  BY DEF Claim, outside, Calm
<1>2. CASE send[s] \in {"queued", "failed", "deferred"}
  <2>1. clock - touched[s] \in Int /\ Recheck \in Nat
    BY Numbers DEF TypeInv, Typed
  <2>2. InF(s)
    BY <1>1, <1>2, <2>1 DEF InF, sendIsInFlight, InFlight
  <2>3. SetSend(s, "sending") /\ stage' = [stage EXCEPT ![s] = "guard"]
    BY <1>2 DEF Claim, Step
  <2>4. "guard" \notin Marking
    BY DEF Marking
  <2>5. QED
    BY <1>1, <2>2, <2>3, <2>4, RowBook
<1>3. CASE send[s] \notin {"queued", "failed", "deferred"}
  <2>1. UNCHANGED <<send, touched, stage>>
    BY <1>3 DEF Claim
  <2>2. \A u \in Row : InF(u)' => InF(u)
    BY <1>1, <2>1 DEF InF, sendIsInFlight
  <2>3. QED
    BY <1>1, <2>1, <2>2, HookBook
<1>4. QED
  BY <1>2, <1>3

\* The hooks of the dispatch and its reads of the run.
LEMMA BookHooks ==
  ASSUME TypeInv, TypeInv', BookInv, NEW s \in Row,
         \/ Guard(s) \/ GuardFacts(s) \/ GuardDone(s) \/ DeferHook(s) \/ ScheduleHook(s)
         \/ clearInFlightIfSettled(s) \/ DispatchDies(s)
  PROVE  BookInv'
<1>1. Typed /\ run \in RunRec(Actions)
  BY DEF TypeInv, Typed
<1>2. /\ UNCHANGED <<clock, case, asked, pc, tick, send, touched, counted>>
      /\ \/ Step(s, "none") \/ Step(s, "cancel") \/ Step(s, "accept") \/ Step(s, "done")
         \/ Step(s, "facts") \/ Step(s, "settle")
  <2>1. CASE Guard(s)
    BY <2>1 DEF Guard, Verdict, HookFrame, outside
  <2>2. CASE GuardFacts(s)
    BY <2>2 DEF GuardFacts, Verdict, HookFrame, outside
  <2>3. CASE GuardDone(s)
    BY <2>3 DEF GuardDone, HookFrame, outside
  <2>4. CASE DeferHook(s) \/ ScheduleHook(s)
    BY <2>4 DEF DeferHook, ScheduleHook, HookFrame, outside
  <2>5. CASE clearInFlightIfSettled(s)
    BY <2>5 DEF clearInFlightIfSettled, HookFrame, outside
  <2>6. CASE DispatchDies(s)
    BY <2>6 DEF DispatchDies, DispatchFrame, outside
  <2>7. QED
    BY <2>1, <2>2, <2>3, <2>4, <2>5, <2>6
<1>3. /\ run'.lastSent = run.lastSent /\ run'.lastCounted = run.lastCounted
      /\ run'.lease = run.lease /\ run'.inFlight \in {run.inFlight, NoDecision}
  <2>1. CASE Guard(s) \/ GuardFacts(s) \/ DispatchDies(s)
    BY <2>1 DEF Guard, GuardFacts, DispatchDies, Verdict, DispatchFrame
  <2>2. CASE GuardDone(s)
    <3>1. PICK acts : run' = run \/ run' = [run EXCEPT !.acts = acts]
      BY <2>2 DEF GuardDone, SetRun
    <3>2. QED
      BY <1>1, <3>1 DEF RunRec
  <2>3. CASE DeferHook(s)
    <3>1. PICK n : run' = run \/ run' = [run EXCEPT !.nextTick = n]
      BY <2>3 DEF DeferHook, SetRun
    <3>2. QED
      BY <1>1, <3>1 DEF RunRec
  <2>4. CASE ScheduleHook(s)
    <3>1. run' = Scheduled(s) /\ s[1] <= Len(asked)
      BY <2>4, StageRow DEF ScheduleHook, SetRun
    <3>2. QED
      BY <1>1, <3>1, ScheduledTyped
  <2>5. CASE clearInFlightIfSettled(s)
    <3>1. run' = run \/ run' = [run EXCEPT !.inFlight = NoDecision]
      BY <2>5 DEF clearInFlightIfSettled, SetRun
    <3>2. QED
      BY <1>1, <3>1 DEF RunRec
  <2>6. QED
    BY <2>1, <2>2, <2>3, <2>4, <2>5
<1>4. PICK place \in {"none", "cancel", "accept", "done", "facts", "settle"} :
        stage' = [stage EXCEPT ![s] = place]
  BY <1>2 DEF Step
<1>5. place \notin {"count"} \cup Marking
  BY DEF Marking
<1>6. QED
  BY <1>2, <1>3, <1>4, <1>5, StageBook

\* What the hook counts is of the newest decision.
LEMMA BookCount ==
  ASSUME TypeInv, TypeInv', BookInv, NEW s \in Row, CountHook(s) PROVE BookInv'
<1>1. /\ UNCHANGED <<clock, case, asked, pc, tick, send, touched, counted>> /\ run' = Counted(s)
      /\ stage[s] = "count"
  BY DEF CountHook, SetRun, HookFrame, outside
<1>2. PICK place \in {"mark", "markOnly"} : stage' = [stage EXCEPT ![s] = place]
  BY DEF CountHook, Step
<1>3. send[s] = "sent" /\ s[1] = Len(asked)
  BY <1>1 DEF BookInv, RowBooks, Booked, Newest, ToCount
<1>4. /\ OnBooks(s[1])' /\ OnBooks(run.lastCounted)' /\ run.lastSent <= run'.lastSent
      /\ run'.inFlight = run.inFlight /\ run'.lease = run.lease
      /\ \/ run'.lastSent = run.lastSent /\ run'.lastCounted = run.lastCounted
         \/ run.lastCounted < run'.lastCounted
  BY <1>1, <1>3, CountBook DEF BookInv
<1>5. QED
  BY <1>1, <1>2, <1>4, StageBook

LEMMA BookFlag ==
  ASSUME TypeInv, TypeInv', BookInv, NEW s \in Row, MarkHook(s) PROVE BookInv'
<1>1. /\ UNCHANGED <<clock, case, asked, pc, tick, send, touched, run>> /\ stage[s] \in Marking
      /\ counted' = counted \cup {s}
  BY DEF MarkHook, HookFrame, outside, Marking
<1>2. PICK place \in {"schedule", "settle"} : stage' = [stage EXCEPT ![s] = place]
  BY DEF MarkHook, Step
<1>3. PICK d : d = s[1]
  OBVIOUS
<1>4. OnBooks(d)
  BY <1>1, <1>3 DEF BookInv, RowBooks, Booked
<1>5. OnBooks(d)'
  BY <1>1, <1>4 DEF OnBooks, Row, Decision
<1>6. OnBooks(s[1])'
  BY <1>3, <1>5
<1>7. QED
  BY <1>1, <1>2, <1>6, StageBook

LEMMA BookWorld ==
  ASSUME TypeInv, TypeInv', BookInv, Operators PROVE BookInv'
<1>1. run \in RunRec(Actions)
  BY DEF TypeInv, Typed
<1>2. CASE ~CancelForOperator
  <2>1. UNCHANGED <<clock, case, asked, pc, tick, send, touched, stage, counted>>
    BY <1>2 DEF Operators, Abort, SetEnabled, FireExit, FactsChange, Click, Wake, World, rows
  <2>2. /\ run'.lastSent = run.lastSent /\ run'.lastCounted = run.lastCounted
        /\ run'.lease = run.lease /\ run'.inFlight \in {run.inFlight, NoDecision}
    <3>1. CASE Abort
      <4>1. run' = [run EXCEPT !.status = "exited", !.inFlight = NoDecision]
        BY <3>1 DEF Abort, SetRun
      <4>2. QED
        BY <1>1, <4>1 DEF RunRec
    <3>2. CASE Wake
      <4>1. PICK n, k : run' = run \/ run' = [run EXCEPT !.nextTick = n, !.wake = k]
        BY <3>2 DEF Wake, SetRun
      <4>2. QED
        BY <1>1, <4>1 DEF RunRec
    <3>3. CASE SetEnabled \/ FireExit \/ FactsChange \/ Click
      BY <3>3 DEF SetEnabled, FireExit, FactsChange, Click
    <3>4. QED
      BY <1>2, <3>1, <3>2, <3>3 DEF Operators
  <2>3. \A u \in Row : InF(u)' => InF(u)
    BY <2>1 DEF InF, sendIsInFlight
  <2>4. \A u \in Row : send'[u] # "none" => send[u] # "none" /\ touched'[u] \in {touched[u], clock}
    BY <2>1
  <2>5. QED
    BY <2>1, <2>2, <2>3, <2>4, HookBook
<1>3. CASE CancelForOperator
  <2>1. CancelRows /\ UNCHANGED <<clock, case, run, asked, pc, tick, stage, counted>>
    BY <1>3 DEF CancelForOperator
  <2>2. \A s \in Row : /\ send[s] = "sent" => send'[s] = "sent" /\ touched'[s] = touched[s]
                       /\ send'[s] = "sent" => send[s] = "sent"
                       /\ send'[s] # "none" => send[s] # "none" /\ touched'[s] \in {touched[s], clock}
    BY <2>1 DEF CancelRows, Cancelled
  <2>3. \A u \in Row : InF(u)' => InF(u)
    BY <2>1, CancelledRows
  <2>4. QED
    BY <2>1, <2>2, <2>3, HookBook
<1>4. QED
  BY <1>2, <1>3

LEMMA BookClock ==
  ASSUME TypeInv, TypeInv', BookInv, Pass \/ Slow PROVE BookInv'
<1>1. /\ UNCHANGED <<case, run, asked, pc, tick, send, touched, stage, counted>>
      /\ clock' = clock + 1 /\ clock \in Nat
  BY DEF Pass, Slow, rows, outside, TypeInv, Typed
<1>2. \A s \in Row : InF(s)' => InF(s)
  BY <1>1, Numbers DEF InF, sendIsInFlight, TypeInv, Typed
<1>3. RowBooks'
  <2>1. clock <= clock' /\ run.lastSent <= run'.lastSent
    BY <1>1, RunFields DEF TypeInv, Typed
  <2>2. \A u \in Row : send'[u] # "none" => send[u] # "none" /\ touched'[u] \in {touched[u], clock}
    BY <1>1
  <2>3. QED
    BY <1>1, <1>2, <2>1, <2>2, RowsBook DEF BookInv
<1>4. ASSUME NEW v \in Ticker PROVE Books(v, pc[v], tick[v])'
  BY <1>1, WaitsBook DEF Owns
<1>5. QED
  BY <1>3, <1>4 DEF BookInv

\* The excuses of a run, and its case, stay.
LEMMA ExcusesStay ==
  ASSUME [Next]_vars
  PROVE  UNCHANGED case /\ (revived => revived') /\ (overtaken => overtaken')
<1> DEFINE Same == UNCHANGED <<revived, overtaken>> \/ \E r : SetRun(r)
<1>1. ASSUME NEW w \in Ticker, TickStep(w) \/ HostFails(w) \/ Crash(w)
      PROVE  UNCHANGED case /\ Same
  <2>1. CASE Due(w) \/ acquireLease(w) \/ Resolve(w) \/ HostFails(w) \/ Crash(w)
    BY <2>1 DEF Due, acquireLease, Resolve, LoseLease, HostFails, Crash, TickFrame, outside
  <2>2. CASE Decide(w)
    BY <2>2 DEF Decide, Finishing, Silent, TickFrame, outside
  <2>3. CASE ReadInFlight(w) \/ Reconcile(w) \/ ReconcileMark(w) \/ ReconcileSchedule(w)
    BY <2>3 DEF ReadInFlight, Reconcile, ReconcileMark, ReconcileSchedule, TickFrame, outside
  <2>4. CASE Reconciled(w) \/ Fresh(w) \/ Timing(w)
    BY <2>4 DEF Reconciled, Fresh, Timing, Finishing, Silent, LoseLease, TickFrame, outside
  <2>5. CASE Recipients(w) \/ Reread(w)
    BY <2>5 DEF Recipients, Reread, LoseLease, TickFrame, outside
  <2>6. CASE Abandon(w) \/ settleActionDates(w) \/ RenewForRows(w)
    BY <2>6 DEF Abandon, settleActionDates, RenewForRows, LoseLease, TickFrame, outside
  <2>7. CASE Write(w) \/ Enqueue(w) \/ releaseLease(w) \/ InsertRows(w) \/ CancelSends(w)
    BY <2>7 DEF Write, Enqueue, releaseLease, InsertRows, CancelSends, TickFrame, outside
  <2>8. QED
    BY <1>1, <2>1, <2>2, <2>3, <2>4, <2>5, <2>6, <2>7 DEF TickStep
<1>2. ASSUME NEW s \in Row, Dispatch(s) \/ DispatchDies(s), ~Claim(s)
      PROVE  UNCHANGED case /\ Same
  <2>1. CASE CancelRow(s) \/ Accepted(s) \/ Refused(s) \/ Sweep(s) \/ DispatchDies(s)
    BY <2>1 DEF CancelRow, Accepted, Refused, Sweep, DispatchDies, DispatchFrame, outside
  <2>2. CASE Guard(s) \/ GuardFacts(s) \/ MarkHook(s)
    BY <2>2 DEF Guard, GuardFacts, MarkHook, Verdict, HookFrame, outside
  <2>3. CASE GuardDone(s) \/ DeferHook(s) \/ CountHook(s) \/ ScheduleHook(s)
             \/ clearInFlightIfSettled(s)
    BY <2>3 DEF GuardDone, DeferHook, CountHook, ScheduleHook, clearInFlightIfSettled, HookFrame, outside
  <2>4. QED
    BY <1>2, <2>1, <2>2, <2>3 DEF Dispatch
<1>3. ASSUME Operators \/ Pass \/ Slow \/ UNCHANGED vars
      PROVE  UNCHANGED case /\ Same
  <2>1. CASE Abort \/ Wake \/ SetEnabled \/ CancelForOperator
    BY <2>1 DEF Abort, Wake, SetEnabled, CancelForOperator, World
  <2>2. CASE FireExit \/ FactsChange \/ Click
    BY <2>2 DEF FireExit, FactsChange, Click, World
  <2>3. CASE Pass \/ Slow \/ UNCHANGED vars
    BY <2>3 DEF Pass, Slow, vars, outside
  <2>4. QED
    BY <1>3, <2>1, <2>2, <2>3 DEF Operators
<1>4. ASSUME NEW s \in Row, Claim(s)
      PROVE  UNCHANGED case /\ (revived => revived') /\ UNCHANGED overtaken
  BY <1>4 DEF Claim, outside
<1>5. ASSUME NEW r, SetRun(r) PROVE (revived => revived') /\ (overtaken => overtaken')
  <2>1. revived => revived'
    BY <1>5, Zenon DEF SetRun
  <2>2. overtaken => overtaken'
    BY <1>5, Zenon DEF SetRun
  <2>3. QED
    BY <2>1, <2>2
<1>6. QED
  BY <1>1, <1>2, <1>3, <1>4, <1>5 DEF Next

LEMMA BookInit == Init => BookInv /\ Unsent
<1> SUFFICES ASSUME Init PROVE BookInv /\ Unsent
  OBVIOUS
<1>1. /\ \A s \in Row : send[s] = "none" /\ stage[s] = "none" /\ ~InF(s)
      /\ counted = {} /\ asked = <<>> /\ Len(asked) = 0
  BY DEF Init, InF, sendIsInFlight, InFlight
<1>2. run.inFlight = 0 /\ run.lastCounted = 0 /\ NoDecision = 0
  BY DEF Init, NewRun, NoDecision
<1>3. \A s \in Row : s \notin ToCount
  BY <1>1 DEF ToCount
<1>4. Newest
  BY <1>1, <1>2, <1>3 DEF Newest
<1>5. Booked
  BY <1>1, <1>2 DEF Booked, Marking
<1>6. Dates /\ Spaced
  BY <1>1 DEF Dates, Spaced
<1>7. ASSUME NEW w \in Ticker PROVE Books(w, pc[w], tick[w])
  <2>1. pc[w] = "idle" /\ tick[w] = NoTick
    BY DEF Init
  <2>2. NoTick.set = {} /\ NoTick.sends = FALSE
    BY DEF NoTick
  <2>3. QED
    BY <2>1, <2>2 DEF Books, Early, Marking
<1>8. QED
  BY <1>1, <1>4, <1>5, <1>6, <1>7 DEF BookInv, RowBooks, Unsent

LEMMA BookStep ==
  ASSUME OwnProcesses, TypeInv, TypeInv', FlightInv, Working, Calm => BookInv, [Next]_vars
  PROVE  (Calm => BookInv)'
<1> SUFFICES ASSUME Calm' PROVE BookInv'
  OBVIOUS
<1>1. Calm /\ BookInv /\ case.arm = "treatment"
  BY ExcusesStay DEF Calm
<1>2. ASSUME NEW w \in Ticker, TickStep(w) PROVE BookInv'
  <2>1. CASE Due(w) \/ acquireLease(w) \/ Resolve(w) \/ Decide(w) \/ CancelSends(w) \/ ReadInFlight(w)
    BY <1>1, <2>1, BookDue, BookAcquire, BookResolve, BookDecide, BookCancel, BookRead
  <2>2. CASE Reconcile(w) \/ ReconcileMark(w) \/ ReconcileSchedule(w) \/ Reconciled(w) \/ Fresh(w)
             \/ Timing(w) \/ Recipients(w)
    BY <1>1, <2>2, BookReconcile, BookMark, BookSchedule, BookReconciled, BookFresh, BookRecipients
  <2>3. CASE Write(w) \/ Reread(w) \/ Abandon(w) \/ settleActionDates(w) \/ RenewForRows(w)
             \/ InsertRows(w) \/ Enqueue(w) \/ releaseLease(w)
    BY <1>1, <2>3, BookWrite, BookReread, BookAbandon, BookSettle, BookInsert, BookEnds
  <2>4. QED
    BY <1>2, <2>1, <2>2, <2>3 DEF TickStep
<1>3. ASSUME NEW w \in Ticker, HostFails(w) \/ Crash(w) PROVE BookInv'
  BY <1>1, <1>3, BookEnds
<1>4. ASSUME NEW s \in Row, Dispatch(s) \/ DispatchDies(s) PROVE BookInv'
  BY <1>1, <1>4, BookClaim, BookRow, BookHooks, BookCount, BookFlag DEF Dispatch
<1>5. CASE Operators \/ Pass \/ Slow
  BY <1>1, <1>5, BookWorld, BookClock
<1>6. CASE UNCHANGED vars
  <2>1. UNCHANGED <<clock, case, asked, pc, tick, run, send, touched, stage, counted>>
    BY <1>6 DEF vars, outside, rows
  <2>2. \A s \in Row : InF(s)' => InF(s)
    BY <2>1 DEF InF, sendIsInFlight
  <2>3. \A s \in Row : send'[s] # "none" => send[s] # "none" /\ touched'[s] \in {touched[s], clock}
    BY <2>1
  <2>4. QED
    BY <1>1, <2>1, <2>2, <2>3, HookBook
<1>7. QED
  BY <1>2, <1>3, <1>4, <1>5, <1>6 DEF Next

\* The rows of the control arm are made held out, and nothing touches them.
LEMMA UnsentStep ==
  ASSUME TypeInv, FlightInv, Working, Unsent, [Next]_vars PROVE Unsent'
<1> DEFINE Untouched(st) == st \in {"none", "holdout"}
<1>1. UNCHANGED case
  BY ExcusesStay
<1> SUFFICES ASSUME case.arm = "holdout", NEW s \in Row PROVE Untouched(send'[s])
  BY <1>1 DEF Unsent, Row, Decision
<1>2. Untouched(send[s]) /\ send[s] \notin {"sending", "queued", "failed", "deferred"}
  BY DEF Unsent
<1>3. send \in [Row -> RowStatus]
  BY DEF TypeInv, Typed
<1>4. ASSUME CancelRows PROVE Untouched(send'[s])
  BY <1>2, <1>4 DEF CancelRows, Cancelled
<1>5. ASSUME NEW w \in Ticker, TickStep(w) \/ HostFails(w) \/ Crash(w)
      PROVE  (UNCHANGED send) \/ CancelSends(w) \/ InsertRows(w)
  <2>1. CASE Due(w) \/ acquireLease(w) \/ Resolve(w) \/ HostFails(w) \/ Crash(w)
    BY <2>1 DEF Due, acquireLease, Resolve, LoseLease, HostFails, Crash, TickFrame, rows
  <2>2. CASE Decide(w)
    BY <2>2 DEF Decide, Finishing, Silent, TickFrame, rows
  <2>3. CASE ReadInFlight(w) \/ Reconcile(w) \/ ReconcileMark(w) \/ ReconcileSchedule(w)
    BY <2>3 DEF ReadInFlight, Reconcile, ReconcileMark, ReconcileSchedule, TickFrame, rows
  <2>4. CASE Reconciled(w) \/ Fresh(w) \/ Timing(w)
    BY <2>4 DEF Reconciled, Fresh, Timing, Finishing, Silent, LoseLease, TickFrame, rows
  <2>5. CASE Recipients(w) \/ Reread(w) \/ Abandon(w) \/ settleActionDates(w) \/ RenewForRows(w)
    BY <2>5 DEF Recipients, Reread, Abandon, settleActionDates, RenewForRows, LoseLease, TickFrame, rows
  <2>6. CASE Write(w) \/ Enqueue(w) \/ releaseLease(w)
    BY <2>6 DEF Write, Enqueue, releaseLease, TickFrame, rows
  <2>7. QED
    BY <1>5, <2>1, <2>2, <2>3, <2>4, <2>5, <2>6 DEF TickStep
<1>6. ASSUME NEW w \in Ticker, CancelSends(w) \/ InsertRows(w) PROVE Untouched(send'[s])
  BY <1>2, <1>4, <1>6 DEF CancelSends, InsertRows
<1>7. ASSUME NEW u \in Row, Dispatch(u) \/ DispatchDies(u) PROVE Untouched(send'[s])
  <2>1. send[u] \notin {"sending", "queued", "failed", "deferred"}
    BY DEF Unsent
  <2>2. UNCHANGED send
    <3>1. ~(CancelRow(u) \/ Accepted(u) \/ Refused(u) \/ Sweep(u))
      BY <2>1 DEF Working, CancelRow, Accepted, Refused, Sweep
    <3>2. CASE Claim(u)
      BY <2>1, <3>2 DEF Claim
    <3>3. CASE Guard(u) \/ GuardFacts(u) \/ MarkHook(u) \/ DispatchDies(u)
      BY <3>3 DEF Guard, GuardFacts, MarkHook, DispatchDies, Verdict, HookFrame
    <3>4. CASE GuardDone(u) \/ DeferHook(u) \/ CountHook(u) \/ ScheduleHook(u)
               \/ clearInFlightIfSettled(u)
      BY <3>4 DEF GuardDone, DeferHook, CountHook, ScheduleHook, clearInFlightIfSettled, HookFrame
    <3>5. QED
      BY <1>7, <3>1, <3>2, <3>3, <3>4 DEF Dispatch
  <2>3. QED
    BY <1>2, <2>2
<1>8. CASE Operators \/ Pass \/ Slow \/ UNCHANGED vars
  <2>1. (UNCHANGED send) \/ CancelForOperator
    BY <1>8 DEF Operators, Abort, SetEnabled, FireExit, FactsChange, Click, Wake, World, Pass, Slow,
                vars, rows
  <2>2. QED
    BY <1>2, <1>4, <2>1 DEF CancelForOperator
<1>9. QED
  BY <1>2, <1>5, <1>6, <1>7, <1>8 DEF Next

\* Each decision was made a gap after mail of every earlier one, and its rows
\* are no older than itself.
LEMMA SpacedOut ==
  ASSUME TypeInv, Calm => BookInv, Unsent PROVE SpacedByGap
<1> DEFINE accepted == {d \in 1..Len(asked) : \E s \in Row : s[1] = d /\ send[s] = "sent"}
<1> SUFFICES ASSUME NEW d \in accepted, NEW e \in accepted, d < e, ~revived, ~overtaken
             PROVE  FirstSent(d) + GapBefore(e) <= FirstSent(e)
  BY DEF SpacedByGap
<1>1. Typed /\ touched \in [Row -> Nat] /\ case.arm \in {"treatment", "holdout"}
  BY ProgramRunAssumption DEF TypeInv, Typed
<1> DEFINE gap == GapBefore(e)
<1>0. gap \in Nat
  <2>1. asked[e] \in Question(Actions)
    BY <1>1 DEF Typed
  <2>2. QED
    BY <1>1, <2>1, GapIsLeast DEF GapBefore, Question
<1> HIDE DEF gap
<1>2. case.arm = "treatment"
  BY <1>1 DEF Unsent
<1>3. Dates /\ Spaced
  BY <1>2 DEF Calm, BookInv, RowBooks
<1>4. ASSUME NEW c \in accepted
      PROVE  /\ \E s \in Row : s[1] = c /\ send[s] = "sent" /\ FirstSent(c) = touched[s]
             /\ \A s \in Row : s[1] = c /\ send[s] = "sent" => FirstSent(c) <= touched[s]
  <2> DEFINE mail == {r \in Row : r[1] = c /\ send[r] = "sent"}
             dates == {touched[s] : s \in mail}
  <2>1. dates \in SUBSET Nat /\ dates # {}
    BY <1>1
  <2>2. \E x \in dates : \A y \in dates : x <= y
    BY <2>1, LeastNat
  <2>3. FirstSent(c) = SmallerOf(dates)
    BY DEF FirstSent
  <2> HIDE DEF dates
  <2>4. SmallerOf(dates) \in dates /\ \A y \in dates : SmallerOf(dates) <= y
    BY <2>2 DEF SmallerOf
  <2>5. QED
    BY <2>3, <2>4 DEF dates
<1>5. PICK u \in Row : u[1] = d /\ send[u] = "sent" /\ touched[u] + gap <= asked[e].at
  BY <1>3 DEF Spaced, gap
<1>6. PICK r \in Row : r[1] = e /\ send[r] = "sent" /\ FirstSent(e) = touched[r]
  BY <1>4
<1>7. PICK v \in Row : v[1] = d /\ send[v] = "sent" /\ FirstSent(d) = touched[v]
  BY <1>4
<1>8. FirstSent(d) <= touched[u]
  BY <1>4, <1>5
<1>9. asked[e].at <= touched[r] /\ asked[e].at \in Nat
  BY <1>1, <1>3, <1>6, AskedTyped DEF Dates
<1>10. QED
  BY <1>0, <1>1, <1>5, <1>6, <1>7, <1>8, <1>9 DEF gap

\* Whatever ticks, dispatches, hooks and crashes interleave, the mail of a
\* decision of programs/tick.ts comes at least its attempt's own gap, or the
\* program's where it has none, or the one of a run with progress, after the first
\* mail of each earlier one (gapMs of programs/sunset.ts, from the lastSentAt that
\* countAcceptedSend writes), but for the excuses.
THEOREM MailIsSpaced ==
  ASSUME OwnProcesses PROVE Spec => []SpacedByGap
<1> DEFINE IInv == TypeInv /\ Plain /\ FlightInv /\ Working /\ (Calm => BookInv) /\ Unsent
<1>1. Init => IInv
  BY TypeInit, FlightInit, BookInit
<1>2. IInv /\ [Next]_vars => IInv'
  <2> SUFFICES ASSUME IInv, [Next]_vars PROVE IInv'
    OBVIOUS
  <2>1. TypeInv' /\ Plain' /\ FlightInv' /\ Working'
    BY TypeStep, PlainStep, FlightStep, WorkingStep
  <2>2. (Calm => BookInv)'
    BY <2>1, BookStep
  <2>3. Unsent'
    BY UnsentStep
  <2>4. QED
    BY <2>1, <2>2, <2>3
<1>3. IInv => SpacedByGap
  BY SpacedOut
<1>4. QED
  BY <1>1, <1>2, <1>3, PTL DEF Spec
-----------------------------------------------------------------------------
(* An attempt for each decision that was accepted.                         *)

Ladder(a)     == Len(P.actions[a].attempts)
Alike(st, nx) == nx.attempts = st.attempts /\ nx.ladder = st.ladder
\* The state of an action is within its ladder, and cools down at the end of it.
Fits(a, st)   == st.attempts <= Ladder(a) /\ (st.status = "cooldown" => st.attempts = Ladder(a))
Fitting(acts) == \A a \in DOMAIN acts : Fits(a, acts[a])
\* The attempts that a state stands for.
Worth(a, st)  == st.attempts + (st.ladder - 1) * Ladder(a)

\* Decision d has its count: a later one was made, or it was counted last.
Told(d)    == d < Len(asked) \/ run.lastCounted = d
Tallied(a) == {d \in Sent(a) : Told(d)}

\* A row is flagged once its decision has its count.
Flagged == \A s \in Row : s \in counted \/ stage[s] \in Marking => Told(s[1])
\* There is room in the ladder for a decision that is yet to be counted.
Room    == LET n == Len(asked)  b == asked[n].action
           IN  n > 0 /\ run.lastCounted # n /\ b # Ask => Stored(run.acts, b).attempts < Ladder(b)
Tally   == \A a \in Actions : Worth(a, Stored(run.acts, a)) = Cardinality(Tallied(a))
\* The other arm's mark is on no row.
Unheld  == \A s \in Row : send[s] # "holdout"
RowTally == Fitting(run.acts) /\ Flagged /\ Room /\ Tally /\ Unheld

\* What a tick makes of the state of an action: one of the same attempts, or a fresh
\* ladder after one that is full.
Follows(a, st, nx) ==
  \/ Alike(st, nx) /\ (nx.status = "cooldown" => st.attempts = Ladder(a))
  \/ /\ st.status = "cooldown" /\ st.attempts = Ladder(a)
     /\ nx.status = "pending" /\ nx.attempts = 0 /\ nx.ladder = st.ladder + 1
\* It chose an action that has attempts left.
Draft(t) ==
  /\ Fitting(t.run.acts)
  /\ \A a \in DOMAIN t.next.acts : Follows(a, Stored(t.run.acts, a), t.next.acts[a])
  /\ t.chosen # Ask => t.chosen \in DOMAIN t.next.acts /\ t.next.acts[t.chosen].attempts < Ladder(t.chosen)

\* From its lease to its write a tick that has the lease has a copy of the states as
\* they are, but for a count that came since: then there was room for it.
Unwritten == {"resolve", "decide", "cancelSends", "inFlight", "reconcile", "fresh", "timing",
              "recipients", "finish"} \cup Marking
Level(a, t) == \/ Alike(Stored(t.run.acts, a), Stored(run.acts, a))
               \/ run.lastCounted # t.run.lastCounted /\ Stored(t.run.acts, a).attempts < Ladder(a)
Drafts(w, place, t) ==
  /\ place \in Marking => Told(t.row[1])
  /\ DOMAIN t.run.acts \subseteq DOMAIN run.acts
  /\ Draft(t)
  /\ place \in {"resolve", "decide"} => t.chosen = Ask
  /\ place \in Unwritten /\ Owns(w) => \A a \in Actions : Level(a, t)

TallyInv == RowTally /\ \A w \in Ticker : Drafts(w, pc[w], tick[w])

LEMMA LadderNat ==
  ASSUME Typed, NEW a \in Actions
  PROVE  Ladder(a) \in Nat \ {0}
BY TheProgram DEF Ladder, IsProgram, ActionDef

\* The evaluation of a state that fits follows it, and what is ranked has attempts left.
LEMMA EvaluatedFollows ==
  ASSUME Typed, NEW acts \in ActsOver(Actions), NEW facts0, NEW now \in Nat, NEW a \in Actions,
         Fits(a, Stored(acts, a))
  PROVE  /\ Follows(a, Stored(acts, a), Evaluated(P, acts, facts0, now, a))
         /\ a \in Ranked(P, acts, facts0, now) => Evaluated(P, acts, facts0, now, a).attempts < Ladder(a)
<1>1. Ladder(a) \in Nat \ {0} /\ Actions = DOMAIN P.actions
  BY LadderNat, TheProgram
<1>2. PICK st \in ActState : st = Stored(acts, a)
  BY StoredTyped
<1>3. PICK re \in ActState : re = Reopened(acts, now, a)
  BY ReopenedTyped
<1>4. PICK out : out = Evaluated(P, acts, facts0, now, a)
  OBVIOUS
<1>5. st.attempts \in Nat /\ st.ladder \in Nat /\ re.attempts \in Nat /\ re.ladder \in Nat
  BY <1>2, <1>3 DEF ActState
<1>6. \/ re = st /\ (st.status = "cooldown" => Cooling(acts, now, a))
      \/ st.status = "cooldown" /\ re.attempts = 0 /\ re.ladder = st.ladder + 1
  <2>1. CASE st.status # "cooldown" \/ Cooling(acts, now, a)
    BY <1>2, <1>3, <2>1 DEF Reopened
  <2>2. CASE ~(st.status # "cooldown" \/ Cooling(acts, now, a))
    <3>1. re = [st EXCEPT !.attempts = 0, !.ladder = @ + 1, !.status = "pending",
                          !.cooldownUntil = Never]
      BY <1>2, <1>3, <2>2 DEF Reopened
    <3>2. QED
      BY <2>2, <3>1 DEF ActState
  <2>3. QED
    BY <2>1, <2>2
<1>7. st.attempts <= Ladder(a) /\ (st.status = "cooldown" => st.attempts = Ladder(a))
  BY <1>2 DEF Fits
<1>8. Spent(P, acts, now, a) <=> ~Cooling(acts, now, a) /\ re.attempts >= Ladder(a)
  BY <1>3 DEF Spent, Ladder
<1>9. CASE Satisfied(acts, facts0.sat, a)
  <2>1. a \notin Ranked(P, acts, facts0, now) /\ ~Exhausted(P, acts, facts0, now, a)
    BY <1>9 DEF Ranked, Exhausted, Reached
  <2>2. out = [st EXCEPT !.status = "satisfied", !.completedAt = IF @ = Never THEN now ELSE @]
    BY <1>2, <1>4, <1>9, <2>1 DEF Evaluated
  <2>3. out.attempts = st.attempts /\ out.ladder = st.ladder /\ out.status = "satisfied"
    BY <2>2 DEF ActState
  <2>4. QED
    BY <1>2, <1>4, <2>3, <2>1 DEF Follows, Alike
<1>10. CASE ~Satisfied(acts, facts0.sat, a) /\ Exhausted(P, acts, facts0, now, a)
  <2>1. re = st /\ st.attempts = Ladder(a) /\ Spent(P, acts, now, a)
    BY <1>1, <1>5, <1>6, <1>7, <1>8, <1>10 DEF Exhausted
  <2>2. a \notin Ranked(P, acts, facts0, now)
    BY <2>1 DEF Ranked
  <2>3. \/ out = [st EXCEPT !.status = "cooldown",
                         !.cooldownUntil = now + P.actions[a].cooldown]
        \/ out = [st EXCEPT !.status = "exhausted"]
    BY <1>3, <1>4, <1>10, <2>1, <2>2 DEF Evaluated
  <2>4. out.attempts = st.attempts /\ out.ladder = st.ladder
    BY <2>3 DEF ActState
  <2>5. QED
    BY <1>2, <1>4, <2>1, <2>4, <2>2 DEF Follows, Alike
<1>11. CASE /\ ~Satisfied(acts, facts0.sat, a) /\ ~Exhausted(P, acts, facts0, now, a)
            /\ a \in Ranked(P, acts, facts0, now)
  <2>1. out = [re EXCEPT !.status = "pending"]
    BY <1>3, <1>4, <1>11 DEF Evaluated
  <2>2. out.attempts = re.attempts /\ out.ladder = re.ladder /\ out.status = "pending"
    BY <2>1 DEF ActState
  <2>3. re.attempts < Ladder(a)
    BY <1>1, <1>5, <1>8, <1>11 DEF Ranked
  <2>4. Follows(a, st, out)
    BY <1>6, <1>7, <2>2 DEF Follows, Alike
  <2>5. QED
    BY <1>2, <1>4, <2>2, <2>3, <2>4
<1>12. CASE /\ ~Satisfied(acts, facts0.sat, a) /\ ~Exhausted(P, acts, facts0, now, a)
            /\ a \notin Ranked(P, acts, facts0, now)
  <2>1. out = st
    BY <1>2, <1>4, <1>12 DEF Evaluated
  <2>2. QED
    BY <1>2, <1>4, <1>7, <1>12, <2>1 DEF Follows, Alike
<1>13. QED
  BY <1>9, <1>10, <1>11, <1>12

\* The states that a tick decides on.
LEMMA WorksFollow ==
  ASSUME Typed, NEW acts \in ActsOver(Actions), NEW facts0, NEW now \in Nat, Fitting(acts)
  PROVE  LET works == Works(P, acts, facts0, now)
         IN  /\ \A a \in DOMAIN works : Follows(a, Stored(acts, a), works[a])
             /\ \A a \in Ranked(P, acts, facts0, now) : a \in DOMAIN works /\ works[a].attempts < Ladder(a)
<1>1. Actions = DOMAIN P.actions
  BY TheProgram
<1>2. ASSUME NEW a \in Actions PROVE Fits(a, Stored(acts, a))
  <2>1. Ladder(a) \in Nat
    BY LadderNat
  <2>2. CASE a \in DOMAIN acts
    BY <2>2 DEF Fitting, Stored
  <2>3. CASE a \notin DOMAIN acts
    BY <2>1, <2>3 DEF Stored, Fits, freshActionState
  <2>4. QED
    BY <2>2, <2>3
<1>3. ASSUME NEW a \in Actions
      PROVE  /\ Follows(a, Stored(acts, a), Works(P, acts, facts0, now)[a])
             /\ a \in Ranked(P, acts, facts0, now) => Works(P, acts, facts0, now)[a].attempts < Ladder(a)
  <2>1. Works(P, acts, facts0, now)[a] = Evaluated(P, acts, facts0, now, a)
    BY <1>1 DEF Works
  <2>2. QED
    BY <1>2, <2>1, EvaluatedFollows
<1>4. DOMAIN Works(P, acts, facts0, now) = Actions /\ Ranked(P, acts, facts0, now) \subseteq Actions
  BY <1>1 DEF Works, Ranked
<1>5. QED
  BY <1>3, <1>4

\* A state that follows itself, and the fresh state.
LEMMA FollowsItself ==
  ASSUME NEW a, NEW st, Fits(a, st) PROVE Follows(a, st, st)
BY DEF Fits, Follows, Alike

LEMMA FreshFollowed ==
  ASSUME Typed, NEW a \in Actions, NEW nx, Follows(a, freshActionState, nx)
  PROVE  Alike(freshActionState, nx) /\ nx.status # "cooldown"
<1>1. Ladder(a) # 0
  BY LadderNat
<1>2. QED
  BY <1>1 DEF Follows, freshActionState

-----------------------------------------------------------------------------
(* What leaves the counts alone.                                           *)

\* The states that a write leaves stand for the attempts that they stood for.
KeepActs == /\ DOMAIN run.acts \subseteq DOMAIN run'.acts
            /\ \A a \in DOMAIN run'.acts :
                 /\ Alike(Stored(run.acts, a), run'.acts[a])
                 /\ run'.acts[a].status = "cooldown" => Stored(run.acts, a).status = "cooldown"

LEMMA SameActs ==
  ASSUME run'.acts = run.acts PROVE KeepActs
BY DEF KeepActs, Alike, Stored

LEMMA KeptAlike ==
  ASSUME KeepActs, NEW a PROVE Alike(Stored(run.acts, a), Stored(run'.acts, a))
BY DEF KeepActs, Alike, Stored

LEMMA KeptFits ==
  ASSUME TypeInv, TypeInv', UNCHANGED case, Fitting(run.acts), KeepActs PROVE Fitting(run.acts)'
<1>1. DOMAIN run'.acts \subseteq Actions /\ Typed
  <2>1. run' \in RunRec(Actions)' /\ Actions' = Actions
    BY DEF TypeInv, Typed, Actions, P
  <2>2. run'.acts \in ActsOver(Actions)
    BY <2>1, RunFields
  <2>3. QED
    BY <2>2 DEF ActsOver, TypeInv
<1>2. \A a : Ladder(a)' = Ladder(a)
  BY DEF Ladder, P
<1>3. ASSUME NEW a \in DOMAIN run'.acts
      PROVE  run'.acts[a].attempts <= Ladder(a) /\ (run'.acts[a].status = "cooldown"
                                                      => run'.acts[a].attempts = Ladder(a))
  <2>1. CASE a \in DOMAIN run.acts
    BY <2>1 DEF KeepActs, Fitting, Fits, Alike, Stored
  <2>2. CASE a \notin DOMAIN run.acts
    <3>1. run'.acts[a].attempts = 0 /\ run'.acts[a].status # "cooldown"
      BY <2>2 DEF KeepActs, Alike, Stored, freshActionState
    <3>2. Ladder(a) \in Nat \ {0}
      BY <1>1, LadderNat
    <3>3. QED
      BY <3>1, <3>2
  <2>3. QED
    BY <2>1, <2>2
<1>4. QED
  BY <1>2, <1>3 DEF Fitting, Fits

\* A row that was accepted is of a decision that was made; without the other
\* arm's mark it is all that Sent sees.
LEMMA SentRows ==
  ASSUME TypeInv, NEW a
  PROVE  /\ Unheld => Sent(a) = {d \in 1..Len(asked) : asked[d].action = a
                                   /\ \E s \in Row : s[1] = d /\ send[s] = "sent"}
         /\ IsFiniteSet(Sent(a)) /\ IsFiniteSet(Tallied(a)) /\ Tallied(a) \subseteq Sent(a)
<1>1. Sent(a) \subseteq 1..Len(asked) /\ Tallied(a) \subseteq Sent(a)
  BY DEF Sent, Tallied
<1>2. Len(asked) \in Nat
  BY DEF TypeInv, Typed
<1>3. IsFiniteSet(1..Len(asked))
  BY <1>2, FS_Interval
<1>4. IsFiniteSet(Sent(a))
  BY <1>1, <1>3, FS_Subset
<1>5. IsFiniteSet(Tallied(a))
  BY <1>1, <1>4, FS_Subset
<1>6. QED
  BY <1>1, <1>4, <1>5 DEF Sent, Unheld

\* What a step that neither counts nor decides has to show.
LEMMA RowsTally ==
  ASSUME TypeInv, TypeInv', RowBooks, RowTally, UNCHANGED <<asked, case>>,
         run'.lastCounted = run.lastCounted, KeepActs,
         \A s \in Row : send[s] = "sent" => send'[s] = "sent",
         \A s \in Row : send'[s] = "sent" => send[s] = "sent" \/ s[1] = Len(asked),
         \A s \in Row : send'[s] # "holdout",
         \A s \in Row : s \in counted' \/ stage'[s] \in Marking
                          => s \in counted \/ stage[s] \in Marking \/ Told(s[1])
  PROVE  RowTally'
<1>1. Row' = Row /\ Actions' = Actions /\ \A a : Ladder(a)' = Ladder(a)
  BY DEF Row, Decision, Actions, P, Ladder
<1>2. \A d : Told(d)' <=> Told(d)
  BY DEF Told
<1>3. Fitting(run.acts)'
  BY KeptFits DEF RowTally
<1>4. Flagged'
  <2>1. \A s \in Row : s \in counted' \/ stage'[s] \in Marking => Told(s[1])
    BY DEF RowTally, Flagged
  <2>2. \A s \in Row : (s \in counted \/ stage[s] \in Marking => Told(s[1]))'
    BY <1>2, <2>1
  <2>3. QED
    BY <1>1, <2>2 DEF Flagged
<1>5. Room'
  <2>1. PICK b : b = asked[Len(asked)].action
    OBVIOUS
  <2>2. Alike(Stored(run.acts, b), Stored(run'.acts, b))
    BY KeptAlike
  <2>3. QED
    BY <1>1, <2>1, <2>2 DEF RowTally, Room, Alike
<1>6. Unheld'
  BY <1>1 DEF Unheld
<1>7. ASSUME NEW a \in Actions PROVE Tallied(a)' = Tallied(a)
  <2>1. Sent(a)' = {d \in 1..Len(asked) : asked[d].action = a
                      /\ \E s \in Row : s[1] = d /\ send'[s] = "sent"}
    BY <1>1 DEF Sent, Unheld
  <2>2. Sent(a) = {d \in 1..Len(asked) : asked[d].action = a
                     /\ \E s \in Row : s[1] = d /\ send[s] = "sent"}
    BY SentRows DEF RowTally
  <2>3. ASSUME NEW d \in Sent(a)', Told(d) PROVE d \in Sent(a)
    <3>1. PICK s \in Row : s[1] = d /\ send'[s] = "sent"
      BY <2>1
    <3>2. CASE send[s] = "sent"
      BY <2>1, <2>2, <3>1, <3>2
    <3>3. CASE send[s] # "sent"
      <4>1. d = Len(asked) /\ Len(asked) \in Nat
        BY <3>1, <3>3 DEF TypeInv, Typed
      <4>2. run.lastCounted = d /\ d # NoDecision
        BY <2>1, <2>3, <4>1 DEF Told, NoDecision
      <4>3. \E u \in Row : u[1] = d /\ send[u] = "sent"
        BY <4>2 DEF RowBooks, Booked, OnBooks
      <4>4. QED
        BY <2>1, <2>2, <4>3
    <3>4. QED
      BY <3>2, <3>3
  <2>4. Sent(a) \subseteq Sent(a)'
    BY <2>1, <2>2
  <2>5. Tallied(a)' = {d \in Sent(a)' : Told(d)}
    BY <1>2 DEF Tallied
  <2>6. QED
    BY <2>3, <2>4, <2>5 DEF Tallied
<1>8. Tally'
  <2>1. ASSUME NEW a \in Actions PROVE (Worth(a, Stored(run.acts, a)) = Cardinality(Tallied(a)))'
    <3>1. Alike(Stored(run.acts, a), Stored(run'.acts, a))
      BY KeptAlike
    <3>2. Worth(a, Stored(run.acts, a))' = Worth(a, Stored(run.acts, a))
      BY <1>1, <3>1 DEF Worth, Alike
    <3>3. QED
      BY <1>7, <3>2 DEF RowTally, Tally
  <2>2. QED
    BY <1>1, <2>1 DEF Tally
<1>9. QED
  BY <1>3, <1>4, <1>5, <1>6, <1>8 DEF RowTally

\* What a draft is worth does not change with the run.
LEMMA DraftStays ==
  ASSUME UNCHANGED case, NEW t PROVE Draft(t)' <=> Draft(t)
BY DEF Draft, Fitting, Fits, Follows, Ladder, P

LEMMA LevelStays ==
  ASSUME UNCHANGED case, KeepActs, run'.lastCounted = run.lastCounted, NEW a, NEW t, Level(a, t)
  PROVE  Level(a, t)'
<1>1. Alike(Stored(run.acts, a), Stored(run'.acts, a)) /\ Ladder(a)' = Ladder(a)
  BY KeptAlike DEF Ladder, P
<1>2. QED
  BY <1>1 DEF Level, Alike

\* A tick that does not move, while the run knows no less.
LEMMA DraftsWait ==
  ASSUME TypeInv, TypeInv', NEW v \in Ticker, Drafts(v, pc[v], tick[v]),
         pc'[v] = pc[v], tick'[v] = tick[v], UNCHANGED case, Owns(v)' => Owns(v),
         DOMAIN run.acts \subseteq DOMAIN run'.acts,
         \A d \in Decision : Told(d) => Told(d)',
         Owns(v) /\ pc[v] \in Unwritten => \A a \in Actions : Level(a, tick[v]) => Level(a, tick[v])'
  PROVE  Drafts(v, pc[v], tick[v])'
<1>1. PICK place, t : place = pc[v] /\ t = tick[v]
  OBVIOUS
<1>2. Drafts(v, place, t)
  BY <1>1
<1>3. Draft(t)' /\ Actions' = Actions
  BY <1>2, DraftStays DEF Drafts, Actions, P
<1>4. place \in Marking => t.row[1] \in Decision
  BY <1>1 DEF TypeInv, Named, Row
<1>5. Owns(v) /\ place \in Unwritten => \A a \in Actions : Level(a, t) => Level(a, t)'
  BY <1>1 DEF Level
<1>6. Drafts(v, place, t)'
  BY <1>2, <1>3, <1>4, <1>5 DEF Drafts
<1>7. QED
  BY <1>1, <1>6

\* A step of a tick that decides nothing.
LEMMA TickTally ==
  ASSUME OwnProcesses, TypeInv, TypeInv', TallyInv, NEW w \in Ticker, NEW place, NEW t,
         UNCHANGED <<case, asked>>, RowTally', KeepActs, run'.lastCounted = run.lastCounted,
         pc' = [pc EXCEPT ![w] = place], tick' = [tick EXCEPT ![w] = t],
         run'.lease.owner \in {run.lease.owner, Process[w], Nobody},
         Drafts(w, place, t)'
  PROVE  TallyInv'
<1>1. ASSUME NEW v \in Ticker PROVE Drafts(v, pc[v], tick[v])'
  <2>1. CASE v # w
    <3>1. pc'[v] = pc[v] /\ tick'[v] = tick[v]
      BY <2>1 DEF TypeInv, Typed
    <3>2. Owns(v)' => Owns(v)
      BY <2>1, ProgramRunAssumption DEF Owns, OwnProcesses
    <3>3. \A d \in Decision : Told(d) => Told(d)'
      BY DEF Told
    <3>4. PICK q : q = tick[v]
      OBVIOUS
    <3>5. \A a \in Actions : Level(a, q) => Level(a, q)'
      BY LevelStays
    <3>6. \A a \in Actions : Level(a, tick[v]) => Level(a, tick[v])'
      BY <3>1, <3>4, <3>5 DEF Level
    <3>7. Drafts(v, pc[v], tick[v])
      BY DEF TallyInv
    <3>8. QED
      BY <3>1, <3>2, <3>3, <3>6, <3>7, DraftsWait DEF KeepActs
  <2>2. CASE v = w
    <3>1. pc'[w] = place /\ tick'[w] = t
      BY DEF TypeInv, Typed
    <3>2. QED
      BY <2>2, <3>1
  <2>3. QED
    BY <2>1, <2>2
<1>2. QED
  BY <1>1 DEF TallyInv

\* The same, for a tick that takes no lease, leaves the rows as they are, and comes
\* to where it is right as things are.
LEMMA GoesTally ==
  ASSUME OwnProcesses, TypeInv, TypeInv', RowBooks, TallyInv, NEW w \in Ticker, NEW place, NEW t,
         UNCHANGED <<case, asked, send, stage, counted>>, run'.acts = run.acts,
         run'.lastCounted = run.lastCounted,
         pc' = [pc EXCEPT ![w] = place], tick' = [tick EXCEPT ![w] = t],
         run'.lease.owner \in {run.lease.owner, Nobody},
         Drafts(w, place, t)
  PROVE  TallyInv'
<1>1. KeepActs
  BY SameActs
<1>2. RowTally'
  <2>1. RowTally /\ \A s \in Row : send'[s] # "holdout"
    BY DEF TallyInv, RowTally, Unheld
  <2>2. QED
    BY <1>1, <2>1, RowsTally
<1>3. Owns(w)' => Owns(w)
  BY ProgramRunAssumption DEF Owns
<1>4. Draft(t)' /\ Actions' = Actions
  BY DraftStays DEF Drafts, Actions, P
<1>5. \A a \in Actions : Level(a, t) => Level(a, t)'
  BY <1>1, LevelStays
<1>6. Drafts(w, place, t)'
  BY <1>3, <1>4, <1>5 DEF Drafts, Told
<1>7. QED
  BY <1>1, <1>2, <1>6, TickTally

\* A tick that goes on with the copy, the states and the choice that it has.
LEMMA SameDraft ==
  ASSUME TallyInv, NEW w \in Ticker, NEW place, NEW t,
         t.run = tick[w].run, t.next.acts = tick[w].next.acts, t.chosen = tick[w].chosen,
         place \in Unwritten => pc[w] \in Unwritten,
         place \in {"resolve", "decide"} => pc[w] \in {"resolve", "decide"},
         place \in Marking => pc[w] \in Marking /\ t.row = tick[w].row
  PROVE  Drafts(w, place, t)
<1>1. Drafts(w, pc[w], tick[w])
  BY DEF TallyInv
<1>2. Draft(t)
  BY <1>1 DEF Drafts, Draft
<1>3. \A a : Level(a, tick[w]) => Level(a, t)
  BY DEF Level
<1>4. QED
  BY <1>1, <1>2, <1>3 DEF Drafts

\* The end of a tick, wherever it was.
LEMMA StopTally ==
  ASSUME OwnProcesses, TypeInv, TypeInv', RowBooks, TallyInv, NEW w \in Ticker, Stop(w),
         UNCHANGED <<case, asked, send, stage, counted>>, run'.acts = run.acts,
         run'.lastCounted = run.lastCounted, run'.lease.owner \in {run.lease.owner, Nobody}
  PROVE  TallyInv'
<1>1. pc' = [pc EXCEPT ![w] = "idle"] /\ tick' = [tick EXCEPT ![w] = NoTick]
  BY DEF Stop, Goto
<1>2. /\ DOMAIN NoTick.run.acts = {} /\ DOMAIN NoTick.next.acts = {} /\ NoTick.chosen = Ask
  BY DEF NoTick, NewRun
<1>3. "idle" \notin Unwritten \cup Marking \cup {"resolve", "decide"}
  BY DEF Unwritten, Marking
<1>4. Drafts(w, "idle", NoTick)
  BY <1>2, <1>3 DEF Drafts, Draft, Fitting
<1>5. QED
  BY <1>1, <1>4, GoesTally

-----------------------------------------------------------------------------
(* The steps of a tick, and the counts.                                    *)

LEMMA TallyEnds ==
  ASSUME OwnProcesses, TypeInv, TypeInv', RowBooks, TallyInv, NEW w \in Ticker,
         LoseLease(w) \/ HostFails(w) \/ Crash(w) \/ releaseLease(w)
  PROVE  TallyInv'
<1>1. run \in RunRec(Actions)
  BY DEF TypeInv, Typed
<1>2. CASE LoseLease(w) \/ Crash(w)
  BY <1>2, StopTally DEF LoseLease, Crash, TickFrame, rows, outside
<1>3. CASE releaseLease(w)
  <2>1. run' = run \/ run' = [run EXCEPT !.lease = NoLease]
    BY <1>3 DEF releaseLease, SetRun
  <2>2. /\ run'.acts = run.acts /\ run'.lastCounted = run.lastCounted
        /\ run'.lease.owner \in {run.lease.owner, Nobody}
    BY <1>1, <2>1 DEF RunRec, NoLease
  <2>3. QED
    BY <1>3, <2>2, StopTally DEF releaseLease, TickFrame, rows, outside
<1>4. CASE HostFails(w)
  <2>1. PICK n, l : run' = [run EXCEPT !.lease = l, !.nextTick = n] /\ l \in {run.lease, NoLease}
    BY <1>4 DEF HostFails, SetRun
  <2>2. run'.acts = run.acts /\ run'.lastCounted = run.lastCounted /\ run'.lease = l
    BY <1>1, <2>1 DEF RunRec
  <2>3. run'.lease.owner \in {run.lease.owner, Nobody}
    BY <2>1, <2>2 DEF NoLease
  <2>4. QED
    BY <1>4, <2>2, <2>3, StopTally DEF HostFails, rows, outside
<1>5. QED
  BY <1>2, <1>3, <1>4

LEMMA TallyDue ==
  ASSUME OwnProcesses, TypeInv, TypeInv', RowBooks, TallyInv, NEW w \in Ticker, Due(w)
  PROVE  TallyInv'
<1>1. /\ pc' = [pc EXCEPT ![w] = "acquire"]
      /\ UNCHANGED <<case, asked, send, stage, counted, run, tick>>
  BY DEF Due, Goto, outside, rows
<1>2. tick' = [tick EXCEPT ![w] = tick[w]]
  BY <1>1 DEF TypeInv, Typed
<1>3. "acquire" \notin Unwritten \cup Marking \cup {"resolve", "decide"}
  BY DEF Unwritten, Marking
<1>4. Drafts(w, "acquire", tick[w])
  BY <1>3, SameDraft
<1>5. QED
  BY <1>1, <1>2, <1>4, GoesTally

\* A tick that takes the lease copies the states as they are.
LEMMA TallyAcquire ==
  ASSUME OwnProcesses, TypeInv, TypeInv', RowBooks, TallyInv, NEW w \in Ticker, acquireLease(w)
  PROVE  TallyInv'
<1>1. run \in RunRec(Actions) /\ clock \in Nat /\ NoTick \in TickRec(Actions) /\ Typed
  BY NoTickTyped DEF TypeInv, Typed
<1>2. UNCHANGED <<case, asked, send, stage, counted>>
  BY DEF acquireLease, TickFrame, rows, outside
<1>3. CASE ~(run.status \in Active /\ LeaseFree)
  BY <1>2, <1>3, StopTally DEF acquireLease
<1>4. CASE run.status \in Active /\ LeaseFree
  <2> DEFINE l == [owner |-> Process[w], until |-> clock + LeaseSpan]
             r == [run EXCEPT !.lease = l]
             t == [NoTick EXCEPT !.now = clock, !.run = r, !.next = r, !.wake = r.wake]
  <2>1. run' = r /\ pc' = [pc EXCEPT ![w] = "resolve"] /\ tick' = [tick EXCEPT ![w] = t]
    BY <1>4 DEF acquireLease, SetRun, Goto
  <2>2. l.owner = Process[w]
    OBVIOUS
  <2> HIDE DEF l
  <2>3. r.lease = l /\ r.acts = run.acts /\ r.lastCounted = run.lastCounted
    BY <1>1 DEF RunRec
  <2> HIDE DEF r
  <2>4. t.run = r /\ t.next = r /\ t.chosen = Ask
    BY <1>1 DEF TickRec, NoTick
  <2> HIDE DEF t
  <2>5. PICK u : u = t
    OBVIOUS
  <2>6. Fitting(run.acts)
    BY DEF TallyInv, RowTally
  <2>7. Draft(u)
    <3>1. \A a \in DOMAIN run.acts : Follows(a, Stored(run.acts, a), run.acts[a])
      BY <2>6, FollowsItself DEF Fitting, Stored
    <3>2. QED
      BY <2>3, <2>4, <2>5, <2>6, <3>1 DEF Draft
  <2>8. Draft(u)'
    BY <1>2, <2>7, DraftStays
  <2>9. \A a : Level(a, u)'
    BY <2>1, <2>3, <2>4, <2>5 DEF Level, Alike
  <2>10. Drafts(w, "resolve", u)'
    BY <2>1, <2>3, <2>4, <2>5, <2>8, <2>9 DEF Drafts, Marking
  <2>11. KeepActs
    BY <2>1, <2>3, SameActs
  <2>12. RowTally'
    <3>1. RowTally /\ \A s \in Row : send'[s] # "holdout"
      BY <1>2 DEF TallyInv, RowTally, Unheld
    <3>2. QED
      BY <1>2, <2>1, <2>3, <2>11, <3>1, RowsTally
  <2>13. QED
    BY <1>2, <2>1, <2>2, <2>3, <2>5, <2>10, <2>11, <2>12, TickTally
<1>5. QED
  BY <1>3, <1>4

LEMMA RenewedActs ==
  ASSUME TypeInv, NEW w \in Ticker, run' = Renewed(w)
  PROVE  /\ run'.acts = run.acts /\ run'.lastCounted = run.lastCounted
         /\ run'.lease.owner = run.lease.owner
<1>1. run' = Renewed(w) /\ Typed
  BY DEF TypeInv
<1>2. QED
  BY <1>1, RenewedTyped DEF Fields, NewRun

LEMMA TallyResolve ==
  ASSUME OwnProcesses, TypeInv, TypeInv', RowBooks, TallyInv, NEW w \in Ticker, Resolve(w)
  PROVE  TallyInv'
<1>1. tick[w] \in TickRec(Actions) /\ Typed /\ pc[w] = "resolve"
  BY TickFields DEF TypeInv, Resolve
<1>2. CASE LoseLease(w)
  BY <1>2, TallyEnds
<1>3. CASE ~LoseLease(w)
  <2> DEFINE t == [tick[w] EXCEPT !.facts = facts]
  <2>1. /\ run' = Renewed(w) /\ pc' = [pc EXCEPT ![w] = "decide"]
        /\ tick' = [tick EXCEPT ![w].facts = facts]
        /\ UNCHANGED <<case, asked, send, stage, counted>>
    BY <1>3 DEF Resolve, SetRun, Goto, TickFrame, rows, outside
  <2>2. tick' = [tick EXCEPT ![w] = t]
    BY <2>1 DEF TypeInv, Typed
  <2>3. t.run = tick[w].run /\ t.chosen = tick[w].chosen /\ t.next.acts = tick[w].next.acts
    BY <1>1 DEF TickRec
  <2> HIDE DEF t
  <2>4. "decide" \notin Marking /\ pc[w] \in Unwritten
    BY <1>1 DEF Unwritten, Marking
  <2>5. Drafts(w, "decide", t)
    BY <1>1, <2>3, <2>4, SameDraft
  <2>6. QED
    BY <2>1, <2>2, <2>5, RenewedActs, GoesTally
<1>4. QED
  BY <1>2, <1>3

\* A tick that has decided what to write and makes no decision.
LEMMA WantsTally ==
  ASSUME OwnProcesses, TypeInv, TypeInv', RowBooks, TallyInv, NEW w \in Ticker,
         pc[w] \in Unwritten, NEW place \in {"cancelSends", "finish"},
         NEW next \in RunRec(Actions), NEW set, NEW at,
         \/ next.acts = tick[w].next.acts
         \/ /\ tick[w].chosen = Ask
            /\ \A a \in DOMAIN next.acts : Follows(a, Stored(tick[w].run.acts, a), next.acts[a]),
         UNCHANGED <<case, asked, send, stage, counted>>,
         pc' = [pc EXCEPT ![w] = place],
         tick' = [tick EXCEPT ![w] = Wants(tick[w], next, set, at)],
         run'.acts = run.acts, run'.lastCounted = run.lastCounted, run'.lease.owner = run.lease.owner
  PROVE  TallyInv'
<1>1. tick[w] \in TickRec(Actions)
  BY TickFields DEF TypeInv
<1>2. PICK u : u = Wants(tick[w], next, set, at)
  OBVIOUS
<1>3. u.run = tick[w].run /\ u.chosen = tick[w].chosen
  BY <1>1, <1>2, WantsKeeps
<1>4. u.next.acts = next.acts
  BY <1>1, <1>2, WantsFields
<1>5. place \notin Marking \cup {"resolve", "decide"}
  BY DEF Marking
<1>6. Drafts(w, place, u)
  <2>1. CASE next.acts = tick[w].next.acts
    BY <1>3, <1>4, <1>5, <2>1, SameDraft
  <2>2. CASE next.acts # tick[w].next.acts
    <3>1. Drafts(w, pc[w], tick[w])
      BY DEF TallyInv
    <3>2. Draft(u)
      BY <1>3, <1>4, <2>2, <3>1 DEF Drafts, Draft
    <3>3. \A a : Level(a, tick[w]) => Level(a, u)
      BY <1>3 DEF Level
    <3>4. QED
      BY <1>3, <1>5, <3>1, <3>2, <3>3 DEF Drafts
  <2>3. QED
    BY <2>1, <2>2
<1>7. QED
  BY <1>2, <1>6, GoesTally

LEMMA TallyDecide ==
  ASSUME OwnProcesses, TypeInv, TypeInv', RowBooks, TallyInv, NEW w \in Ticker, Decide(w)
  PROVE  TallyInv'
<1> DEFINE t == tick[w]
           works == Works(P, t.run.acts, t.facts, t.now)
<1>1. Typed /\ t \in TickRec(Actions) /\ t.run \in RunRec(Actions) /\ t.run.acts \in ActsOver(Actions)
      /\ t.now \in Nat
  BY TickFields, RunFields DEF TypeInv
<1>2. pc[w] = "decide" /\ pc[w] \in Unwritten
  BY <1>1, DecideWays DEF Unwritten
<1>3. Drafts(w, "decide", t)
  BY <1>2 DEF TallyInv
<1>4. t.chosen = Ask /\ Fitting(t.run.acts)
  BY <1>3 DEF Drafts, Draft
<1>5. \A a \in DOMAIN works : Follows(a, Stored(t.run.acts, a), works[a])
  BY <1>1, <1>4, WorksFollow
<1>6. CASE DecideExits(w)
  <2> DEFINE next == [t.run EXCEPT !.status = "exited", !.inFlight = NoDecision]
             set == {"status", "inFlight"}
  <2>1. next \in RunRec(Actions) /\ next.acts = t.run.acts
    BY <1>1 DEF RunRec
  <2>2. /\ pc' = [pc EXCEPT ![w] = "cancelSends"]
        /\ tick' = [tick EXCEPT ![w] = Wants(tick[w], next, set, Never)]
        /\ UNCHANGED <<case, asked, send, stage, counted, run>>
    BY <1>6 DEF DecideExits, Finishing, Goto, TickFrame, rows, outside
  <2> HIDE DEF next, set
  <2>3. \A a \in DOMAIN next.acts : Follows(a, Stored(t.run.acts, a), next.acts[a])
    BY <1>4, <2>1, FollowsItself DEF Fitting, Stored
  <2>4. QED
    BY <1>2, <1>4, <2>1, <2>2, <2>3, WantsTally
<1>7. CASE DecideEnds(w)
  <2> DEFINE next == [t.run EXCEPT !.status = "completed", !.acts = works]
             set == {"acts", "status"}
  <2>1. works \in ActsOver(Actions)
    BY <1>1, TheProgram, WorksTyped
  <2> HIDE DEF works
  <2>2. next \in RunRec(Actions) /\ next.acts = works
    <3> HIDE DEF t
    <3>1. PICK r \in RunRec(Actions) : r = t.run
      BY <1>1
    <3>2. [r EXCEPT !.status = "completed", !.acts = works] \in RunRec(Actions)
          /\ [r EXCEPT !.status = "completed", !.acts = works].acts = works
      BY <2>1 DEF RunRec
    <3>3. QED
      BY <3>1, <3>2
  <2>3. /\ pc' = [pc EXCEPT ![w] = "finish"]
        /\ tick' = [tick EXCEPT ![w] = Wants(tick[w], next, set, Never)]
        /\ UNCHANGED <<case, asked, send, stage, counted, run>>
    BY <1>7 DEF DecideEnds, Finishing, Goto, TickFrame, rows, outside, works
  <2> HIDE DEF next, set
  <2>4. QED
    BY <1>2, <1>4, <1>5, <2>2, <2>3, WantsTally
<1>8. DecidedRun(w) \in RunRec(Actions) /\ DecidedRun(w).acts = works
  BY <1>1, DecidedTyped
<1>9. CASE DecideSleeps(w)
  <2>1. PICK at \in Nat : Silent(w, DecidedRun(w), DecidedSet(w), at)
    BY <1>9 DEF DecideSleeps
  <2>2. /\ pc' = [pc EXCEPT ![w] = "finish"]
        /\ tick' = [tick EXCEPT ![w] = Wants(tick[w], DecidedRun(w), DecidedSet(w), at)]
        /\ UNCHANGED <<case, asked, send, stage, counted, run>>
    BY <2>1 DEF Silent, Finishing, Goto, TickFrame, rows, outside
  <2> HIDE DEF works
  <2>3. QED
    BY <1>2, <1>4, <1>5, <1>8, <2>2, WantsTally
<1>10. CASE DecideAsks(w)
  <2> DEFINE r == DecidedRun(w)
             set == DecidedSet(w)
  <2>1. PICK a \in Actions \cup {Ask}, n \in Nat \ {0} :
          /\ a # Ask => a \in Ranked(P, t.run.acts, t.facts, t.now)
          /\ tick' = [tick EXCEPT ![w].next = r, ![w].set = set, ![w].chosen = a, ![w].attempt = n]
    BY <1>10 DEF DecideAsks
  <2>2. PICK place \in {"fresh", "inFlight"} : pc' = [pc EXCEPT ![w] = place]
    BY <1>10 DEF DecideAsks, Goto
  <2>3. UNCHANGED <<case, asked, send, stage, counted, run>>
    BY <1>10 DEF DecideAsks, TickFrame, rows, outside
  <2>4. a # Ask => a \in DOMAIN works /\ works[a].attempts < Ladder(a)
    BY <1>1, <1>4, <2>1, WorksFollow
  <2> DEFINE u == [tick[w] EXCEPT !.next = r, !.set = set, !.chosen = a, !.attempt = n]
  <2> HIDE DEF r, set
  <2>5. tick' = [tick EXCEPT ![w] = u]
    BY <1>1, <2>1 DEF Typed
  <2>6. u.run = tick[w].run /\ u.next = r /\ u.chosen = a
    BY <1>1 DEF TickRec
  <2> HIDE DEF u, works
  <2>7. u.next.acts = works
    BY <1>8, <2>6 DEF r
  <2>8. Draft(u)
    BY <1>4, <1>5, <2>4, <2>6, <2>7 DEF Draft
  <2>9. \A b : Level(b, tick[w]) => Level(b, u)
    BY <2>6 DEF Level
  <2>10. place \notin Marking \cup {"resolve", "decide"}
    BY DEF Marking
  <2>11. Drafts(w, place, u)
    BY <1>2, <1>3, <2>6, <2>8, <2>9, <2>10 DEF Drafts
  <2>12. QED
    BY <2>2, <2>3, <2>5, <2>11, GoesTally
<1>11. QED
  BY <1>1, <1>6, <1>7, <1>9, <1>10, DecideWays

\* A step that leaves the rows, the states and the count as they are.
LEMMA StillTally ==
  ASSUME TypeInv, TypeInv', RowBooks, RowTally, UNCHANGED <<case, asked, send, stage, counted>>,
         run'.acts = run.acts, run'.lastCounted = run.lastCounted
  PROVE  RowTally' /\ KeepActs
<1>1. KeepActs
  BY SameActs
<1>2. \A s \in Row : send'[s] # "holdout"
  BY DEF RowTally, Unheld
<1>3. QED
  BY <1>1, <1>2, RowsTally

\* A run that exits cancels its rows.
LEMMA TallyCancel ==
  ASSUME OwnProcesses, TypeInv, TypeInv', RowBooks, TallyInv, NEW w \in Ticker, CancelSends(w)
  PROVE  TallyInv'
<1>1. /\ pc[w] = "cancelSends" /\ CancelRows /\ pc' = [pc EXCEPT ![w] = "finish"]
      /\ UNCHANGED <<case, asked, tick, run, counted, stage>>
  BY DEF CancelSends, Goto, outside
<1>2. KeepActs
  BY <1>1, SameActs
<1>3. RowTally'
  <2>1. \A s \in Row : /\ send[s] = "sent" => send'[s] = "sent"
                       /\ send'[s] = "sent" => send[s] = "sent"
                       /\ send[s] # "holdout" => send'[s] # "holdout"
    BY <1>1 DEF CancelRows, Cancelled
  <2>2. \A s \in Row : send'[s] # "holdout"
    BY <2>1 DEF TallyInv, RowTally, Unheld
  <2>3. QED
    BY <1>1, <1>2, <2>1, <2>2, RowsTally DEF TallyInv
<1>4. tick' = [tick EXCEPT ![w] = tick[w]]
  BY <1>1 DEF TypeInv, Typed
<1>5. PICK q : q = tick[w]
  OBVIOUS
<1>6. Drafts(w, "finish", q)
  BY <1>1, <1>5, SameDraft DEF Unwritten, Marking
<1>7. \A a : Level(a, q) => Level(a, q)'
  BY <1>1, <1>2, LevelStays
<1>8. Drafts(w, "finish", q)'
  <2>1. Draft(q)' /\ Actions' = Actions /\ (Owns(w)' => Owns(w))
    BY <1>1, <1>6, DraftStays DEF Drafts, Actions, P, Owns
  <2>2. QED
    BY <1>1, <1>6, <1>7, <2>1 DEF Drafts, Told
<1>9. QED
  BY <1>1, <1>2, <1>3, <1>4, <1>5, <1>8, TickTally

LEMMA TallyRead ==
  ASSUME OwnProcesses, TypeInv, TypeInv', RowBooks, TallyInv, NEW w \in Ticker, ReadInFlight(w)
  PROVE  TallyInv'
<1> DEFINE read == RowsOf(tick[w].run.inFlight)
           todo == {s \in read : send[s] = "sent" /\ s \notin counted}
           busy == \E s \in read : sendIsInFlight(s, tick[w].now)
           stale == {s \in read : send[s] = "queued" /\ tick[w].now - touched[s] >= Recheck}
           u == [tick[w] EXCEPT !.todo = todo, !.busy = busy, !.stale = stale]
<1>1. tick[w] \in TickRec(Actions) /\ pc[w] \in Unwritten
  BY TickFields DEF TypeInv, ReadInFlight, Unwritten
<1>2. /\ pc' = [pc EXCEPT ![w] = "reconcile"]
      /\ UNCHANGED <<case, asked, send, stage, counted, run>>
  BY DEF ReadInFlight, Goto, TickFrame, rows, outside
<1>3. tick' = [tick EXCEPT ![w].todo = todo, ![w].busy = busy, ![w].stale = stale]
  BY DEF ReadInFlight
<1> HIDE DEF todo, busy, stale
<1>4. tick' = [tick EXCEPT ![w] = u]
  BY <1>1, <1>3 DEF TypeInv, Typed
<1>5. u.run = tick[w].run /\ u.next = tick[w].next /\ u.chosen = tick[w].chosen
  BY <1>1 DEF TickRec
<1> HIDE DEF u
<1>6. Drafts(w, "reconcile", u)
  BY <1>1, <1>5, SameDraft DEF Marking
<1>7. QED
  BY <1>2, <1>4, <1>6, GoesTally

LEMMA TallySchedule ==
  ASSUME OwnProcesses, TypeInv, TypeInv', RowBooks, TallyInv, NEW w \in Ticker, ReconcileSchedule(w)
  PROVE  TallyInv'
<1>1. /\ pc' = [pc EXCEPT ![w] = "reconcile"] /\ pc[w] = "schedule"
      /\ UNCHANGED <<case, asked, send, stage, counted, tick>>
      /\ run' = Scheduled(tick[w].row) /\ tick[w].row \in Row /\ run \in RunRec(Actions)
  BY DEF ReconcileSchedule, SetRun, Goto, TickFrame, rows, outside, TypeInv, Typed, Named, Marking
<1>2. PICK n : run' = run \/ run' = [run EXCEPT !.nextTick = n]
  BY <1>1 DEF Scheduled
<1>3. run'.acts = run.acts /\ run'.lastCounted = run.lastCounted /\ run'.lease = run.lease
  BY <1>1, <1>2 DEF RunRec
<1>4. tick' = [tick EXCEPT ![w] = tick[w]]
  BY <1>1 DEF TypeInv, Typed
<1>5. Drafts(w, "reconcile", tick[w])
  BY <1>1, SameDraft DEF Unwritten, Marking
<1>6. QED
  BY <1>1, <1>3, <1>4, <1>5, GoesTally

LEMMA TallyReconciled ==
  ASSUME OwnProcesses, TypeInv, TypeInv', RowBooks, TallyInv, NEW w \in Ticker, Reconciled(w)
  PROVE  TallyInv'
<1> DEFINE t == tick[w]
           clear == [t.next EXCEPT !.inFlight = NoDecision]
           set == t.set \cup {"inFlight"}
<1>1. /\ t \in TickRec(Actions) /\ t.next \in RunRec(Actions)
      /\ pc[w] = "reconcile" /\ pc[w] \in Unwritten
  BY TickFields DEF TypeInv, Reconciled, Unwritten
<1>2. UNCHANGED <<case, asked, send, stage, counted, run>>
  BY DEF Reconciled, Silent, Finishing, TickFrame, rows, outside
<1>3. clear \in RunRec(Actions) /\ clear.acts = t.next.acts
  <2> HIDE DEF t
  <2>1. PICK r \in RunRec(Actions) : r = t.next
    BY <1>1
  <2>2. [r EXCEPT !.inFlight = NoDecision] \in RunRec(Actions)
        /\ [r EXCEPT !.inFlight = NoDecision].acts = r.acts
    BY DEF RunRec
  <2>3. QED
    BY <2>1, <2>2
<1>4. CASE t.busy
  <2>1. pc' = [pc EXCEPT ![w] = "finish"]
        /\ tick' = [tick EXCEPT ![w] = Wants(tick[w], t.next, t.set, t.now + Recheck)]
    BY <1>4 DEF Reconciled, Goto
  <2>2. QED
    BY <1>1, <1>2, <2>1, WantsTally
<1>5. CASE ~t.busy /\ t.row # NoRow
  <2>1. pc' = [pc EXCEPT ![w] = "finish"] /\ tick' = [tick EXCEPT ![w] = Wants(tick[w], clear, set, t.now + 1)]
    BY <1>5 DEF Reconciled, Silent, Finishing, Goto
  <2> HIDE DEF clear, set
  <2>2. QED
    BY <1>1, <1>2, <1>3, <2>1, WantsTally
<1>6. CASE ~t.busy /\ t.row = NoRow
  <2> DEFINE u == [t EXCEPT !.next = clear, !.set = set]
  <2>1. pc' = [pc EXCEPT ![w] = "fresh"] /\ tick' = [tick EXCEPT ![w].next = clear, ![w].set = set]
    BY <1>6 DEF Reconciled, Goto
  <2> HIDE DEF clear, set
  <2>2. tick' = [tick EXCEPT ![w] = u]
    BY <1>1, <2>1 DEF TypeInv, Typed
  <2>3. u.run = t.run /\ u.next = clear /\ u.chosen = t.chosen
    BY <1>1 DEF TickRec
  <2> HIDE DEF u
  <2>4. Drafts(w, "fresh", u)
    BY <1>1, <1>3, <2>3, SameDraft DEF Marking
  <2>5. QED
    BY <1>2, <2>1, <2>2, <2>4, GoesTally
<1>7. QED
  BY <1>4, <1>5, <1>6

LEMMA TallyFresh ==
  ASSUME OwnProcesses, TypeInv, TypeInv', RowBooks, TallyInv, NEW w \in Ticker, Fresh(w) \/ Timing(w)
  PROVE  TallyInv'
<1> DEFINE t == tick[w]
<1>1. pc[w] \in {"fresh", "timing"} /\ pc[w] \in Unwritten /\ t.next \in RunRec(Actions)
  BY TickFields DEF TypeInv, Fresh, Timing, Unwritten
<1>2. CASE LoseLease(w)
  BY <1>2, TallyEnds
<1>3. CASE ~LoseLease(w)
  <2>1. UNCHANGED <<case, asked, send, stage, counted, run>>
    BY <1>3 DEF Fresh, Timing, Silent, Finishing, TickFrame, rows, outside
  <2>2. \/ \E at : /\ pc' = [pc EXCEPT ![w] = "finish"]
                   /\ tick' = [tick EXCEPT ![w] = Wants(tick[w], t.next, t.set, at)]
        \/ \E place \in {"timing", "recipients"} : pc' = [pc EXCEPT ![w] = place] /\ UNCHANGED tick
    <3>1. CASE Fresh(w)
      BY <1>3, <3>1 DEF Fresh, Silent, Finishing, Goto
    <3>2. CASE Timing(w)
      BY <3>2 DEF Timing, Silent, Finishing, Goto
    <3>3. QED
      BY <3>1, <3>2
  <2>3. CASE \E at : /\ pc' = [pc EXCEPT ![w] = "finish"]
                     /\ tick' = [tick EXCEPT ![w] = Wants(tick[w], t.next, t.set, at)]
    <3>1. PICK at : /\ pc' = [pc EXCEPT ![w] = "finish"]
                    /\ tick' = [tick EXCEPT ![w] = Wants(tick[w], t.next, t.set, at)]
      BY <2>3
    <3>2. run'.acts = run.acts /\ run'.lastCounted = run.lastCounted /\ run'.lease = run.lease
      BY <2>1
    <3>3. t.next.acts = tick[w].next.acts
      OBVIOUS
    <3>4. QED
      BY <1>1, <2>1, <3>1, <3>2, <3>3, WantsTally
  <2>4. CASE \E place \in {"timing", "recipients"} : pc' = [pc EXCEPT ![w] = place] /\ UNCHANGED tick
    <3>1. PICK place \in {"timing", "recipients"} : pc' = [pc EXCEPT ![w] = place] /\ UNCHANGED tick
      BY <2>4
    <3>2. tick' = [tick EXCEPT ![w] = tick[w]]
      BY <3>1 DEF TypeInv, Typed
    <3>3. Drafts(w, place, tick[w])
      BY <1>1, SameDraft DEF Marking
    <3>4. QED
      BY <2>1, <3>1, <3>2, <3>3, GoesTally
  <2>5. QED
    BY <2>2, <2>3, <2>4
<1>4. QED
  BY <1>2, <1>3

LEMMA TallyRecipients ==
  ASSUME OwnProcesses, TypeInv, TypeInv', RowBooks, TallyInv, case.arm = "treatment",
         NEW w \in Ticker, Recipients(w)
  PROVE  TallyInv'
<1> DEFINE t == tick[w]
<1>1. /\ t \in TickRec(Actions) /\ t.next \in RunRec(Actions)
      /\ pc[w] = "recipients" /\ pc[w] \in Unwritten
  BY TickFields DEF TypeInv, Recipients, Unwritten
<1>2. CASE LoseLease(w)
  BY <1>2, TallyEnds
<1>3. CASE ~LoseLease(w)
  <2>1. /\ run' = Renewed(w) /\ pc' = [pc EXCEPT ![w] = "finish"]
        /\ UNCHANGED <<case, asked, send, stage, counted>>
    BY <1>3 DEF Recipients, SetRun, Goto, rows, outside
  <2>2. CASE tick' = [tick EXCEPT ![w] = Wants(t, t.next, t.set, GapEnd(w))]
    BY <1>1, <2>1, <2>2, RenewedActs, WantsTally
  <2>3. CASE tick' # [tick EXCEPT ![w] = Wants(t, t.next, t.set, GapEnd(w))]
    <3> DEFINE next == IF case.arm = "holdout" THEN HeldOut(t) ELSE Marked(t)
               set == IF case.arm = "treatment" THEN t.set \cup {"inFlight", "nextTick"}
                      ELSE t.set \cup HoldoutSet \cup
                           (IF t.chosen = Ask THEN {"askSent", "status"} ELSE {})
               u == [tick[w] EXCEPT !.sends = TRUE, !.next = next, !.set = set]
    <3>1. tick' = [tick EXCEPT ![w].sends = TRUE, ![w].next = next, ![w].set = set]
      BY <1>3, <2>3 DEF Recipients
    <3>2. next.acts = t.next.acts
      <4> HIDE DEF t
      <4>1. next = [t.next EXCEPT !.nextTick = t.now + Recheck]
        BY DEF Marked
      <4>2. PICK r \in RunRec(Actions) : r = t.next
        BY <1>1
      <4>3. [r EXCEPT !.nextTick = t.now + Recheck].acts = r.acts
        BY DEF RunRec
      <4>4. QED
        BY <4>1, <4>2, <4>3
    <3> HIDE DEF next, set
    <3>3. tick' = [tick EXCEPT ![w] = u]
      BY <1>1, <3>1 DEF TypeInv, Typed
    <3>4. u.run = t.run /\ u.next = next /\ u.chosen = t.chosen
      BY <1>1 DEF TickRec
    <3> HIDE DEF u
    <3>5. Drafts(w, "finish", u)
      BY <1>1, <3>2, <3>4, SameDraft DEF Marking
    <3>6. QED
      BY <2>1, <3>3, <3>5, RenewedActs, GoesTally
  <2>4. QED
    BY <2>2, <2>3
<1>4. QED
  BY <1>2, <1>3

LEMMA TallyReread ==
  ASSUME OwnProcesses, TypeInv, TypeInv', RowBooks, TallyInv, NEW w \in Ticker, Reread(w)
  PROVE  TallyInv'
<1> DEFINE t == tick[w]
<1>1. /\ Typed /\ t \in TickRec(Actions) /\ t.next \in RunRec(Actions)
      /\ pc[w] = "finish" /\ pc[w] \in Unwritten
  BY TickFields DEF TypeInv, Reread, Unwritten
<1>2. CASE LoseLease(w)
  BY <1>2, TallyEnds
<1>3. CASE ~LoseLease(w) /\ CountMoved(w)
  <2>1. /\ pc' = [pc EXCEPT ![w] = "abandon"] /\ UNCHANGED tick
        /\ UNCHANGED <<case, asked, send, stage, counted, run>>
    BY <1>3 DEF Reread, Goto, TickFrame, rows, outside
  <2>2. tick' = [tick EXCEPT ![w] = t]
    BY <1>1, <2>1 DEF Typed
  <2>3. Drafts(w, "abandon", t)
    BY <1>1, SameDraft DEF Marking
  <2>4. QED
    BY <2>1, <2>2, <2>3, GoesTally
<1>4. CASE ~LoseLease(w) /\ ~CountMoved(w)
  <2> DEFINE n == IF "nextTick" \in t.set THEN t.now + 1 ELSE t.next.nextTick
             next == [t.next EXCEPT !.nextTick = n]
             wake == run.wake
             u == [tick[w] EXCEPT !.wake = wake, !.next = next]
  <2>1. /\ UNCHANGED pc /\ UNCHANGED <<case, asked, send, stage, counted, run>>
        /\ tick' = [tick EXCEPT ![w].wake = run.wake,
                      ![w].next.nextTick = IF "nextTick" \in t.set THEN t.now + 1 ELSE @]
    BY <1>4 DEF Reread, TickFrame, rows, outside
  <2>2. tick' = [tick EXCEPT ![w] = u]
    BY <1>1, <2>1 DEF Typed, TickRec
  <2>3. next.acts = t.next.acts
    <3> HIDE DEF n, t
    <3>1. PICK r \in RunRec(Actions) : r = t.next
      BY <1>1
    <3>2. [r EXCEPT !.nextTick = n].acts = r.acts
      BY DEF RunRec
    <3>3. QED
      BY <3>1, <3>2
  <2> HIDE DEF n, next, wake
  <2>4. u.run = t.run /\ u.next = next /\ u.chosen = t.chosen
    BY <1>1 DEF TickRec
  <2> HIDE DEF u
  <2>5. pc' = [pc EXCEPT ![w] = "finish"]
    BY <1>1, <2>1 DEF Typed
  <2>6. Drafts(w, "finish", u)
    BY <1>1, <2>3, <2>4, SameDraft DEF Marking
  <2>7. QED
    BY <2>1, <2>2, <2>5, <2>6, GoesTally
<1>5. QED
  BY <1>2, <1>3, <1>4

LEMMA TallyAbandon ==
  ASSUME OwnProcesses, TypeInv, TypeInv', RowBooks, TallyInv, NEW w \in Ticker,
         Abandon(w) \/ Enqueue(w) \/ RenewForRows(w)
  PROVE  TallyInv'
<1>1. Typed /\ tick[w] \in TickRec(Actions) /\ run \in RunRec(Actions)
  BY TickFields DEF TypeInv, Typed
<1>2. CASE Abandon(w)
  <2>1. /\ pc' = [pc EXCEPT ![w] = "release"] /\ UNCHANGED tick
        /\ UNCHANGED <<case, asked, send, stage, counted>>
    BY <1>2 DEF Abandon, Goto, TickFrame, rows, outside
  <2>2. tick' = [tick EXCEPT ![w] = tick[w]]
    BY <2>1, <1>1 DEF Typed
  <2>3. PICK n : run' = run \/ run' = [run EXCEPT !.nextTick = n]
    BY <1>2 DEF Abandon, SetRun
  <2>4. run'.lease = run.lease /\ run'.acts = run.acts /\ run'.lastCounted = run.lastCounted
    BY <1>1, <2>3 DEF RunRec
  <2>5. Drafts(w, "release", tick[w])
    BY SameDraft DEF Unwritten, Marking
  <2>6. QED
    BY <2>1, <2>2, <2>4, <2>5, GoesTally
<1>3. CASE Enqueue(w)
  <2>1. PICK s, place : /\ tick' = [tick EXCEPT ![w].todo = @ \ {s}]
                        /\ pc' = [pc EXCEPT ![w] = place] /\ place \in {"enqueue", "release"}
    BY <1>3 DEF Enqueue, Goto
  <2>2. UNCHANGED <<case, asked, send, stage, counted, run>>
    BY <1>3 DEF Enqueue, outside
  <2> DEFINE left == tick[w].todo \ {s}
             u == [tick[w] EXCEPT !.todo = left]
  <2>3. tick' = [tick EXCEPT ![w] = u]
    BY <1>1, <2>1 DEF Typed
  <2> HIDE DEF left
  <2>4. u.run = tick[w].run /\ u.next = tick[w].next /\ u.chosen = tick[w].chosen
    BY <1>1 DEF TickRec
  <2> HIDE DEF u
  <2>5. Drafts(w, place, u)
    BY <2>1, <2>4, SameDraft DEF Unwritten, Marking
  <2>6. QED
    BY <2>1, <2>2, <2>3, <2>5, GoesTally
<1>4. CASE RenewForRows(w) /\ LoseLease(w)
  BY <1>4, TallyEnds
<1>5. CASE RenewForRows(w) /\ ~LoseLease(w)
  <2>1. /\ run' = Renewed(w) /\ pc' = [pc EXCEPT ![w] = "insert"] /\ UNCHANGED tick
        /\ UNCHANGED <<case, asked, send, stage, counted>>
    BY <1>5 DEF RenewForRows, SetRun, Goto, TickFrame, rows, outside
  <2>2. tick' = [tick EXCEPT ![w] = tick[w]]
    BY <1>1, <2>1 DEF Typed
  <2>3. Drafts(w, "insert", tick[w])
    BY SameDraft DEF Unwritten, Marking
  <2>4. QED
    BY <2>1, <2>2, <2>3, RenewedActs, GoesTally
<1>6. QED
  BY <1>2, <1>3, <1>4, <1>5

LEMMA TallyMark ==
  ASSUME OwnProcesses, TypeInv, TypeInv', RowBooks, TallyInv, NEW w \in Ticker, ReconcileMark(w)
  PROVE  TallyInv'
<1>1. /\ pc[w] \in {"mark", "markOnly"} /\ counted' = counted \cup {tick[w].row}
      /\ UNCHANGED <<case, asked, send, stage, tick, run>>
  BY DEF ReconcileMark, outside
<1>2. PICK place \in {"schedule", "reconcile"} : pc' = [pc EXCEPT ![w] = place]
  BY DEF ReconcileMark, Goto
<1>3. tick' = [tick EXCEPT ![w] = tick[w]]
  BY <1>1 DEF TypeInv, Typed
<1>4. PICK q : q = tick[w]
  OBVIOUS
<1>5. Told(q.row[1])
  BY <1>1, <1>4 DEF TallyInv, Drafts, Marking
<1>6. KeepActs
  BY <1>1, SameActs
<1>7. RowTally'
  <2>1. \A s \in Row : s \in counted' \/ stage'[s] \in Marking
                         => s \in counted \/ stage[s] \in Marking \/ Told(s[1])
    BY <1>1, <1>4, <1>5
  <2>2. \A s \in Row : send'[s] # "holdout"
    BY <1>1 DEF TallyInv, RowTally, Unheld
  <2>3. QED
    BY <1>1, <1>6, <2>1, <2>2, RowsTally DEF TallyInv
<1>8. Drafts(w, place, q)
  BY <1>1, <1>4, SameDraft DEF Unwritten, Marking
<1>9. Drafts(w, place, q)'
  <2>1. Draft(q)' /\ Actions' = Actions /\ (Owns(w)' => Owns(w))
    BY <1>1, <1>8, DraftStays DEF Drafts, Actions, P, Owns
  <2>2. \A a : Level(a, q) => Level(a, q)'
    BY <1>1, <1>6, LevelStays
  <2>3. QED
    BY <1>1, <1>8, <2>1, <2>2 DEF Drafts, Told
<1>10. QED
  BY <1>1, <1>2, <1>3, <1>4, <1>6, <1>7, <1>9, TickTally

\* The dates of the actions, and states that the run did not have: fresh ones, as
\* no copy has what the run has not.
LEMMA TallySettle ==
  ASSUME OwnProcesses, TypeInv, TypeInv', RowBooks, TallyInv, NEW w \in Ticker, settleActionDates(w)
  PROVE  TallyInv'
<1> DEFINE t == tick[w]
           D == DOMAIN run.acts \cup DOMAIN t.next.acts
           acts == [a \in D |-> Dated(t, a)]
<1>1. /\ Typed /\ run \in RunRec(Actions) /\ run.acts \in ActsOver(Actions)
      /\ t.next.acts \in ActsOver(Actions) /\ Drafts(w, pc[w], t) /\ pc[w] = "settle"
  BY TickFields, RunFields DEF TypeInv, Typed, TallyInv, settleActionDates
<1>2. /\ run' = [run EXCEPT !.acts = acts]
      /\ UNCHANGED <<case, asked, send, stage, counted, tick>>
  BY DEF settleActionDates, SetRun, TickFrame, rows, outside
<1>3. PICK place \in {"renew", "release"} : pc' = [pc EXCEPT ![w] = place]
  BY DEF settleActionDates, Goto
<1>4. ASSUME NEW a \in D
      PROVE  Alike(Stored(run.acts, a), acts[a])
             /\ (acts[a].status = "cooldown" => Stored(run.acts, a).status = "cooldown")
  <2>1. acts[a] = Dated(t, a)
    OBVIOUS
  <2> HIDE DEF acts
  <2>2. CASE a \in DOMAIN run.acts
    <3>1. PICK st \in ActState : st = run.acts[a]
      BY <1>1, <2>2 DEF ActsOver
    <3>2. PICK n : Dated(t, a) \in {st, [st EXCEPT !.completedAt = n, !.status = "satisfied"]}
      BY <2>2, <3>1 DEF Dated
    <3>3. [st EXCEPT !.completedAt = n, !.status = "satisfied"].attempts = st.attempts
          /\ [st EXCEPT !.completedAt = n, !.status = "satisfied"].ladder = st.ladder
          /\ [st EXCEPT !.completedAt = n, !.status = "satisfied"].status = "satisfied"
      BY DEF ActState
    <3>4. QED
      BY <2>1, <2>2, <3>1, <3>2, <3>3 DEF Alike, Stored
  <2>3. CASE a \notin DOMAIN run.acts
    <3>1. a \in DOMAIN t.next.acts /\ a \in Actions /\ a \notin DOMAIN t.run.acts
      BY <1>1, <2>3 DEF Drafts, ActsOver
    <3>2. Follows(a, freshActionState, t.next.acts[a])
      BY <1>1, <3>1 DEF Drafts, Draft, Stored
    <3>3. Alike(freshActionState, t.next.acts[a]) /\ t.next.acts[a].status # "cooldown"
      BY <1>1, <3>1, <3>2, FreshFollowed
    <3>4. QED
      BY <2>1, <2>3, <3>3 DEF Dated, Stored
  <2>4. QED
    BY <2>2, <2>3
<1>5. DOMAIN acts = D
  OBVIOUS
<1> HIDE DEF acts
<1>6. run'.acts = acts /\ run'.lastCounted = run.lastCounted /\ run'.lease = run.lease
  BY <1>1, <1>2 DEF RunRec
<1>7. KeepActs
  BY <1>4, <1>5, <1>6 DEF KeepActs
<1>8. RowTally'
  <2>1. \A s \in Row : send'[s] # "holdout"
    BY <1>2 DEF TallyInv, RowTally, Unheld
  <2>2. QED
    BY <1>2, <1>6, <1>7, <2>1, RowsTally DEF TallyInv
<1>9. PICK q : q = tick[w]
  OBVIOUS
<1>10. tick' = [tick EXCEPT ![w] = q]
  BY <1>1, <1>2, <1>9 DEF Typed
<1>11. Drafts(w, place, q)'
  <2>1. place \notin Unwritten \cup Marking \cup {"resolve", "decide"}
    BY DEF Unwritten, Marking
  <2>2. Draft(q)'
    BY <1>1, <1>2, <1>9, DraftStays DEF Drafts
  <2>3. DOMAIN q.run.acts \subseteq DOMAIN run'.acts
    BY <1>1, <1>5, <1>6, <1>9 DEF Drafts
  <2>4. QED
    BY <2>1, <2>2, <2>3 DEF Drafts
<1>12. QED
  BY <1>2, <1>3, <1>6, <1>7, <1>8, <1>10, <1>11, TickTally

LEMMA TallyInsert ==
  ASSUME OwnProcesses, TypeInv, TypeInv', RowBooks, FlightInv, TallyInv, case.arm = "treatment",
         NEW w \in Ticker, InsertRows(w)
  PROVE  TallyInv'
<1> DEFINE new == tick[w].todo
<1>1. new \subseteq Row /\ pc[w] = "insert" /\ Pending(w) /\ Deciding(w)
  BY TickFields DEF TypeInv, InsertRows, FlightInv, Ticking, Deciding
<1>2. /\ send' = [s \in Row |-> IF s \notin new THEN send[s] ELSE "queued"]
      /\ counted' = counted /\ pc' = [pc EXCEPT ![w] = "enqueue"]
      /\ UNCHANGED <<case, run, asked, tick, stage>>
  BY DEF InsertRows, Goto, outside
<1>3. \A s \in new : send[s] = "none"
  BY <1>1 DEF Pending
<1>4. KeepActs
  BY <1>2, SameActs
<1>5. RowTally'
  <2>1. \A s \in Row : /\ send[s] = "sent" => send'[s] = "sent"
                       /\ send'[s] = "sent" => send[s] = "sent"
                       /\ send[s] # "holdout" => send'[s] # "holdout"
    BY <1>2, <1>3
  <2>2. \A s \in Row : send'[s] # "holdout"
    BY <2>1 DEF TallyInv, RowTally, Unheld
  <2>3. QED
    BY <1>2, <1>4, <2>1, <2>2, RowsTally DEF TallyInv
<1>6. PICK q : q = tick[w]
  OBVIOUS
<1>7. tick' = [tick EXCEPT ![w] = q]
  BY <1>2, <1>6 DEF TypeInv, Typed
<1>8. Drafts(w, "enqueue", q)'
  <2>1. "enqueue" \notin Unwritten \cup Marking \cup {"resolve", "decide"}
    BY DEF Unwritten, Marking
  <2>2. Drafts(w, pc[w], q)
    BY <1>6 DEF TallyInv
  <2>3. QED
    BY <1>2, <2>1, <2>2, DraftStays DEF Drafts
<1>9. QED
  BY <1>2, <1>4, <1>5, <1>7, <1>8, TickTally

-----------------------------------------------------------------------------
(* The dispatch, its hooks and the world, and the counts.                  *)

LEMMA HookTally ==
  ASSUME TypeInv, TypeInv', TallyInv, UNCHANGED <<case, asked, pc, tick>>, RowTally', KeepActs,
         run'.lastCounted = run.lastCounted, run'.lease = run.lease
  PROVE  TallyInv'
<1>1. \A d \in Decision : Told(d) => Told(d)'
  BY DEF Told
<1>2. ASSUME NEW v \in Ticker PROVE Drafts(v, pc[v], tick[v])'
  <2>1. PICK q : q = tick[v]
    OBVIOUS
  <2>2. \A a \in Actions : Level(a, q) => Level(a, q)'
    BY LevelStays
  <2>3. \A a \in Actions : Level(a, tick[v]) => Level(a, tick[v])'
    BY <2>1, <2>2 DEF Level
  <2>4. Drafts(v, pc[v], tick[v])
    BY DEF TallyInv
  <2>5. QED
    BY <1>1, <2>3, <2>4, DraftsWait DEF KeepActs, Owns
<1>3. QED
  BY <1>2 DEF TallyInv

\* A row in flight that changes its status; it may be accepted.
LEMMA RowTallies ==
  ASSUME TypeInv, TypeInv', RowBooks, TallyInv, UNCHANGED <<case, asked, pc, tick, run, counted>>,
         NEW s \in Row, InF(s), NEW st, SetSend(s, st), st # "holdout", NEW place,
         UNCHANGED stage \/ stage' = [stage EXCEPT ![s] = place], place \notin Marking
  PROVE  TallyInv'
<1>1. stage \in [Row -> Stages] /\ send \in [Row -> RowStatus]
  BY DEF TypeInv, Typed
<1>2. \A u \in Row : /\ send'[u] = IF u = s THEN st ELSE send[u]
                     /\ stage'[u] = stage[u] \/ (u = s /\ stage'[u] = place)
  BY <1>1 DEF SetSend
<1>3. send[s] # "sent" /\ s[1] = Len(asked)
  BY DEF InF, sendIsInFlight, InFlight, RowBooks, Newest
<1>4. KeepActs
  BY SameActs
<1>5. RowTally'
  <2>1. \A u \in Row : /\ send[u] = "sent" => send'[u] = "sent"
                       /\ send'[u] = "sent" => send[u] = "sent" \/ u[1] = Len(asked)
    BY <1>2, <1>3
  <2>2. \A u \in Row : send'[u] # "holdout"
    BY <1>2 DEF TallyInv, RowTally, Unheld
  <2>3. \A u \in Row : u \in counted' \/ stage'[u] \in Marking => u \in counted \/ stage[u] \in Marking
    BY <1>2
  <2>4. QED
    BY <1>4, <2>1, <2>2, <2>3, RowsTally DEF TallyInv
<1>6. QED
  BY <1>4, <1>5, HookTally

LEMMA TallyRow ==
  ASSUME TypeInv, TypeInv', RowBooks, TallyInv, Working, NEW s \in Row,
         CancelRow(s) \/ Accepted(s) \/ Refused(s) \/ Sweep(s)
  PROVE  TallyInv'
<1>1. send[s] = "sending"
  BY DEF Working, CancelRow, Accepted, Refused, Sweep
<1>2. UNCHANGED <<case, asked, pc, tick, run, counted>>
  BY DEF CancelRow, Accepted, Refused, Sweep, DispatchFrame, outside
<1>3. InF(s)
  BY <1>1 DEF InF, sendIsInFlight, InFlight
<1>4. PICK st, place :
        /\ SetSend(s, st) /\ (UNCHANGED stage \/ stage' = [stage EXCEPT ![s] = place])
        /\ st # "holdout" /\ place \notin Marking
  <2>1. CASE CancelRow(s) \/ Accepted(s)
    BY <2>1 DEF CancelRow, Accepted, Step, Marking
  <2>2. CASE Refused(s)
    BY <2>2 DEF Refused, Step, Marking
  <2>3. CASE Sweep(s)
    <3>1. SetSend(s, "queued") /\ UNCHANGED stage
      BY <2>3 DEF Sweep
    <3>2. "none" \notin Marking
      BY DEF Marking
    <3>3. QED
      BY <3>1, <3>2
  <2>4. QED
    BY <2>1, <2>2, <2>3
<1>5. QED
  BY <1>2, <1>3, <1>4, RowTallies

LEMMA TallyClaim ==
  ASSUME TypeInv, TypeInv', RowBooks, TallyInv, Calm', NEW s \in Row, Claim(s) PROVE TallyInv'
<1>1. /\ UNCHANGED <<case, asked, pc, tick, run, counted>>
      /\ ~(send[s] = "failed" /\ clock - touched[s] >= Recheck)
  BY DEF Claim, outside, Calm
<1>2. CASE send[s] \in {"queued", "failed", "deferred"}
  <2>1. clock - touched[s] \in Int /\ Recheck \in Nat
    BY Numbers DEF TypeInv, Typed
  <2>2. InF(s)
    BY <1>1, <1>2, <2>1 DEF InF, sendIsInFlight, InFlight
  <2>3. SetSend(s, "sending") /\ stage' = [stage EXCEPT ![s] = "guard"]
    BY <1>2 DEF Claim, Step
  <2>4. "guard" \notin Marking
    BY DEF Marking
  <2>5. QED
    BY <1>1, <2>2, <2>3, <2>4, RowTallies
<1>3. CASE send[s] \notin {"queued", "failed", "deferred"}
  <2>1. UNCHANGED <<send, stage>>
    BY <1>3 DEF Claim
  <2>2. RowTally' /\ KeepActs
    BY <1>1, <2>1, StillTally DEF TallyInv
  <2>3. QED
    BY <1>1, <2>2, HookTally
<1>4. QED
  BY <1>2, <1>3

\* A hook that leaves the rows' status and the count alone.
LEMMA StageTally ==
  ASSUME TypeInv, TypeInv', RowBooks, TallyInv, UNCHANGED <<case, asked, pc, tick, send>>,
         NEW s \in Row, NEW place, stage' = [stage EXCEPT ![s] = place],
         counted' = counted \/ counted' = counted \cup {s},
         counted' # counted \/ place \in Marking => Told(s[1]),
         KeepActs, run'.lastCounted = run.lastCounted, run'.lease = run.lease
  PROVE  TallyInv'
<1>1. stage \in [Row -> Stages]
  BY DEF TypeInv, Typed
<1>2. \A u \in Row : stage'[u] = IF u = s THEN place ELSE stage[u]
  BY <1>1
<1>3. PICK d : d = s[1]
  OBVIOUS
<1>4. counted' # counted \/ place \in Marking => Told(d)
  BY <1>3
<1>5. \A u \in Row : u \in counted' \/ stage'[u] \in Marking
          => u \in counted \/ stage[u] \in Marking \/ Told(u[1])
  BY <1>2, <1>3, <1>4
<1>6. \A u \in Row : send'[u] # "holdout"
  BY DEF TallyInv, RowTally, Unheld
<1>7. RowTally'
  BY <1>5, <1>6, RowsTally DEF TallyInv
<1>8. QED
  BY <1>7, HookTally

\* The hooks of the dispatch and its reads of the run.
LEMMA TallyHooks ==
  ASSUME TypeInv, TypeInv', RowBooks, TallyInv, NEW s \in Row,
         \/ Guard(s) \/ GuardFacts(s) \/ GuardDone(s) \/ DeferHook(s) \/ ScheduleHook(s)
         \/ clearInFlightIfSettled(s) \/ DispatchDies(s)
  PROVE  TallyInv'
<1>1. Typed /\ run \in RunRec(Actions) /\ run.acts \in ActsOver(Actions)
  BY RunFields DEF TypeInv, Typed
<1>2. /\ UNCHANGED <<case, asked, pc, tick, send, counted>>
      /\ \/ Step(s, "none") \/ Step(s, "cancel") \/ Step(s, "accept") \/ Step(s, "done")
         \/ Step(s, "facts") \/ Step(s, "settle")
  <2>1. CASE Guard(s)
    BY <2>1 DEF Guard, Verdict, HookFrame, outside
  <2>2. CASE GuardFacts(s)
    BY <2>2 DEF GuardFacts, Verdict, HookFrame, outside
  <2>3. CASE GuardDone(s)
    BY <2>3 DEF GuardDone, HookFrame, outside
  <2>4. CASE DeferHook(s) \/ ScheduleHook(s)
    BY <2>4 DEF DeferHook, ScheduleHook, HookFrame, outside
  <2>5. CASE clearInFlightIfSettled(s)
    BY <2>5 DEF clearInFlightIfSettled, HookFrame, outside
  <2>6. CASE DispatchDies(s)
    BY <2>6 DEF DispatchDies, DispatchFrame, outside
  <2>7. QED
    BY <2>1, <2>2, <2>3, <2>4, <2>5, <2>6
<1>3. run'.lastCounted = run.lastCounted /\ run'.lease = run.lease /\ KeepActs
  <2>1. CASE run'.acts = run.acts /\ run'.lastCounted = run.lastCounted /\ run'.lease = run.lease
    BY <2>1, SameActs
  <2>2. CASE Guard(s) \/ GuardFacts(s) \/ DispatchDies(s)
    <3>1. run' = run
      BY <2>2 DEF Guard, GuardFacts, DispatchDies, Verdict, DispatchFrame
    <3>2. QED
      BY <2>1, <3>1
  <2>3. CASE DeferHook(s) \/ ScheduleHook(s)
    <3>1. PICK n : run' = run \/ run' = [run EXCEPT !.nextTick = n]
      BY <2>3 DEF DeferHook, ScheduleHook, Scheduled, SetRun
    <3>2. run'.acts = run.acts /\ run'.lastCounted = run.lastCounted /\ run'.lease = run.lease
      BY <1>1, <3>1 DEF RunRec
    <3>3. QED
      BY <2>1, <3>2
  <2>4. CASE clearInFlightIfSettled(s)
    <3>1. run' = run \/ run' = [run EXCEPT !.inFlight = NoDecision]
      BY <2>4 DEF clearInFlightIfSettled, SetRun
    <3>2. run'.acts = run.acts /\ run'.lastCounted = run.lastCounted /\ run'.lease = run.lease
      BY <1>1, <3>1 DEF RunRec
    <3>3. QED
      BY <2>1, <3>2
  <2>5. CASE GuardDone(s)
    <3> DEFINE a == ActionOf(s)
               st == Stored(run.acts, a)
               st2 == [st EXCEPT !.completedAt = clock, !.status = "satisfied"]
               acts == [b \in DOMAIN run.acts \cup {a} |-> IF b = a THEN st2 ELSE run.acts[b]]
    <3>1. run' = run \/ run' = [run EXCEPT !.acts = acts]
      BY <2>5 DEF GuardDone, SetRun
    <3>2. st \in ActState
      BY <1>1, StoredTyped
    <3>3. Alike(st, st2) /\ st2.status = "satisfied"
      <4> HIDE DEF st
      <4>1. QED
        BY <3>2 DEF ActState, Alike
    <3> HIDE DEF st2
    <3>4. /\ DOMAIN acts = DOMAIN run.acts \cup {a}
          /\ \A b \in DOMAIN acts : acts[b] = IF b = a THEN st2 ELSE run.acts[b]
      OBVIOUS
    <3> HIDE DEF acts
    <3>5. CASE run' = run
      BY <2>1, <3>5
    <3>6. CASE run' = [run EXCEPT !.acts = acts]
      <4>1. run'.acts = acts /\ run'.lastCounted = run.lastCounted /\ run'.lease = run.lease
        BY <1>1, <3>6 DEF RunRec
      <4>2. ASSUME NEW b \in DOMAIN acts
            PROVE  Alike(Stored(run.acts, b), acts[b])
                   /\ (acts[b].status = "cooldown" => Stored(run.acts, b).status = "cooldown")
        <5>1. CASE b = a
          BY <3>3, <3>4, <5>1
        <5>2. CASE b # a
          BY <3>4, <5>2 DEF Alike, Stored
        <5>3. QED
          BY <5>1, <5>2
      <4>3. QED
        BY <3>4, <4>1, <4>2 DEF KeepActs
    <3>7. QED
      BY <3>1, <3>5, <3>6
  <2>6. QED
    BY <2>2, <2>3, <2>4, <2>5
<1>4. PICK place \in {"none", "cancel", "accept", "done", "facts", "settle"} :
        stage' = [stage EXCEPT ![s] = place]
  BY <1>2 DEF Step
<1>5. place \notin Marking
  BY DEF Marking
<1>6. QED
  BY <1>2, <1>3, <1>4, <1>5, StageTally

LEMMA TallyFlag ==
  ASSUME TypeInv, TypeInv', RowBooks, TallyInv, NEW s \in Row, MarkHook(s) PROVE TallyInv'
<1>1. /\ UNCHANGED <<case, asked, pc, tick, send, run>> /\ stage[s] \in Marking
      /\ counted' = counted \cup {s}
  BY DEF MarkHook, HookFrame, outside, Marking
<1>2. PICK place \in {"schedule", "settle"} : stage' = [stage EXCEPT ![s] = place]
  BY DEF MarkHook, Step
<1>3. Told(s[1])
  BY <1>1 DEF TallyInv, RowTally, Flagged
<1>4. KeepActs
  BY <1>1, SameActs
<1>5. QED
  BY <1>1, <1>2, <1>3, <1>4, StageTally

LEMMA TallyWorld ==
  ASSUME TypeInv, TypeInv', RowBooks, TallyInv, Operators \/ Pass \/ Slow \/ UNCHANGED vars
  PROVE  TallyInv'
<1>1. run \in RunRec(Actions)
  BY DEF TypeInv, Typed
<1>2. UNCHANGED <<case, asked, pc, tick, stage, counted>> /\ (UNCHANGED send \/ CancelRows)
  BY DEF Operators, Abort, SetEnabled, FireExit, FactsChange, Click, Wake, World, rows,
         CancelForOperator, Pass, Slow, vars, outside
<1>3. run'.acts = run.acts /\ run'.lastCounted = run.lastCounted /\ run'.lease = run.lease
  <2>1. CASE Abort
    <3>1. run' = [run EXCEPT !.status = "exited", !.inFlight = NoDecision]
      BY <2>1 DEF Abort, SetRun
    <3>2. QED
      BY <1>1, <3>1 DEF RunRec
  <2>2. CASE Wake
    <3>1. PICK n, k : run' = run \/ run' = [run EXCEPT !.nextTick = n, !.wake = k]
      BY <2>2 DEF Wake, SetRun
    <3>2. QED
      BY <1>1, <3>1 DEF RunRec
  <2>3. CASE ~Abort /\ ~Wake
    BY <2>3 DEF Operators, SetEnabled, FireExit, FactsChange, Click, CancelForOperator, Pass, Slow, vars
  <2>4. QED
    BY <2>1, <2>2, <2>3
<1>4. KeepActs
  BY <1>3, SameActs
<1>5. RowTally'
  <2>1. \A s \in Row : /\ send[s] = "sent" => send'[s] = "sent"
                       /\ send'[s] = "sent" => send[s] = "sent"
                       /\ send[s] # "holdout" => send'[s] # "holdout"
    BY <1>2 DEF CancelRows, Cancelled
  <2>2. \A s \in Row : send'[s] # "holdout"
    BY <2>1 DEF TallyInv, RowTally, Unheld
  <2>3. QED
    BY <1>2, <1>3, <1>4, <2>1, <2>2, RowsTally DEF TallyInv
<1>6. QED
  BY <1>2, <1>3, <1>4, <1>5, HookTally

-----------------------------------------------------------------------------
(* The count.                                                              *)

LEMMA CountActs ==
  ASSUME Typed, NEW s \in Row, s[1] <= Len(asked), run.lastCounted # s[1]
  PROVE  LET a == asked[s[1]].action  q == Counted(s) IN
         /\ a = Ask => q.acts = run.acts
         /\ a # Ask => /\ DOMAIN q.acts = DOMAIN run.acts \cup {a}
                       /\ q.acts[a].attempts = Stored(run.acts, a).attempts + 1
                       /\ q.acts[a].ladder = Stored(run.acts, a).ladder
                       /\ q.acts[a].status = Stored(run.acts, a).status
                       /\ \A b \in DOMAIN q.acts : b # a => q.acts[b] = run.acts[b]
<1> DEFINE d == s[1]
           a == asked[d].action
           due == a = Ask /\ AskDue(d)
           n == run.unanswered + 1
           l == LargerOf({run.lastSent, touched[s]})
           stg == IF due THEN 2 ELSE sunsetStageFor(P, n)
           st == Stored(run.acts, a)
           more == [st EXCEPT !.attempts = @ + 1]
           acts == [b \in DOMAIN run.acts \cup {a} |-> IF b = a THEN more ELSE run.acts[b]]
           r == [run EXCEPT !.lastCounted = d, !.unanswered = n, !.lastSent = l,
                            !.stage = stg, !.askSent = @ \/ due,
                            !.status = IF due THEN "sunset" ELSE @]
           q == [r EXCEPT !.acts = acts]
<1>1. run \in RunRec(Actions) /\ run.acts \in ActsOver(Actions)
  BY RunFields DEF Typed
<1>2. Counted(s) = IF a = Ask THEN r ELSE q
  BY DEF Counted, CountAt
<1>3. st \in ActState
  BY <1>1, StoredTyped
<1> HIDE DEF st
<1>4. more.attempts = st.attempts + 1 /\ more.ladder = st.ladder /\ more.status = st.status
  BY <1>3 DEF ActState
<1> HIDE DEF more, a
<1>5. /\ DOMAIN acts = DOMAIN run.acts \cup {a} /\ acts[a] = more
      /\ \A b \in DOMAIN acts : b # a => acts[b] = run.acts[b]
  OBVIOUS
<1> HIDE DEF d, due, n, l, stg, acts
<1>6. r.acts = run.acts /\ "acts" \in DOMAIN r
  BY <1>1 DEF RunRec
<1> HIDE DEF r
<1>7. q.acts = acts
  BY <1>6
<1> HIDE DEF q
<1>8. QED
  BY <1>2, <1>4, <1>5, <1>6, <1>7 DEF a, d, st

\* Accepted mail of the newest decision is counted: its action has room for it,
\* and a copy that was as things were is one that had room too.
LEMMA CountTally ==
  ASSUME TypeInv, TypeInv', RowBooks, RowTally, NEW s \in Row, send[s] = "sent", s[1] = Len(asked),
         run' = Counted(s), UNCHANGED <<case, asked, send>>,
         \A u \in Row : u \in counted' \/ stage'[u] \in Marking
                          => u \in counted \/ stage[u] \in Marking \/ u[1] = s[1]
  PROVE  /\ RowTally' /\ Told(s[1])'
         /\ DOMAIN run.acts \subseteq DOMAIN run'.acts
         /\ \A d \in Decision : Told(d) => Told(d)'
         /\ \A t : t.run.lastCounted \in Nat /\ t.run.lastCounted <= run.lastCounted
                     => \A a \in Actions : Level(a, t) => Level(a, t)'
<1> DEFINE n == s[1]
           c == asked[n].action
<1>1. /\ Typed /\ n \in 1..Len(asked) /\ n = Len(asked) /\ c \in Actions \cup {Ask} /\ Ask \notin Actions
      /\ run.acts \in ActsOver(Actions) /\ run.lastCounted \in Decision \cup {NoDecision}
      /\ n \in Nat /\ n > 0 /\ s[1] <= Len(asked)
  BY AskedTyped, TheProgram, RunFields DEF TypeInv, Typed
<1>2. Row' = Row /\ Actions' = Actions /\ \A a : Ladder(a)' = Ladder(a)
  BY DEF Row, Decision, Actions, P, Ladder
<1>3. run'.lastCounted = n
  BY <1>1, CountTyped
<1>4. run.lastCounted \in Nat /\ run.lastCounted <= n
  <2>1. run.lastCounted \in Nat
    BY <1>1, Numbers DEF Decision, NoDecision
  <2>2. CASE run.lastCounted = NoDecision
    BY <1>1, <2>2 DEF NoDecision
  <2>3. CASE run.lastCounted # NoDecision
    <3>1. PICK u \in Row : u[1] = run.lastCounted /\ send[u] = "sent"
      BY <2>3 DEF RowBooks, Booked, OnBooks
    <3>2. QED
      BY <1>1, <2>1, <3>1 DEF TypeInv, Named
  <2>4. QED
    BY <2>1, <2>2, <2>3
<1>5. Told(n)'
  BY <1>3 DEF Told
<1>6. \A d : Told(d) => Told(d)'
  BY <1>1, <1>3, <1>4 DEF Told
<1>7. Flagged'
  <2>1. \A u \in Row : (u \in counted \/ stage[u] \in Marking => Told(u[1]))'
    <3> SUFFICES ASSUME NEW u \in Row, u \in counted' \/ stage'[u] \in Marking PROVE Told(u[1])'
      OBVIOUS
    <3>1. PICK d : d = u[1]
      OBVIOUS
    <3>2. Told(d) \/ d = n
      BY <3>1 DEF RowTally, Flagged
    <3>3. Told(d)'
      BY <1>5, <1>6, <3>2
    <3>4. QED
      BY <3>1, <3>3
  <2>2. QED
    BY <1>2, <2>1 DEF Flagged
<1>8. Unheld'
  BY <1>2 DEF RowTally, Unheld
<1>9. Room'
  BY <1>3, <1>1 DEF Room
<1>10. \A a : Sent(a)' = Sent(a)
  BY <1>2 DEF Sent
<1>11. \A d \in 1..n : Told(d)' /\ (Told(d) <=> d < n \/ run.lastCounted = d)
  BY <1>1, <1>3 DEF Told
<1>12. CASE run.lastCounted = n
  <2>1. run' = run
    BY <1>1, <1>12, CountTyped
  <2>2. Fitting(run.acts)'
    BY <1>2, <2>1 DEF RowTally, Fitting, Fits
  <2>3. \A a : Tallied(a)' = Tallied(a)
    BY <1>10, <2>1 DEF Tallied, Told
  <2>4. Tally'
    BY <1>2, <2>1, <2>3 DEF RowTally, Tally, Worth
  <2>5. \A t : \A a \in Actions : Level(a, t) => Level(a, t)'
    BY <1>2, <2>1 DEF Level
  <2>6. QED
    BY <1>5, <1>6, <1>7, <1>8, <1>9, <2>1, <2>2, <2>4, <2>5 DEF RowTally
<1>13. CASE run.lastCounted # n
  <2>1. /\ c = Ask => run'.acts = run.acts
        /\ c # Ask => /\ DOMAIN run'.acts = DOMAIN run.acts \cup {c}
                      /\ run'.acts[c].attempts = Stored(run.acts, c).attempts + 1
                      /\ run'.acts[c].ladder = Stored(run.acts, c).ladder
                      /\ run'.acts[c].status = Stored(run.acts, c).status
                      /\ \A b \in DOMAIN run'.acts : b # c => run'.acts[b] = run.acts[b]
    BY <1>1, <1>13, CountActs
  <2>2. c # Ask => Stored(run.acts, c).attempts < Ladder(c)
    BY <1>1, <1>13 DEF RowTally, Room
  <2>3. \A a \in Actions : /\ a # c => Stored(run'.acts, a) = Stored(run.acts, a)
                           /\ a = c => Stored(run'.acts, a) = run'.acts[a]
    BY <1>1, <2>1 DEF Stored
  <2>4. \A a : /\ Stored(run.acts, a).attempts \in Nat /\ Stored(run.acts, a).ladder \in Nat
               /\ a \in Actions => Ladder(a) \in Nat
    <3>1. ASSUME NEW a PROVE Stored(run.acts, a) \in ActState
      BY <1>1, StoredTyped
    <3>2. \A a \in Actions : Ladder(a) \in Nat
      BY <1>1, LadderNat
    <3>3. QED
      BY <3>1, <3>2 DEF ActState
  <2> HIDE DEF c, n
  <2>5. Fitting(run.acts)'
    <3>1. ASSUME NEW a \in DOMAIN run'.acts
          PROVE  /\ run'.acts[a].attempts <= Ladder(a)
                 /\ run'.acts[a].status = "cooldown" => run'.acts[a].attempts = Ladder(a)
      <4>1. CASE a \in DOMAIN run.acts /\ (a # c \/ c = Ask)
        <5>1. run'.acts[a] = run.acts[a]
          BY <2>1, <4>1
        <5>2. QED
          BY <4>1, <5>1 DEF RowTally, Fitting, Fits
      <4>2. CASE c # Ask /\ a = c
        <5>1. Stored(run.acts, c).status # "cooldown"
          <6>1. CASE c \in DOMAIN run.acts
            <7>1. Fits(c, Stored(run.acts, c))
              BY <6>1 DEF RowTally, Fitting, Stored
            <7>2. Ladder(c) \in Nat
              BY <1>1, <2>4, <4>2
            <7>3. QED
              BY <2>2, <2>4, <4>2, <7>1, <7>2 DEF Fits
          <6>2. CASE c \notin DOMAIN run.acts
            BY <6>2 DEF Stored, freshActionState
          <6>3. QED
            BY <6>1, <6>2
        <5>2. Ladder(c) \in Nat
          BY <1>1, <2>4, <4>2
        <5>3. QED
          BY <2>1, <2>2, <2>4, <4>2, <5>1, <5>2
      <4>3. QED
        BY <2>1, <4>1, <4>2
    <3>2. QED
      BY <1>2, <3>1 DEF Fitting, Fits
  <2>6. ASSUME NEW a \in Actions PROVE (Worth(a, Stored(run.acts, a)) = Cardinality(Tallied(a)))'
    <3>1. Worth(a, Stored(run.acts, a)) = Cardinality(Tallied(a))
      BY DEF RowTally, Tally
    <3>2. Sent(a) \subseteq 1..n /\ IsFiniteSet(Tallied(a))
      BY <1>1, SentRows DEF Sent, n
    <3>3. Tallied(a)' = Sent(a)
      BY <1>10, <1>11, <3>2 DEF Tallied
    <3>4. n \notin Tallied(a)
      BY <1>1, <1>11, <1>13 DEF Tallied, Told
    <3>5. CASE a # c
      <4>1. n \notin Sent(a)
        BY <3>5 DEF Sent, c
      <4>2. Sent(a) = Tallied(a)
        BY <1>1, <1>11, <3>2, <4>1 DEF Tallied
      <4>3. Worth(a, Stored(run.acts, a))' = Worth(a, Stored(run.acts, a))
        BY <1>2, <2>3, <3>5 DEF Worth
      <4>4. QED
        BY <3>1, <3>3, <4>2, <4>3
    <3>6. CASE a = c
      <4>1. n \in Sent(a)
        BY <1>1, <3>6 DEF Sent, c, n
      <4>2. Sent(a) = Tallied(a) \cup {n}
        BY <1>1, <1>11, <3>2, <4>1 DEF Tallied
      <4>3. Cardinality(Tallied(a)') = Cardinality(Tallied(a)) + 1
        BY <3>2, <3>3, <3>4, <4>2, FS_AddElement
      <4>4. /\ Stored(run'.acts, a).attempts = Stored(run.acts, a).attempts + 1
            /\ Stored(run'.acts, a).ladder = Stored(run.acts, a).ladder
        BY <1>1, <2>1, <2>3, <3>6
      <4>5. PICK old : old = Stored(run.acts, a)
        OBVIOUS
      <4>6. PICK new : new = Stored(run'.acts, a)
        OBVIOUS
      <4>7. Worth(a, new) = Worth(a, old) + 1
        <5>1. old.attempts \in Nat /\ old.ladder \in Nat /\ Ladder(a) \in Nat
          BY <2>4, <4>5
        <5>2. PICK x \in Int : x = (old.ladder - 1) * Ladder(a)
          BY <5>1
        <5>3. QED
          BY <4>4, <4>5, <4>6, <5>1, <5>2 DEF Worth
      <4>8. Worth(a, Stored(run.acts, a))' = Worth(a, new)
        BY <1>2, <4>6 DEF Worth
      <4>9. QED
        BY <3>1, <4>3, <4>5, <4>7, <4>8
    <3>7. QED
      BY <3>5, <3>6
  <2>7. Tally'
    BY <1>2, <2>6 DEF Tally
  <2>8. ASSUME NEW t, t.run.lastCounted \in Nat, t.run.lastCounted <= run.lastCounted,
               NEW a \in Actions, Level(a, t)
        PROVE  Level(a, t)'
    <3>1. run'.lastCounted # t.run.lastCounted
      BY <1>1, <1>3, <1>4, <1>13, <2>8 DEF n
    <3>2. CASE a # c
      BY <1>2, <2>3, <2>8, <3>1, <3>2 DEF Level
    <3>3. CASE a = c
      <4>1. Stored(t.run.acts, a).attempts < Ladder(a)
        BY <1>1, <2>2, <2>8, <3>3 DEF Level, Alike
      <4>2. QED
        BY <1>2, <3>1, <4>1 DEF Level
    <3>4. QED
      BY <3>2, <3>3
  <2>9. DOMAIN run.acts \subseteq DOMAIN run'.acts
    BY <2>1
  <2>10. QED
    BY <1>5, <1>6, <1>7, <1>8, <1>9, <2>5, <2>7, <2>8, <2>9 DEF RowTally, n
<1>14. QED
  BY <1>12, <1>13

\* The other ticks, while accepted mail is counted.
LEMMA CountWaits ==
  ASSUME TypeInv, TypeInv', BookInv, NEW v \in Ticker, Drafts(v, pc[v], tick[v]),
         pc'[v] = pc[v], tick'[v] = tick[v], UNCHANGED case, Owns(v)' => Owns(v),
         DOMAIN run.acts \subseteq DOMAIN run'.acts,
         \A d \in Decision : Told(d) => Told(d)',
         \A t : t.run.lastCounted \in Nat /\ t.run.lastCounted <= run.lastCounted
                     => \A a \in Actions : Level(a, t) => Level(a, t)'
  PROVE  Drafts(v, pc[v], tick[v])'
<1>1. PICK q : q = tick[v]
  OBVIOUS
<1>2. q.run.lastCounted \in Nat
  <2>1. q.run.lastCounted \in Decision \cup {NoDecision}
    BY <1>1, TickFields, RunFields DEF TypeInv
  <2>2. QED
    BY <2>1, Numbers DEF Decision, NoDecision
<1>3. Owns(v) /\ pc[v] \in Unwritten => q.run.lastCounted <= run.lastCounted
  <2>1. pc[v] \in Unwritten => pc[v] \notin Early
    BY DEF Unwritten, Early, Marking
  <2>2. QED
    BY <1>1, <2>1 DEF BookInv, Books, Abreast
<1>4. Owns(v) /\ pc[v] \in Unwritten => \A a \in Actions : Level(a, q) => Level(a, q)'
  BY <1>2, <1>3
<1>5. Owns(v) /\ pc[v] \in Unwritten => \A a \in Actions : Level(a, tick[v]) => Level(a, tick[v])'
  BY <1>1, <1>4 DEF Level
<1>6. QED
  BY <1>5, DraftsWait

LEMMA TallyCount ==
  ASSUME TypeInv, TypeInv', BookInv, TallyInv, NEW s \in Row, CountHook(s) PROVE TallyInv'
<1>1. /\ UNCHANGED <<case, asked, pc, tick, send, counted>> /\ run' = Counted(s) /\ stage[s] = "count"
  BY DEF CountHook, SetRun, HookFrame, outside
<1>2. PICK place \in {"mark", "markOnly"} : stage' = [stage EXCEPT ![s] = place]
  BY DEF CountHook, Step
<1>3. send[s] = "sent" /\ s[1] = Len(asked) /\ RowBooks
  BY <1>1 DEF BookInv, RowBooks, Booked, Newest, ToCount
<1>4. \A u \in Row : u \in counted' \/ stage'[u] \in Marking
                       => u \in counted \/ stage[u] \in Marking \/ u[1] = s[1]
  BY <1>1, <1>2 DEF TypeInv, Typed
<1>5. /\ RowTally' /\ DOMAIN run.acts \subseteq DOMAIN run'.acts
      /\ \A d \in Decision : Told(d) => Told(d)'
      /\ \A t : t.run.lastCounted \in Nat /\ t.run.lastCounted <= run.lastCounted
                  => \A a \in Actions : Level(a, t) => Level(a, t)'
  BY <1>1, <1>3, <1>4, CountTally DEF TallyInv
<1>6. run'.lease = run.lease
  <2>1. Typed /\ s[1] <= Len(asked)
    BY <1>3 DEF TypeInv, Typed
  <2>2. QED
    BY <1>1, <2>1, CountTyped
<1>7. ASSUME NEW v \in Ticker PROVE Drafts(v, pc[v], tick[v])'
  <2>1. Drafts(v, pc[v], tick[v]) /\ (Owns(v)' => Owns(v))
    BY <1>6 DEF TallyInv, Owns
  <2>2. QED
    BY <1>1, <1>5, <2>1, CountWaits
<1>8. QED
  BY <1>5, <1>7 DEF TallyInv

LEMMA TallyReconcile ==
  ASSUME OwnProcesses, TypeInv, TypeInv', BookInv, TallyInv, NEW w \in Ticker, Reconcile(w)
  PROVE  TallyInv'
<1>1. /\ tick[w] \in TickRec(Actions) /\ tick[w].todo \subseteq Row
      /\ pc[w] = "reconcile" /\ Books(w, pc[w], tick[w]) /\ RowBooks
  BY TickFields DEF Reconcile, TypeInv, BookInv
<1>2. PICK s \in tick[w].todo :
        /\ run' = Counted(s)
        /\ tick' = [tick EXCEPT ![w].todo = @ \ {s}, ![w].row = s]
        /\ pc' = [pc EXCEPT ![w] = IF run.lastCounted = s[1] THEN "markOnly" ELSE "mark"]
  BY DEF Reconcile, SetRun, Goto
<1>3. UNCHANGED <<case, asked, send, counted, stage>>
  BY DEF Reconcile, TickFrame, rows, outside
<1>4. s \in Row /\ send[s] = "sent" /\ s[1] = Len(asked)
  BY <1>1 DEF Books
<1>5. /\ RowTally' /\ Told(s[1])' /\ DOMAIN run.acts \subseteq DOMAIN run'.acts
      /\ \A d \in Decision : Told(d) => Told(d)'
      /\ \A t : t.run.lastCounted \in Nat /\ t.run.lastCounted <= run.lastCounted
                  => \A a \in Actions : Level(a, t) => Level(a, t)'
  BY <1>1, <1>2, <1>3, <1>4, CountTally DEF TallyInv
<1>6. run'.lease = run.lease
  <2>1. Typed /\ s[1] <= Len(asked)
    BY <1>4 DEF TypeInv, Typed
  <2>2. QED
    BY <1>2, <1>4, <2>1, CountTyped
<1> DEFINE left == tick[w].todo \ {s}
           u == [tick[w] EXCEPT !.todo = left, !.row = s]
<1> HIDE DEF left
<1>7. tick' = [tick EXCEPT ![w] = u]
  BY <1>1, <1>2 DEF left, TypeInv, Typed
<1>8. u.run = tick[w].run /\ u.next = tick[w].next /\ u.chosen = tick[w].chosen /\ u.row = s
  BY <1>1 DEF TickRec
<1> HIDE DEF u
<1>9. PICK place \in {"mark", "markOnly"} : pc' = [pc EXCEPT ![w] = place]
  BY <1>2
<1>10. ASSUME NEW v \in Ticker, v # w PROVE Drafts(v, pc[v], tick[v])'
  <2>1. pc'[v] = pc[v] /\ tick'[v] = tick[v] /\ (Owns(v)' => Owns(v))
    BY <1>6, <1>7, <1>9, <1>10 DEF TypeInv, Typed, Owns
  <2>2. Drafts(v, pc[v], tick[v])
    BY DEF TallyInv
  <2>3. QED
    BY <1>3, <1>5, <2>1, <2>2, CountWaits
<1>11. Drafts(w, pc[w], tick[w])'
  <2>1. pc'[w] = place /\ tick'[w] = u
    BY <1>7, <1>9 DEF TypeInv, Typed
  <2>2. PICK q : q = u
    OBVIOUS
  <2>3. Drafts(w, pc[w], tick[w])
    BY DEF TallyInv
  <2>4. Draft(q)'
    <3>1. Draft(q)
      BY <1>8, <2>2, <2>3 DEF Drafts, Draft
    <3>2. QED
      BY <1>3, <3>1, DraftStays
  <2>5. q.run.lastCounted \in Nat /\ (Owns(w) => q.run.lastCounted <= run.lastCounted)
    <3>1. tick[w].run.lastCounted \in Decision \cup {NoDecision}
      BY TickFields, RunFields DEF TypeInv
    <3>2. QED
      BY <1>1, <1>8, <2>2, <3>1, Numbers DEF Books, Abreast, Early, Decision, NoDecision
  <2>6. Owns(w)' => \A a \in Actions : Level(a, q)'
    <3>1. Owns(w)' => Owns(w)
      BY <1>6 DEF Owns
    <3>2. Owns(w) => \A a \in Actions : Level(a, q)
      BY <1>1, <1>8, <2>2, <2>3 DEF Drafts, Level, Unwritten
    <3>3. QED
      BY <1>5, <2>5, <3>1, <3>2
  <2>7. Told(q.row[1])'
    BY <1>5, <1>8, <2>2
  <2>8. DOMAIN q.run.acts \subseteq DOMAIN run'.acts /\ Actions' = Actions
    BY <1>3, <1>5, <1>8, <2>2, <2>3 DEF Drafts, Actions, P
  <2>9. Drafts(w, place, q)'
    BY <2>4, <2>6, <2>7, <2>8 DEF Drafts
  <2>10. QED
    BY <2>1, <2>2, <2>9
<1>12. QED
  BY <1>5, <1>10, <1>11 DEF TallyInv

-----------------------------------------------------------------------------
(* The write, and the theorem.                                             *)

\* What the end of a ladder is worth is what the start of the next one is.
LEMMA NextLadder ==
  ASSUME NEW l \in Nat, NEW m \in Nat PROVE 0 + ((l + 1) - 1) * m = m + (l - 1) * m
OBVIOUS

\* The fields that changed in the copy, written over a state that is as the copy
\* was, or has a count more: the attempts stay, or a full ladder makes way for a
\* fresh one.
LEMMA DiffedFits ==
  ASSUME TypeInv, TallyInv, NEW w \in Ticker, pc[w] = "finish", Owns(w), NEW a \in DOMAIN run.acts
  PROVE  LET st == run.acts[a]  out == Diffed(tick[w], a) IN
         /\ Fits(a, out)
         /\ \/ Alike(st, out)
            \/ st.attempts = Ladder(a) /\ out.attempts = 0 /\ out.ladder = st.ladder + 1
         /\ Alike(Stored(tick[w].run.acts, a), st)
              => out.attempts = IF a \in DOMAIN tick[w].run.acts
                                THEN tick[w].next.acts[a].attempts ELSE st.attempts
<1> DEFINE t == tick[w]
<1>1. /\ Typed /\ run.acts \in ActsOver(Actions) /\ t.run.acts \in ActsOver(Actions)
      /\ t.next.acts \in ActsOver(Actions)
      /\ DOMAIN t.run.acts \subseteq DOMAIN t.next.acts
      /\ a \in Actions /\ Ladder(a) \in Nat \ {0}
  <2>1. /\ Typed /\ run.acts \in ActsOver(Actions) /\ t.run.acts \in ActsOver(Actions)
        /\ t.next.acts \in ActsOver(Actions)
        /\ DOMAIN t.run.acts \subseteq DOMAIN t.next.acts
    BY TickFields, RunFields DEF TypeInv, Typed, Grown
  <2>2. a \in Actions
    BY <2>1 DEF ActsOver
  <2>3. QED
    BY <2>1, <2>2, LadderNat
<1>2. PICK st \in ActState : st = run.acts[a]
  BY <1>1 DEF ActsOver
<1>3. Fits(a, st) /\ Drafts(w, "finish", t)
  BY <1>2 DEF TallyInv, RowTally, Fitting
<1>4. PICK out : out = Diffed(t, a)
  OBVIOUS
<1>5. CASE a \notin DOMAIN t.run.acts
  <2>1. out = st
    BY <1>2, <1>4, <1>5 DEF Diffed
  <2>2. QED
    BY <1>2, <1>3, <1>4, <1>5, <2>1 DEF Alike
<1>6. CASE a \in DOMAIN t.run.acts
  <2>1. PICK old \in ActState : old = t.run.acts[a]
    BY <1>1, <1>6 DEF ActsOver
  <2>2. PICK new \in ActState : new = t.next.acts[a]
    BY <1>1, <1>6 DEF ActsOver
  <2>3. out = [f \in DOMAIN freshActionState |->
                 IF f # "completedAt" /\ new[f] # old[f] THEN new[f] ELSE st[f]]
    BY <1>2, <1>4, <1>6, <2>1, <2>2 DEF Diffed
  <2>4. /\ out.attempts = IF new.attempts # old.attempts THEN new.attempts ELSE st.attempts
        /\ out.ladder = IF new.ladder # old.ladder THEN new.ladder ELSE st.ladder
        /\ out.status = IF new.status # old.status THEN new.status ELSE st.status
    BY <2>3 DEF freshActionState
  <2>5. Stored(t.run.acts, a) = old
    BY <1>6, <2>1 DEF Stored
  <2>6. Follows(a, old, new)
    BY <1>1, <1>3, <1>6, <2>2, <2>5 DEF Drafts, Draft
  <2>7. Alike(old, st) \/ old.attempts < Ladder(a)
    <3>1. Level(a, t)
      BY <1>1, <1>3 DEF Drafts, Unwritten
    <3>2. QED
      BY <1>2, <2>5, <3>1 DEF Level, Stored
  <2>8. /\ st.attempts \in Nat /\ st.ladder \in Nat /\ old.attempts \in Nat /\ old.ladder \in Nat
        /\ new.attempts \in Nat /\ new.ladder \in Nat
    BY DEF ActState
  <2>9. Alike(old, st) => out.attempts = new.attempts
    BY <2>4 DEF Alike
  <2>10. CASE Alike(old, new) /\ (new.status = "cooldown" => old.attempts = Ladder(a))
    <3>1. Alike(st, out)
      BY <2>4, <2>10 DEF Alike
    <3>2. Fits(a, out)
      BY <1>1, <1>3, <2>4, <2>7, <2>8, <2>10 DEF Alike, Fits
    <3>3. QED
      BY <1>2, <1>4, <1>6, <2>2, <2>5, <2>9, <3>1, <3>2
  <2>11. CASE /\ old.status = "cooldown" /\ old.attempts = Ladder(a)
              /\ new.status = "pending" /\ new.attempts = 0 /\ new.ladder = old.ladder + 1
    <3>1. st.attempts = Ladder(a) /\ st.ladder = old.ladder
      BY <1>1, <2>7, <2>8, <2>11 DEF Alike
    <3>2. out.attempts = 0 /\ out.ladder = st.ladder + 1 /\ out.status = "pending"
      BY <1>1, <2>4, <2>8, <2>11, <3>1
    <3>3. Fits(a, out)
      BY <1>1, <3>2 DEF Fits
    <3>4. QED
      BY <1>2, <1>4, <1>6, <2>2, <2>5, <2>9, <3>1, <3>2, <3>3
  <2>12. QED
    BY <2>6, <2>10, <2>11 DEF Follows
<1>7. QED
  BY <1>5, <1>6

\* What the written states stand for.
LEMMA WrittenWorth ==
  ASSUME TypeInv, TypeInv', TallyInv, UNCHANGED case, NEW w \in Ticker, pc[w] = "finish", Owns(w),
         run'.acts = [a \in DOMAIN run.acts |-> Diffed(tick[w], a)]
  PROVE  /\ Fitting(run.acts)'
         /\ \A a \in Actions : /\ Worth(a, Stored(run.acts, a))' = Worth(a, Stored(run.acts, a))
                               /\ Stored(run.acts, a).attempts < Ladder(a)
                                    => Stored(run'.acts, a).attempts < Ladder(a)
<1>1. Actions' = Actions /\ \A a : Ladder(a)' = Ladder(a)
  BY DEF Actions, P, Ladder
<1>2. Typed /\ run.acts \in ActsOver(Actions)
  BY RunFields DEF TypeInv, Typed
<1>3. ASSUME NEW a \in DOMAIN run.acts
      PROVE  /\ Fits(a, run'.acts[a])
             /\ \/ Alike(run.acts[a], run'.acts[a])
                \/ /\ run.acts[a].attempts = Ladder(a) /\ run'.acts[a].attempts = 0
                   /\ run'.acts[a].ladder = run.acts[a].ladder + 1
  BY DiffedFits
<1>4. Fitting(run.acts)'
  BY <1>1, <1>3 DEF Fitting, Fits
<1>5. ASSUME NEW a \in Actions
      PROVE  /\ Worth(a, Stored(run.acts, a))' = Worth(a, Stored(run.acts, a))
             /\ Stored(run.acts, a).attempts < Ladder(a) => Stored(run'.acts, a).attempts < Ladder(a)
  <2>1. CASE a \notin DOMAIN run.acts
    <3>1. Stored(run'.acts, a) = Stored(run.acts, a)
      BY <2>1 DEF Stored
    <3>2. QED
      BY <1>1, <3>1 DEF Worth
  <2>2. CASE a \in DOMAIN run.acts
    <3>1. PICK st \in ActState : st = Stored(run.acts, a)
      BY <1>2, StoredTyped
    <3>2. PICK out : out = Stored(run'.acts, a)
      OBVIOUS
    <3>3. st = run.acts[a] /\ out = run'.acts[a]
      BY <2>2, <3>1, <3>2 DEF Stored
    <3>4. st.attempts \in Nat /\ st.ladder \in Nat /\ Ladder(a) \in Nat \ {0}
      BY <1>2, <3>1, LadderNat DEF ActState
    <3>5. \/ Alike(st, out)
          \/ st.attempts = Ladder(a) /\ out.attempts = 0 /\ out.ladder = st.ladder + 1
      BY <1>3, <2>2, <3>3
    <3>6. Worth(a, out) = Worth(a, st)
      <4>1. CASE Alike(st, out)
        BY <4>1 DEF Alike, Worth
      <4>2. CASE st.attempts = Ladder(a) /\ out.attempts = 0 /\ out.ladder = st.ladder + 1
        BY <3>4, <4>2, NextLadder DEF Worth
      <4>3. QED
        BY <3>5, <4>1, <4>2
    <3>7. st.attempts < Ladder(a) => out.attempts < Ladder(a)
      BY <3>4, <3>5 DEF Alike
    <3>8. Worth(a, Stored(run.acts, a))' = Worth(a, out)
      BY <1>1, <3>2 DEF Worth
    <3>9. QED
      BY <3>1, <3>2, <3>6, <3>7, <3>8
  <2>3. QED
    BY <2>1, <2>2
<1>6. QED
  BY <1>4, <1>5

\* A decision: all that was accepted has its count, and what it chose has room.
LEMMA DecidedTally ==
  ASSUME TypeInv, TypeInv', RowBooks, TallyInv, UNCHANGED <<case, send, stage, counted>>,
         NEW w \in Ticker, pc[w] = "finish", Owns(w),
         run'.acts = [a \in DOMAIN run.acts |-> Diffed(tick[w], a)],
         run'.lastCounted = run.lastCounted, tick[w].run.lastCounted = run.lastCounted,
         asked' = Append(asked, [action |-> tick[w].chosen, attempt |-> tick[w].attempt,
                                 at |-> tick[w].now]),
         ToCount = {}
  PROVE  RowTally'
<1> DEFINE n == Len(asked)
           c == tick[w].chosen
           q == [action |-> c, attempt |-> tick[w].attempt, at |-> tick[w].now]
<1>1. /\ Typed /\ n \in Nat /\ asked \in Seq(Question(Actions)) /\ c \in Actions \cup {Ask}
      /\ run.lastCounted \in Decision \cup {NoDecision} /\ RowTally
  BY TickFields, RunFields DEF TypeInv, Typed, TallyInv
<1>2. q.action = c
  OBVIOUS
<1> HIDE DEF q
<1>3. Len(asked') = n + 1 /\ asked'[n + 1] = q /\ \A d \in 1..n : asked'[d] = asked[d]
  BY <1>1 DEF q
<1>4. Row' = Row /\ Actions' = Actions /\ \A a : Ladder(a)' = Ladder(a)
  BY DEF Row, Decision, Actions, P, Ladder
<1>5. \A s \in Row : s[1] \in Nat \ {0} /\ (send[s] # "none" => s[1] \in 1..n)
  BY <1>1, AskedTyped, Numbers DEF TypeInv, Named, Row, Decision
<1>6. \A d \in 1..n : Told(d)'
  BY <1>1, <1>3 DEF Told
<1>7. Flagged'
  <2>1. \A s \in Row : (s \in counted \/ stage[s] \in Marking => Told(s[1]))'
    <3> SUFFICES ASSUME NEW s \in Row, s \in counted \/ stage[s] \in Marking PROVE Told(s[1])'
      OBVIOUS
    <3>1. PICK u \in Row : u[1] = s[1] /\ send[u] = "sent"
      BY DEF RowBooks, Booked, OnBooks
    <3>2. PICK d \in 1..n : d = s[1]
      BY <1>5, <3>1
    <3>3. Told(d)'
      BY <1>6
    <3>4. QED
      BY <3>2, <3>3
  <2>2. QED
    BY <1>4, <2>1 DEF Flagged
<1>8. Unheld'
  BY <1>1, <1>4 DEF RowTally, Unheld
<1>9. Fitting(run.acts)' /\ \A a \in Actions : Worth(a, Stored(run.acts, a))' = Worth(a, Stored(run.acts, a))
  BY WrittenWorth
<1>10. Room'
  <2>1. CASE c = Ask
    BY <1>2, <1>3, <2>1 DEF Room
  <2>2. CASE c # Ask
    <3>1. c \in Actions /\ Drafts(w, "finish", tick[w]) /\ Ladder(c) \in Nat \ {0}
      BY <1>1, <2>2, LadderNat DEF TallyInv
    <3>2. Alike(Stored(tick[w].run.acts, c), Stored(run.acts, c))
      BY <3>1 DEF Drafts, Unwritten, Level
    <3>3. tick[w].next.acts[c].attempts < Ladder(c)
      BY <2>2, <3>1 DEF Drafts, Draft
    <3>4. Stored(run'.acts, c).attempts < Ladder(c)
      <4>1. CASE c \notin DOMAIN run.acts
        BY <3>1, <4>1 DEF Stored, freshActionState
      <4>2. CASE c \in DOMAIN run.acts
        <5>1. Stored(run.acts, c) = run.acts[c] /\ Stored(run'.acts, c) = Diffed(tick[w], c)
          BY <4>2 DEF Stored
        <5>2. Diffed(tick[w], c).attempts = IF c \in DOMAIN tick[w].run.acts
                                THEN tick[w].next.acts[c].attempts ELSE run.acts[c].attempts
          BY <3>2, <4>2, <5>1, DiffedFits
        <5>3. c \notin DOMAIN tick[w].run.acts => run.acts[c].attempts = 0
          BY <3>2, <5>1 DEF Stored, Alike, freshActionState
        <5>4. QED
          BY <3>1, <3>3, <5>1, <5>2, <5>3
      <4>3. QED
        BY <4>1, <4>2
    <3>5. QED
      BY <1>2, <1>3, <1>4, <3>4 DEF Room
  <2>3. QED
    BY <2>1, <2>2
<1>11. ASSUME NEW a \in Actions PROVE (Worth(a, Stored(run.acts, a)) = Cardinality(Tallied(a)))'
  <2>1. Sent(a) = {d \in 1..n : asked[d].action = a /\ \E s \in Row : s[1] = d /\ send[s] = "sent"}
    BY <1>1, SentRows DEF RowTally
  <2>2. Sent(a)' = {d \in 1..(n + 1) : asked'[d].action = a
                      /\ \E s \in Row : s[1] = d /\ send[s] = "sent"}
    BY <1>3, <1>4, <1>8 DEF Sent, Unheld
  <2>3. Sent(a)' = Sent(a) /\ Sent(a) \subseteq 1..n
    <3>1. \A s \in Row : send[s] = "sent" => s[1] \in 1..n
      BY <1>5
    <3>2. \A d \in 1..n : d \in 1..(n + 1)
      BY <1>1
    <3>3. QED
      BY <1>3, <2>1, <2>2, <3>1, <3>2
  <2>4. \A d \in Sent(a) : Told(d)
    <3>1. TAKE d \in Sent(a)
    <3>2. PICK s \in Row : s[1] = d /\ send[s] = "sent"
      BY <2>1
    <3>3. s \in counted
      BY <3>2 DEF ToCount
    <3>4. QED
      BY <1>1, <3>2, <3>3 DEF RowTally, Flagged
  <2>5. Tallied(a) = Sent(a)
    BY <2>4 DEF Tallied
  <2>6. Tallied(a)' = Sent(a)
    BY <1>6, <2>3 DEF Tallied
  <2>7. QED
    BY <1>1, <1>9, <2>5, <2>6 DEF RowTally, Tally
<1>12. Tally'
  BY <1>4, <1>11 DEF Tally
<1>13. QED
  BY <1>7, <1>8, <1>9, <1>10, <1>12 DEF RowTally

\* A write that decides nothing.
LEMMA SleepsTally ==
  ASSUME TypeInv, TypeInv', TallyInv, UNCHANGED <<case, send, stage, counted, asked>>,
         NEW w \in Ticker, pc[w] = "finish", Owns(w),
         run'.acts = [a \in DOMAIN run.acts |-> Diffed(tick[w], a)],
         run'.lastCounted = run.lastCounted
  PROVE  RowTally'
<1>1. Row' = Row /\ Actions' = Actions /\ \A a : Ladder(a)' = Ladder(a)
  BY DEF Row, Decision, Actions, P, Ladder
<1>2. RowTally /\ Typed
  BY DEF TallyInv, TypeInv
<1>3. /\ Fitting(run.acts)'
      /\ \A a \in Actions : /\ Worth(a, Stored(run.acts, a))' = Worth(a, Stored(run.acts, a))
                            /\ Stored(run.acts, a).attempts < Ladder(a)
                                 => Stored(run'.acts, a).attempts < Ladder(a)
  BY WrittenWorth
<1>4. Flagged' /\ Unheld'
  BY <1>1, <1>2 DEF RowTally, Flagged, Unheld, Told
<1>5. Room'
  <2> SUFFICES ASSUME Len(asked) > 0, run.lastCounted # Len(asked), asked[Len(asked)].action # Ask
               PROVE  Stored(run'.acts, asked[Len(asked)].action).attempts
                        < Ladder(asked[Len(asked)].action)
    BY <1>1 DEF Room
  <2>1. Len(asked) \in Nat /\ asked \in Seq(Question(Actions))
    BY <1>2 DEF Typed
  <2>2. asked[Len(asked)] \in Question(Actions)
    BY <2>1
  <2>3. asked[Len(asked)].action \in Actions
    BY <2>2 DEF Question
  <2>4. QED
    BY <1>2, <1>3, <2>3 DEF RowTally, Room
<1>6. Tally'
  <2>1. ASSUME NEW a \in Actions PROVE (Worth(a, Stored(run.acts, a)) = Cardinality(Tallied(a)))'
    <3>1. Tallied(a)' = Tallied(a)
      BY <1>1 DEF Tallied, Sent, Told
    <3>2. QED
      BY <1>2, <1>3, <3>1 DEF RowTally, Tally
  <2>2. QED
    BY <1>1, <2>1 DEF Tally
<1>7. QED
  BY <1>3, <1>4, <1>5, <1>6 DEF RowTally

LEMMA TallyWrite ==
  ASSUME OwnProcesses, TypeInv, TypeInv', FlightInv, BookInv, TallyInv, Calm, Calm',
         NEW w \in Ticker, Write(w)
  PROVE  TallyInv'
<1> DEFINE t == tick[w]
           todo == IF t.sends THEN {Len(asked) + 1} \X case.to ELSE {}
           u == [tick[w] EXCEPT !.todo = todo]
<1>1. /\ Typed /\ t \in TickRec(Actions) /\ Len(asked) \in Nat /\ asked \in Seq(Question(Actions))
      /\ run \in RunRec(Actions) /\ run.inFlight \in Decision \cup {NoDecision}
      /\ "lastCounted" \notin t.set /\ RowBooks
  BY TickFields, RunFields, TickBooks DEF TypeInv, Typed, BookInv
<1>2. /\ t.sends => Len(asked) < MaxDecision
      /\ run' = WrittenRun(w) /\ SetRun(WrittenRun(w))
      /\ asked' = IF t.sends THEN Append(asked, [action |-> t.chosen, attempt |-> t.attempt, at |-> t.now]) ELSE asked
      /\ tick' = [tick EXCEPT ![w].todo = todo]
      /\ pc' = [pc EXCEPT ![w] = "settle"]
      /\ UNCHANGED <<case, send, stage, counted>>
  BY DEF Write, WrittenRun, SetRun, Goto, rows, outside
<1>3. pc[w] = "finish" /\ Owns(w) /\ ~CountMoved(w)
  BY DEF Write, Matches
<1>4. /\ run'.acts = [a \in DOMAIN run.acts |-> Diffed(tick[w], a)]
      /\ run'.lastCounted = run.lastCounted
      /\ t.sends => run'.inFlight = Len(asked) + 1
      /\ run'.lease = IF t.sends THEN run.lease ELSE NoLease
  BY <1>1, <1>2, WrittenTyped DEF Calm
<1>5. run'.lease.owner \in {run.lease.owner, Nobody}
  BY <1>4 DEF NoLease
<1> HIDE DEF todo
<1>6. tick' = [tick EXCEPT ![w] = u]
  BY <1>1, <1>2 DEF Typed
<1>7. u.run = t.run /\ u.next = t.next /\ u.chosen = t.chosen
  BY <1>1 DEF TickRec
<1> HIDE DEF u
<1>8. RowTally'
  <2>1. CASE ~t.sends
    BY <1>2, <1>3, <1>4, <2>1, SleepsTally
  <2>2. CASE t.sends
    <3>1. run'.inFlight \notin {run.inFlight, NoDecision}
      <4>1. run.inFlight <= Len(asked) /\ run.inFlight \in Nat
        BY <1>1, Numbers DEF RowBooks, Newest, Decision, NoDecision
      <4>2. QED
        BY <1>1, <1>4, <2>2, <4>1 DEF NoDecision
    <3>2. ToCount = {}
      BY <1>2, <3>1 DEF Calm, SetRun
    <3>3. t.run.lastCounted = run.lastCounted
      BY <1>3, <2>2 DEF CountMoved
    <3>4. QED
      BY <1>1, <1>2, <1>3, <1>4, <2>2, <3>2, <3>3, DecidedTally
  <2>3. QED
    BY <2>1, <2>2
<1>9. \A d \in Decision : Told(d) => Told(d)'
  <2>1. Len(asked') >= Len(asked)
    BY <1>1, <1>2
  <2>2. Decision \subseteq Nat /\ Len(asked') \in Nat
    BY Numbers DEF Decision, TypeInv, Typed
  <2>3. QED
    BY <1>1, <1>4, <2>1, <2>2 DEF Told
<1>10. DOMAIN run'.acts = DOMAIN run.acts
  BY <1>4
<1>11. ASSUME NEW v \in Ticker, v # w PROVE Drafts(v, pc[v], tick[v])'
  <2>1. pc'[v] = pc[v] /\ tick'[v] = tick[v] /\ (Owns(v)' => Owns(v))
    BY <1>2, <1>5, <1>6, <1>11, ProgramRunAssumption DEF TypeInv, Typed, Owns
  <2>2. ~Owns(v)
    BY <1>3, <1>11, OthersRest
  <2>3. Drafts(v, pc[v], tick[v])
    BY DEF TallyInv
  <2>4. QED
    BY <1>2, <1>9, <1>10, <2>1, <2>2, <2>3, DraftsWait
<1>12. Drafts(w, pc[w], tick[w])'
  <2>1. pc'[w] = "settle" /\ tick'[w] = u
    BY <1>2, <1>6 DEF TypeInv, Typed
  <2>2. PICK q : q = u
    OBVIOUS
  <2>3. Drafts(w, pc[w], tick[w])
    BY DEF TallyInv
  <2>4. Draft(q)'
    <3>1. Draft(q)
      BY <1>7, <2>2, <2>3 DEF Drafts, Draft
    <3>2. QED
      BY <1>2, <3>1, DraftStays
  <2>5. "settle" \notin Unwritten \cup Marking \cup {"resolve", "decide"}
    BY DEF Unwritten, Marking
  <2>6. DOMAIN q.run.acts \subseteq DOMAIN run'.acts
    BY <1>7, <1>10, <2>2, <2>3 DEF Drafts
  <2>7. Drafts(w, "settle", q)'
    BY <2>4, <2>5, <2>6 DEF Drafts
  <2>8. QED
    BY <2>1, <2>2, <2>7
<1>13. QED
  BY <1>8, <1>11, <1>12 DEF TallyInv

LEMMA TallyInit == Init => TallyInv
<1> SUFFICES ASSUME Init PROVE TallyInv
  OBVIOUS
<1>1. /\ \A s \in Row : send[s] = "none" /\ stage[s] = "none"
      /\ counted = {} /\ asked = <<>> /\ Len(asked) = 0
  BY DEF Init
<1>2. DOMAIN run.acts = {} /\ Typed
  BY TypeInit DEF Init, NewRun, TypeInv
<1>3. Fitting(run.acts) /\ Flagged /\ Room /\ Unheld
  BY <1>1, <1>2 DEF Fitting, Flagged, Room, Unheld, Marking
<1>4. Tally
  <2>1. ASSUME NEW a \in Actions PROVE Worth(a, Stored(run.acts, a)) = Cardinality(Tallied(a))
    <3>1. Stored(run.acts, a).attempts = 0 /\ Stored(run.acts, a).ladder = 1
      BY <1>2 DEF Stored, freshActionState
    <3>2. Ladder(a) \in Nat
      BY <1>2, LadderNat
    <3>3. Worth(a, Stored(run.acts, a)) = 0
      BY <3>1, <3>2 DEF Worth
    <3>4. Tallied(a) = {}
      BY <1>1 DEF Tallied, Sent
    <3>5. QED
      BY <3>3, <3>4, FS_EmptySet
  <2>2. QED
    BY <2>1 DEF Tally
<1>5. ASSUME NEW w \in Ticker PROVE Drafts(w, pc[w], tick[w])
  <2>1. pc[w] = "idle" /\ tick[w] = NoTick
    BY DEF Init
  <2>2. DOMAIN NoTick.run.acts = {} /\ DOMAIN NoTick.next.acts = {} /\ NoTick.chosen = Ask
    BY DEF NoTick, NewRun
  <2>3. "idle" \notin Unwritten \cup Marking \cup {"resolve", "decide"}
    BY DEF Unwritten, Marking
  <2>4. QED
    BY <2>1, <2>2, <2>3 DEF Drafts, Draft, Fitting
<1>6. QED
  BY <1>3, <1>4, <1>5 DEF TallyInv, RowTally

LEMMA TallyStep ==
  ASSUME OwnProcesses, TypeInv, TypeInv', FlightInv, Working, Calm => BookInv /\ TallyInv, [Next]_vars
  PROVE  (Calm => TallyInv)'
<1> SUFFICES ASSUME Calm' PROVE TallyInv'
  OBVIOUS
<1>1. Calm /\ BookInv /\ RowBooks /\ TallyInv /\ case.arm = "treatment"
  BY ExcusesStay DEF Calm, BookInv
<1>2. ASSUME NEW w \in Ticker, TickStep(w) PROVE TallyInv'
  <2>1. CASE Due(w) \/ acquireLease(w) \/ Resolve(w) \/ Decide(w) \/ CancelSends(w) \/ ReadInFlight(w)
    BY <1>1, <2>1, TallyDue, TallyAcquire, TallyResolve, TallyDecide, TallyCancel, TallyRead
  <2>2. CASE Reconcile(w) \/ ReconcileMark(w) \/ ReconcileSchedule(w) \/ Reconciled(w) \/ Fresh(w)
             \/ Timing(w) \/ Recipients(w)
    BY <1>1, <2>2, TallyReconcile, TallyMark, TallySchedule, TallyReconciled, TallyFresh, TallyRecipients
  <2>3. CASE Write(w) \/ Reread(w) \/ Abandon(w) \/ settleActionDates(w) \/ RenewForRows(w)
             \/ InsertRows(w) \/ Enqueue(w) \/ releaseLease(w)
    BY <1>1, <2>3, TallyWrite, TallyReread, TallyAbandon, TallySettle, TallyInsert, TallyEnds
  <2>4. QED
    BY <1>2, <2>1, <2>2, <2>3 DEF TickStep
<1>3. ASSUME NEW w \in Ticker, HostFails(w) \/ Crash(w) PROVE TallyInv'
  BY <1>1, <1>3, TallyEnds
<1>4. ASSUME NEW s \in Row, Dispatch(s) \/ DispatchDies(s) PROVE TallyInv'
  BY <1>1, <1>4, TallyClaim, TallyRow, TallyHooks, TallyCount, TallyFlag DEF Dispatch
<1>5. CASE Operators \/ Pass \/ Slow \/ UNCHANGED vars
  BY <1>1, <1>5, TallyWorld
<1>6. QED
  BY <1>2, <1>3, <1>4, <1>5 DEF Next

\* What the states stand for is the accepted decisions that have their count; the
\* others are owed one.
LEMMA TalliedMail ==
  ASSUME TypeInv, Calm => TallyInv PROVE AttemptsMatchMail
<1> SUFFICES ASSUME Calm, NEW a \in Actions
             PROVE  /\ Consumed(a) <= Cardinality(Sent(a))
                    /\ Cardinality(Sent(a)) <= Consumed(a) + Cardinality(Owed(a))
  BY DEF AttemptsMatchMail, Calm
<1>1. RowTally
  BY DEF TallyInv
<1>2. Consumed(a) = Cardinality(Tallied(a))
  BY <1>1 DEF Consumed, Worth, Ladder, RowTally, Tally
<1>3. /\ IsFiniteSet(Sent(a)) /\ IsFiniteSet(Tallied(a)) /\ Tallied(a) \subseteq Sent(a)
      /\ Sent(a) = {d \in 1..Len(asked) : asked[d].action = a
                      /\ \E s \in Row : s[1] = d /\ send[s] = "sent"}
  BY <1>1, SentRows DEF RowTally
<1>4. Owed(a) \subseteq Sent(a)
  BY DEF Owed
<1>5. IsFiniteSet(Owed(a))
  BY <1>3, <1>4, FS_Subset
<1>6. Sent(a) \subseteq Tallied(a) \cup Owed(a)
  <2> SUFFICES ASSUME NEW d \in Sent(a), d \notin Owed(a) PROVE d \in Tallied(a)
    OBVIOUS
  <2>1. PICK s \in Row : s[1] = d /\ send[s] = "sent"
    BY <1>3
  <2>2. s \in counted
    BY <2>1 DEF Owed
  <2>3. Told(d)
    BY <1>1, <2>1, <2>2 DEF RowTally, Flagged
  <2>4. QED
    BY <2>3 DEF Tallied
<1>7. IsFiniteSet(Tallied(a) \cup Owed(a))
  BY <1>3, <1>5, FS_Union
<1>8. Cardinality(Sent(a)) <= Cardinality(Tallied(a) \cup Owed(a))
  BY <1>6, <1>7, FS_Subset
<1>9. /\ Cardinality(Tallied(a)) \in Nat /\ Cardinality(Owed(a)) \in Nat
      /\ Cardinality(Sent(a)) \in Nat /\ Cardinality(Tallied(a) \cup Owed(a)) \in Nat
      /\ Cardinality(Tallied(a) \cap Owed(a)) \in Nat
  <2>1. IsFiniteSet(Tallied(a) \cap Owed(a))
    BY <1>3, FS_Subset
  <2>2. QED
    BY <1>3, <1>5, <1>7, <2>1, FS_CardinalityType
<1>10. Cardinality(Tallied(a) \cup Owed(a)) <= Cardinality(Tallied(a)) + Cardinality(Owed(a))
  <2>1. Cardinality(Tallied(a) \cup Owed(a)) =
          Cardinality(Tallied(a)) + Cardinality(Owed(a)) - Cardinality(Tallied(a) \cap Owed(a))
    BY <1>3, <1>5, FS_Union
  <2>2. QED
    BY <1>9, <2>1
<1>11. Cardinality(Tallied(a)) <= Cardinality(Sent(a))
  BY <1>3, FS_Subset
<1>12. QED
  BY <1>2, <1>8, <1>9, <1>10, <1>11

\* Whatever ticks, dispatches, hooks and crashes interleave, the attempts and
\* ladders that countAcceptedSend (programs/hooks.ts) and the tick's write
\* (actionDiffs of programs/tick.ts) leave in actionStates are those of mail that
\* the provider accepted, once per decision; what is missing has a row that no
\* hook has counted yet.  Excused is what AttemptsMatchMail excuses.
THEOREM AttemptsAreMail ==
  ASSUME OwnProcesses PROVE Spec => []AttemptsMatchMail
<1> DEFINE IInv == TypeInv /\ Plain /\ FlightInv /\ Working /\ (Calm => BookInv) /\ (Calm => TallyInv)
<1>1. Init => IInv
  BY TypeInit, FlightInit, BookInit, TallyInit
<1>2. IInv /\ [Next]_vars => IInv'
  <2> SUFFICES ASSUME IInv, [Next]_vars PROVE IInv'
    OBVIOUS
  <2>1. TypeInv' /\ Plain' /\ FlightInv' /\ Working'
    BY TypeStep, PlainStep, FlightStep, WorkingStep
  <2>2. (Calm => BookInv)'
    BY <2>1, BookStep
  <2>3. (Calm => TallyInv)'
    BY <2>1, TallyStep
  <2>4. QED
    BY <2>1, <2>2, <2>3
<1>3. IInv => AttemptsMatchMail
  BY TalliedMail
<1>4. QED
  BY <1>1, <1>2, <1>3, PTL DEF Spec
=============================================================================
