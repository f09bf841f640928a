---------------------------- MODULE ProgramRank ----------------------------
(***************************************************************************)
(* What one tick of a program decides from what it read: the candidates    *)
(* and their ranks (evaluateCandidates), completion, the sunset stage and  *)
(* the gap.  Pure: no operator here reads or writes a collection.          *)
(*                                                                         *)
(* A program p is a record; p.actions maps the ids of its actions to their *)
(* definitions.  The values of predicates are facts: sat, the actions      *)
(* whose `satisfied` predicate holds, and fit, those whose `eligible`      *)
(* does.  Dates are numbers; Never stands for null.                        *)
(***************************************************************************)
EXTENDS Naturals, FiniteSets, Sequences

Never == 0
Ask   == "$sunset-ask"   \* SUNSET_ASK_ACTION_ID

\* attempts: the ladder, the minGapDays of each attempt, 0 where it has none;
\* cooldown 0: no cooldownDays.
ActionDef(Ids) ==
  [priority : Nat, index : Nat, attempts : Seq(Nat) \ {<<>>}, requires : SUBSET Ids,
   onExhaust : {"skip", "hold"}, cooldown : Nat]

\* askAfter 0: no policy.sunset; fast 0: no progressGapDays.
IsProgram(p) ==
  /\ DOMAIN p = {"actions", "gap", "fast", "slowAfter", "askAfter", "slowFactor"}
  /\ DOMAIN p.actions # {} /\ IsFiniteSet(DOMAIN p.actions) /\ Ask \notin DOMAIN p.actions
  /\ p.actions \in [DOMAIN p.actions -> ActionDef(DOMAIN p.actions)]
  /\ \A a, b \in DOMAIN p.actions : a # b => p.actions[a].index # p.actions[b].index
  /\ \A f \in DOMAIN p \ {"actions"} : p[f] \in Nat
  /\ p.gap > 0 /\ p.slowFactor > 0 /\ p.slowAfter <= p.askAfter

ActState == [status : {"pending", "satisfied", "cooldown", "exhausted"},
             attempts : Nat, ladder : Nat, completedAt : Nat, cooldownUntil : Nat]

freshActionState == [status |-> "pending", attempts |-> 0, ladder |-> 1,
                     completedAt |-> Never, cooldownUntil |-> Never]
\* The stored state of a, or a fresh one for an action the run never saw.
Stored(acts, a) == IF a \in DOMAIN acts THEN acts[a] ELSE freshActionState

-----------------------------------------------------------------------------
(* evaluateCandidates, for a program p, the run's action states, the facts *)
(* and the tick's now.                                                     *)

\* Higher priority first, ties in definition order.
Before(p, a, b) ==
  \/ p.actions[a].priority > p.actions[b].priority
  \/ p.actions[a].priority = p.actions[b].priority /\ p.actions[a].index < p.actions[b].index

Satisfied(acts, sat, a) == Stored(acts, a).completedAt # Never \/ a \in sat

Cooling(acts, now, a) ==
  Stored(acts, a).status = "cooldown" /\ Stored(acts, a).cooldownUntil > now

\* A cooldown that is over starts a fresh ladder.
Reopened(acts, now, a) ==
  LET st == Stored(acts, a)
  IN  IF st.status # "cooldown" \/ Cooling(acts, now, a) THEN st
      ELSE [st EXCEPT !.attempts = 0, !.ladder = @ + 1, !.status = "pending",
                      !.cooldownUntil = Never]

\* An action that gets as far as its own ladder: not satisfied, nothing it
\* requires is missing, eligible.
Reached(p, acts, facts, a) ==
  /\ ~Satisfied(acts, facts.sat, a)
  /\ \A b \in p.actions[a].requires : Satisfied(acts, facts.sat, b)
  /\ a \in facts.fit

Spent(p, acts, now, a) ==
  ~Cooling(acts, now, a) /\ Reopened(acts, now, a).attempts >= Len(p.actions[a].attempts)

\* An action before a arms the hold: it is exhausted or cooling and holds.
Held(p, acts, facts, now, a) ==
  \E b \in DOMAIN p.actions :
    /\ Before(p, b, a) /\ p.actions[b].onExhaust = "hold"
    /\ Reached(p, acts, facts, b)
    /\ Cooling(acts, now, b) \/ Spent(p, acts, now, b)

Ranked(p, acts, facts, now) ==
  {a \in DOMAIN p.actions :
     /\ Reached(p, acts, facts, a) /\ ~Held(p, acts, facts, now, a)
     /\ ~Cooling(acts, now, a) /\ ~Spent(p, acts, now, a)}

Exhausted(p, acts, facts, now, a) ==
  /\ Reached(p, acts, facts, a) /\ ~Held(p, acts, facts, now, a)
  /\ Spent(p, acts, now, a)

\* The working copy of a's state after the evaluation.
Evaluated(p, acts, facts, now, a) ==
  LET st == Stored(acts, a)  re == Reopened(acts, now, a)
  IN  CASE Satisfied(acts, facts.sat, a) ->
             [st EXCEPT !.status = "satisfied",
                        !.completedAt = IF @ = Never THEN now ELSE @]
        [] Exhausted(p, acts, facts, now, a) ->
             IF p.actions[a].cooldown > 0
             THEN [re EXCEPT !.status = "cooldown",
                             !.cooldownUntil = now + p.actions[a].cooldown]
             ELSE [re EXCEPT !.status = "exhausted"]
        [] a \in Ranked(p, acts, facts, now) -> [re EXCEPT !.status = "pending"]
        [] OTHER -> st

Works(p, acts, facts, now) ==
  [a \in DOMAIN p.actions |-> Evaluated(p, acts, facts, now, a)]

newlySatisfied(acts, facts) ==
  {a \in facts.sat : Stored(acts, a).completedAt = Never}

\* Step 5: every action is satisfied, or exhausted for good and skipped.
Done(p, acts, facts, now) ==
  \A a \in DOMAIN p.actions :
    \/ Satisfied(acts, facts.sat, a)
    \/ /\ Exhausted(p, acts, facts, now, a)
       /\ p.actions[a].onExhaust = "skip" /\ p.actions[a].cooldown = 0

\* The first candidate in rank order.
First(p, acts, facts, now) ==
  CHOOSE a \in Ranked(p, acts, facts, now) :
    \A b \in Ranked(p, acts, facts, now) \ {a} : Before(p, a, b)

\* The end of the first cooldown after now, among the works w; Never if none.
earliestCooldown(w, now) ==
  LET ends == {w[a].cooldownUntil : a \in DOMAIN w} \ 0..now
  IN  IF ends = {} THEN Never ELSE CHOOSE t \in ends : \A u \in ends : t <= u

-----------------------------------------------------------------------------
\* Mutation: the stage is the count.
StageUncapped(p, unanswered) == IF p.askAfter = 0 THEN 0 ELSE unanswered

sunsetStageFor(p, unanswered) ==
  CASE p.askAfter = 0 -> 0
    [] p.askAfter > 0 /\ unanswered >= p.askAfter -> 2
    [] p.askAfter > 0 /\ unanswered < p.askAfter /\ unanswered >= p.slowAfter -> 1
    [] OTHER -> 0

\* minGapDays before the attempt that follows i attempts of a: its own, or the
\* policy's.
minGap(p, a, i) ==
  IF a # Ask /\ i + 1 \in DOMAIN p.actions[a].attempts /\ p.actions[a].attempts[i + 1] > 0
  THEN p.actions[a].attempts[i + 1] ELSE p.gap

Widened(p, stage) == IF stage >= 1 /\ p.askAfter > 0 THEN p.slowFactor ELSE 1

\* progress: an action completed, or a click, since the last send.
\* Mutation: the policy's gap, whatever the attempt's own.
gapMsPolicy(p, a, i, stage, progress) ==
  LET normal == p.gap * Widened(p, stage)
  IN  IF progress /\ p.fast > 0 /\ p.fast < normal THEN p.fast ELSE normal
gapMs(p, a, i, stage, progress) ==
  LET normal == minGap(p, a, i) * Widened(p, stage)
  IN  IF progress /\ p.fast > 0 /\ p.fast < normal THEN p.fast ELSE normal
=============================================================================
