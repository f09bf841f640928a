----------------------------- MODULE MCFlowRun -----------------------------
(* Small flows for FlowRun.                                                *)
EXTENDS FlowRun, TLC

CONSTANTS w1, w2

\* The steps of one arm as a function from places.
ArmOf(path, types) ==
  [p \in {[path |-> path, index |-> i] : i \in 0 .. Len(types) - 1} |-> types[p.index + 1]]
Root(i)   == [path |-> <<>>, index |-> i]

Flow(steps, hard, windowed) == [steps |-> steps, hard |-> hard, windowed |-> windowed]

Examples == [
  \* One arm: a send in a window, a wait, a condition that may skip the second
  \* send, an event.
  onboarding |->
    Flow(ArmOf(<<>>, <<"send", "wait", "condition", "send", "fire_event">>), {}, {Root(0)}),

  \* One arm: a webhook that is given up, one that fails the run, an exit.
  integration |-> Flow(ArmOf(<<>>, <<"webhook", "webhook", "exit">>), {Root(1)}, {}),

  \* A branch within a branch: a send in a window, a condition that exits the
  \* run, a webhook given up, waits.
  nested |->
    Flow(ArmOf(<<>>, <<"wait", "send", "branch">>)
           @@ ArmOf(<< <<2, "true">> >>, <<"webhook", "branch">>)
           @@ ArmOf(<< <<2, "false">> >>, <<"wait", "condition", "tag", "exit">>)
           @@ ArmOf(<< <<2, "true">>, <<1, "true">> >>, <<"tag", "wait", "fire_event">>),
         {[path |-> << <<2, "false">> >>, index |-> 1]}, {Root(1)})]

\* A run of f with at most d closed windows, t faults and o outside events;
\* two workers at once, or one alone.
Case(f, d, t, o) ==
  [flow |-> f, bound |-> [defer |-> d, fault |-> t, ops |-> o, overlap |-> 1]]
Alone(c) == [c EXCEPT !.bound.overlap = 0]

RunCases == {Case("onboarding", 1, 1, 0), Case("onboarding", 0, 0, 1),
             Case("integration", 0, 1, 0), Alone(Case("integration", 0, 0, 1)),
             Alone(Case("nested", 1, 1, 0))}
=============================================================================
