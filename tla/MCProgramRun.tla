---------------------------- MODULE MCProgramRun ----------------------------
(* Small instances of ProgramRun for TLC.                                  *)
EXTENDS ProgramRun

CONSTANTS r1, r2, w1, w2

OwnProcess == [w \in Ticker |-> w]

\* priority, index, the gaps of the attempts, requires, onExhaust, cooldown
Action(p, i, gaps, req, ex, cool) ==
  [priority |-> p, index |-> i, attempts |-> gaps, requires |-> req, onExhaust |-> ex,
   cooldown |-> cool]
Program(acts, fast, ask) ==
  [actions |-> acts, gap |-> 2, fast |-> fast, slowAfter |-> ask, askAfter |-> ask,
   slowFactor |-> 2]

\* One action of two attempts, the second after a longer gap; a holding action
\* that cools down before the one that requires it; one action, with a shorter gap
\* before its second attempt, and the sunset ask after its first.
SmallPrograms ==
  [ladder |-> Program([a |-> Action(1, 1, <<0, 3>>, {}, "skip", 0)], 0, 0),
   pair   |-> Program([a |-> Action(2, 1, <<0>>, {}, "hold", 2),
                       b |-> Action(1, 2, <<0>>, {"a"}, "skip", 0)], 1, 0),
   ask    |-> Program([a |-> Action(1, 1, <<0, 1, 0>>, {}, "skip", 0)], 0, 1)]

Case(p, arm, to, by, b) == [program |-> p, arm |-> arm, to |-> to, by |-> by, bound |-> b]
Rarely(A) == [what \in Rare |-> IF what = "time" THEN 12 ELSE IF what \in A THEN 1 ELSE 0]
\* One failure, and a retry that comes late enough to be given up for dead.
LateRetry == [Rarely({"fault"}) EXCEPT !["slow"] = 2, !["time"] = 9]
Briefly(A) == [Rarely(A) EXCEPT !["time"] = 5]

TickCases ==
  {Case("ladder", "treatment", {r1}, {w1, w2}, Rarely({"slow"})),
   Case("ladder", "treatment", {r1}, {w1, w2}, Rarely({"crash", "fault"})),
   Case("ladder", "treatment", {r1, r2}, {w1, w2}, Rarely({"slow"})),
   Case("ladder", "treatment", {r1, r2}, {w1}, Rarely({"crash", "fault"})),
   Case("ladder", "treatment", {r1}, {w1, w2}, Rarely({"defer", "crash"})),
   Case("ladder", "treatment", {r1}, {w1}, LateRetry),
   Case("ladder", "treatment", {r1}, {w1, w2}, Rarely({"ops"})),
   Case("pair", "treatment", {r1}, {w1}, Briefly({"wake"})),
   Case("ladder", "treatment", {r1}, {w1}, Briefly({"wake", "slow"})),
   Case("ask", "treatment", {r1}, {w1}, Rarely({"wake"})),
   Case("ask", "holdout", {r1}, {w1, w2}, Rarely({"wake", "crash"}))}
\* The one action of the pair may be satisfied, the other is still to be done.
OpsCases  == {Case("pair", "treatment", {r1}, {w1}, Rarely({"ops", "wake"}))}
\* Two recipients: the hook of one dies, the address of the other is suppressed.
LossCases == {Case("ladder", "treatment", {r1, r2}, {w1}, Rarely({"crash", "fault"}))}
=============================================================================
