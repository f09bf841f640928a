--------------------------- MODULE MCFlowVersions ---------------------------
(* Small instances of FlowVersions for TLC.                                *)
EXTENDS FlowVersions, TLC

CONSTANTS c1, c2, r1, s1, s2, s3

Doc(b, g, kept, draft, calls, edits, crash) ==
  [steps |-> [body |-> b, gated |-> g], kept |-> kept, draft |-> draft, enabled |-> TRUE,
   bound |-> [calls |-> calls, edits |-> edits, crash |-> crash]]
Draft(b) == [body |-> b, gated |-> FALSE]

\* A published flow with a draft; one that a script wrote, without a snapshot,
\* or with a gate of its own; one that was just created.
Starts ==
  {Doc(s1, FALSE, TRUE, Draft(s2), 5, 1, 1), Doc(s1, FALSE, FALSE, Unset, 4, 1, 1),
   Doc(s1, TRUE, FALSE, Unset, 2, 1, 0),
   [Doc(Empty, FALSE, FALSE, Draft(Empty), 3, 2, 0) EXCEPT !.enabled = FALSE]}

CallerSymmetry == Permutations(Caller)
=============================================================================
