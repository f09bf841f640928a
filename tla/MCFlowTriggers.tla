--------------------------- MODULE MCFlowTriggers ---------------------------
(* Small instances of FlowTriggers: every event is of one contact.         *)
EXTENDS FlowTriggers

CONSTANTS c1

OneContact == [e \in Event |-> c1]

\* At most f faults and o operator actions or opt-outs.
Bound(f, o) == [fault |-> f, ops |-> o]

Calm      == {Bound(0, 0)}
FaultOrOp == {Bound(1, 0), Bound(0, 1)}
=============================================================================
