------------------------ MODULE MCBroadcastDispatch ------------------------
(* Small instances of BroadcastDispatch.                                   *)
EXTENDS BroadcastDispatch

\* At most f faults, l stalls, p pauses and o outside events.
Bound(f, l, p, o) == [fault |-> f, stall |-> l, pause |-> p, ops |-> o]

\* Faults and waves; an overlap by a stall or by a pause; an error in an overlap.
Waves    == {Bound(2, 0, 0, 2), Bound(0, 1, 0, 2), Bound(0, 0, 1, 2), Bound(1, 1, 0, 0), Bound(0, 1, 1, 0)}
=============================================================================
