--------------------------- MODULE MCSendDispatch ---------------------------
(* Small instances of SendDispatch for TLC.                                *)
EXTENDS SendDispatch, TLC

CONSTANTS s1, s2, a1

\* Two rows to one address.
OneAddress == [s \in Send |-> a1]

\* What may go wrong: d deferrals, f faults, l lost jobs, s stalls, o outside
\* events at most.
Bound(d, f, l, s, o) == [defer |-> d, fault |-> f, lost |-> l, stall |-> s, ops |-> o]

\* A deferral and a fault or an outside event; three outside events.
DeliveryBounds == {Bound(1, 1, 0, 0, 0), Bound(1, 0, 0, 0, 1), Bound(0, 0, 0, 0, 3)}
\* A fault, a deferral, a lost job, an outside event with a worker that outlasts
\* a timeout.
SettleBounds   == {Bound(0, 1, 0, 0, 0), Bound(1, 0, 0, 0, 0), Bound(0, 0, 1, 0, 0),
                   Bound(0, 0, 0, 1, 1)}

\* Workers are interchangeable.
WorkerSymmetry == Permutations(Worker)
=============================================================================
