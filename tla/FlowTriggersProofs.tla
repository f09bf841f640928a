------------------------- MODULE FlowTriggersProofs -------------------------
(***************************************************************************)
(* Proofs about FlowTriggers, for every value of its constants.            *)
(***************************************************************************)
EXTENDS FlowTriggers, TLAPS

USE FlowTriggersAssumption DEF Rare

-----------------------------------------------------------------------------
(* The type invariant.                                                     *)

LEMMA InitType == Init => TypeOK
<1>1. SUFFICES ASSUME Init PROVE TypeOK
  OBVIOUS
<1>2. budget \in [Rare -> Nat] BY <1>1 DEF Init
<1>3. created \in [Event -> Nat] BY <1>1 DEF Init
<1>4. \A w \in Scanner : since[w] = 0 /\ newest[w] = 0 /\ pc[w] = "idle" /\ current[w] = NoEvent
  BY <1>1 DEF Init
<1>5. /\ pc \in [Scanner -> {"idle", "scan", "enter", "insert"}]
      /\ since \in [Scanner -> Nat] /\ newest \in [Scanner -> Nat]
      /\ todo \in [Scanner -> SUBSET visible]
      /\ current \in [Scanner -> visible \cup {NoEvent}]
  BY <1>1 DEF Init
<1>6. enabled \in BOOLEAN /\ stamped \in BOOLEAN /\ overlapped \in BOOLEAN
  BY <1>1, Zenon DEF Init
<1>7. QED BY <1>1, <1>2, <1>3, <1>4, <1>5, <1>6 DEF Init, TypeOK

\* Spending keeps the budget a budget.
LEMMA SpendType ==
  ASSUME TypeOK, NEW what \in Rare, Spend(what)
  PROVE  budget' \in [Rare -> Nat]
BY DEF Spend, TypeOK

\* What a scanner does keeps the types.
LEMMA ScanType ==
  ASSUME TypeOK, NEW w \in Scanner, Scan(w) \/ Abandon(w)
  PROVE  TypeOK'
<1>1. CASE ReadFlow(w)
  BY <1>1 DEF ReadFlow, Goto, eventVars, flowVars, TypeOK
<1>2. CASE ReadEvents(w)
  <2>1. PICK S \in SUBSET visible :
          /\ \/ S = {} /\ Return(w)
             \/ \E t \in 0 .. now :
                  /\ todo' = [todo EXCEPT ![w] = S] /\ newest' = [newest EXCEPT ![w] = t]
                  /\ Goto(w, "enter") /\ UNCHANGED since
          /\ UNCHANGED <<now, overlapped, eventVars, flowVars, runs, subscribed, current, budget, settled>>
    BY <1>2 DEF ReadEvents
  <2>2. CASE Return(w)
    BY <1>2, <2>1, <2>2 DEF ReadEvents, Return, Goto, eventVars, flowVars, TypeOK
  <2>3. CASE \E t \in 0 .. now :
               /\ todo' = [todo EXCEPT ![w] = S] /\ newest' = [newest EXCEPT ![w] = t]
               /\ Goto(w, "enter") /\ UNCHANGED since
    BY <1>2, <2>1, <2>3 DEF ReadEvents, Goto, eventVars, flowVars, TypeOK
  <2>4. QED BY <2>1, <2>2, <2>3
<1>3. CASE \E e \in Event : Consider(w, e)
  BY <1>3 DEF Consider, Goto, eventVars, flowVars, TypeOK
<1>4. CASE InsertRun(w)
  BY <1>4 DEF InsertRun, Goto, eventVars, flowVars, TypeOK
<1>5. CASE Mark(w)
  <2>0. stamped' \in BOOLEAN
    BY <1>5, Zenon DEF Mark, TypeOK
  <2>1. watermark' \in Nat /\ watermark' <= now
    BY <1>5 DEF Mark, TypeOK
  <2>2. /\ pc' \in [Scanner -> {"idle", "scan", "enter", "insert"}]
        /\ since' \in [Scanner -> Nat] /\ newest' \in [Scanner -> Nat]
        /\ todo' \in [Scanner -> SUBSET visible]
    BY <1>5 DEF Mark, Return, Goto, TypeOK
  <2>3. \A v \in Scanner : since'[v] <= now /\ newest'[v] <= now
    BY <1>5 DEF Mark, Return, TypeOK
  <2>4. \A v \in Scanner : (pc'[v] = "insert") <=> (current[v] \in visible)
    BY <1>5 DEF Mark, Return, Goto, TypeOK
  <2>5. QED
    BY <1>5, <2>0, <2>1, <2>2, <2>3, <2>4 DEF Mark, eventVars, TypeOK
<1>6. CASE Abandon(w)
  BY <1>6, SpendType DEF Abandon, Return, Goto, eventVars, flowVars, TypeOK
<1>7. QED
  BY <1>1, <1>2, <1>3, <1>4, <1>5, <1>6 DEF Scan

\* So do events, contacts, operators and time.
LEMMA OutsideType ==
  ASSUME TypeOK,
         \/ \E e \in Event : Fire(e) \/ Commit(e)
         \/ \E c \in Contact : Unsubscribe(c)
         \/ Pass \/ Disarm \/ ArmFlow \/ Resume
  PROVE  TypeOK'
<1>1. CASE \E e \in Event : Fire(e)
  BY <1>1 DEF Fire, flowVars, scannerVars, TypeOK
<1>2. CASE \E e \in Event : Commit(e)
  BY <1>2 DEF Commit, flowVars, scannerVars, TypeOK
<1>3. CASE \E c \in Contact : Unsubscribe(c)
  BY <1>3, SpendType DEF Unsubscribe, eventVars, flowVars, scannerVars, TypeOK
<1>4. CASE Pass
  BY <1>4 DEF Pass, eventVars, flowVars, scannerVars, TypeOK
<1>5. CASE Disarm
  BY <1>5, SpendType DEF Disarm, eventVars, scannerVars, TypeOK
<1>6. CASE ArmFlow
  BY <1>6 DEF ArmFlow, Enable, LeftBehind, eventVars, scannerVars, TypeOK
<1>7. CASE Resume
  BY <1>7, SpendType DEF Resume, Enable, LeftBehind, eventVars, scannerVars, TypeOK
<1>8. QED
  BY <1>1, <1>2, <1>3, <1>4, <1>5, <1>6, <1>7

LEMMA NextType == ASSUME TypeOK, [Next]_vars PROVE TypeOK'
<1>1. CASE Next
  BY <1>1, ScanType, OutsideType DEF Next
<1>2. CASE UNCHANGED vars
  BY <1>2 DEF vars, TypeOK
<1>3. QED BY <1>1, <1>2

\* The variables keep their types: scans, events, operators and faults.
THEOREM TypeCorrect == Spec => []TypeOK
<1>1. Init => TypeOK BY InitType
<1>2. TypeOK /\ [Next]_vars => TypeOK' BY NextType
<1>3. QED BY <1>1, <1>2, PTL DEF Spec

-----------------------------------------------------------------------------
(* No event is left behind.                                                *)

\* Events that a scan has still to bring in.
Open == visible \ (settled \cup skipped)
InReach(e, t) == created[e] + Overlap > t

\* A commit is never so late that a watermark could have passed it.
CommitsInTime == \A e \in fired \ visible : now < created[e] + Overlap

\* An open event lies in reach of what each scan under way started from, and of
\* what it will make the watermark, unless that scan has the event in hand.
ScansReach ==
  \A w \in Scanner : \A e \in Open :
    /\ pc[w] # "idle" => InReach(e, since[w])
    /\ pc[w] \in {"enter", "insert"} =>
         e \in todo[w] \/ e = current[w] \/ InReach(e, newest[w])

ReachInv == TypeOK /\ CommitsInTime /\ ScansReach /\ NoEventLost

LEMMA InitReach == Init => ReachInv
BY InitType DEF Init, ReachInv, CommitsInTime, ScansReach, Open, NoEventLost

\* Reading the flow and its events, deciding, inserting, marking.
LEMMA ScanReach ==
  ASSUME ReachInv, TypeOK', NEW w \in Scanner, Scan(w) \/ Abandon(w)
  PROVE  ReachInv'
<1> USE DEF ReachInv, InReach
<1>0. /\ CommitsInTime' /\ Open' \subseteq Open /\ UNCHANGED <<created, visible, skipped>>
  <2>1. /\ UNCHANGED <<now, eventVars, skipped>> /\ settled \subseteq settled'
    BY DEF Scan, Abandon, ReadFlow, ReadEvents, Consider, InsertRun, Mark, flowVars, eventVars
  <2>2. QED BY <2>1 DEF eventVars, CommitsInTime, Open
<1>1. CASE ReadFlow(w)
  <2>1. NoEventLost'
    BY <1>0, <1>1 DEF ReadFlow, flowVars, NoEventLost, Open
  <2>2. ScansReach'
    BY <1>0, <1>1 DEF ReadFlow, Goto, flowVars, TypeOK, NoEventLost, ScansReach, Open
  <2>3. QED BY <1>0, <2>1, <2>2
<1>2. CASE ReadEvents(w)
  <2>1. NoEventLost'
    BY <1>0, <1>2 DEF ReadEvents, flowVars, NoEventLost, Open
  <2>2. PICK S \in SUBSET visible :
          /\ IsBatch(w, S)
          /\ \/ S = {} /\ Return(w)
             \/ \E t \in 0 .. now :
                  /\ IsLast(S, t)
                  /\ todo' = [todo EXCEPT ![w] = S] /\ newest' = [newest EXCEPT ![w] = t]
                  /\ Goto(w, "enter") /\ UNCHANGED since
    BY <1>2 DEF ReadEvents
  <2>3. UNCHANGED current /\ pc[w] = "scan" BY <1>2 DEF ReadEvents
  <2>4. CASE Return(w)
    BY <1>0, <2>1, <2>3, <2>4 DEF Return, Goto, TypeOK, ScansReach
  <2>5. CASE ~Return(w)
    <3>1. PICK t \in 0 .. now :
                  /\ IsLast(S, t)
                  /\ todo' = [todo EXCEPT ![w] = S] /\ newest' = [newest EXCEPT ![w] = t]
                  /\ Goto(w, "enter") /\ UNCHANGED since
      BY <2>2, <2>5
    <3>2. \A e \in Open : e \in S \/ created[e] + Overlap > t
      <4>1. SUFFICES ASSUME NEW e \in Open, e \notin S PROVE created[e] + Overlap > t
        OBVIOUS
      <4>2. e \in Candidates(w) \ S
        BY <4>1, <2>3 DEF Candidates, InScope, ScansReach, Open
      <4>3. PICK f \in S : created[f] = t
        BY <3>1 DEF IsLast
      <4>4. created[f] <= created[e]
        BY <4>2, <4>3, <2>2 DEF IsBatch
      <4>5. e \in Event /\ f \in Event /\ created \in [Event -> Nat]
        BY <4>1 DEF Open, TypeOK
      <4>6. QED BY <4>3, <4>4, <4>5
    <3>3. ScansReach'
      BY <1>0, <2>3, <3>1, <3>2 DEF Goto, TypeOK, ScansReach
    <3>4. QED BY <1>0, <2>1, <3>3
  <2>6. QED BY <1>0, <2>1, <2>4, <2>5
<1>3. CASE \E e \in Event : Consider(w, e)
  <2>1. NoEventLost'
    BY <1>0, <1>3 DEF Consider, flowVars, NoEventLost, Open
  <2>2. ScansReach'
    BY <1>0, <1>3 DEF Consider, Goto, TypeOK, ScansReach, Open
  <2>3. QED BY <1>0, <2>1, <2>2
<1>4. CASE InsertRun(w)
  <2>1. NoEventLost'
    BY <1>0, <1>4 DEF InsertRun, flowVars, NoEventLost, Open
  <2>2. ScansReach'
    BY <1>0, <1>4 DEF InsertRun, Goto, TypeOK, ScansReach, Open
  <2>3. QED BY <1>0, <2>1, <2>2
<1>5. CASE Mark(w)
  <2>1. \A e \in Open : InReach(e, newest[w])
    BY <1>5 DEF Mark, TypeOK, ScansReach, Open
  <2>2. NoEventLost'
    BY <1>0, <1>5, <2>1 DEF Mark, NoEventLost, Open
  <2>3. ScansReach'
    BY <1>0, <1>5 DEF Mark, Return, Goto, TypeOK, ScansReach
  <2>4. QED BY <1>0, <2>2, <2>3
<1>6. CASE Abandon(w)
  <2>1. NoEventLost'
    BY <1>0, <1>6 DEF Abandon, flowVars, NoEventLost, Open
  <2>2. ScansReach'
    BY <1>0, <1>6 DEF Abandon, Return, Goto, TypeOK, ScansReach
  <2>3. QED BY <1>0, <2>1, <2>2
<1>7. QED
  BY <1>1, <1>2, <1>3, <1>4, <1>5, <1>6 DEF Scan

\* Events fire and commit, time passes, operators turn the flow off and on.
LEMMA OutsideReach ==
  ASSUME ReachInv, TypeOK',
         \/ \E e \in Event : Fire(e) \/ Commit(e)
         \/ \E c \in Contact : Unsubscribe(c)
         \/ Pass \/ Disarm \/ ArmFlow \/ Resume
  PROVE  ReachInv'
<1> USE DEF ReachInv, InReach
<1>1. ASSUME NEW e \in Event, Fire(e) PROVE ReachInv'
  <2>1. CommitsInTime'
    BY <1>1 DEF Fire, TypeOK, CommitsInTime
  <2>2. Open' = Open /\ \A f \in Open : created'[f] = created[f]
    BY <1>1 DEF Fire, flowVars, TypeOK, Open
  <2>3. NoEventLost'
    BY <1>1, <2>2 DEF Fire, flowVars, NoEventLost, Open
  <2>4. ScansReach'
    BY <1>1, <2>2 DEF Fire, scannerVars, ScansReach
  <2>5. QED BY <2>1, <2>3, <2>4
<1>2. ASSUME NEW e \in Event, Commit(e) PROVE ReachInv'
  <2>1. CommitsInTime'
    BY <1>2 DEF Commit, CommitsInTime
  <2>2. \A t \in Nat : t <= now => InReach(e, t)
    BY <1>2 DEF Commit, CommitsInTime, TypeOK
  <2>3. Open' \subseteq Open \cup {e} /\ UNCHANGED created
    BY <1>2 DEF Commit, flowVars, Open
  <2>4. NoEventLost'
    BY <1>2, <2>2, <2>3 DEF Commit, flowVars, TypeOK, NoEventLost, Open
  <2>5. ScansReach'
    BY <1>2, <2>2, <2>3 DEF Commit, scannerVars, TypeOK, ScansReach
  <2>6. QED BY <2>1, <2>4, <2>5
<1>3. CASE \E c \in Contact : Unsubscribe(c)
  BY <1>3 DEF Unsubscribe, eventVars, flowVars, scannerVars, CommitsInTime, ScansReach, Open, NoEventLost
<1>4. CASE Pass
  BY <1>4 DEF Pass, eventVars, flowVars, scannerVars, CommitsInTime, ScansReach, Open, NoEventLost
<1>5. CASE Disarm
  BY <1>5 DEF Disarm, eventVars, scannerVars, CommitsInTime, ScansReach, Open, NoEventLost
<1>6. ASSUME NEW t \in Nat, Enable(t) PROVE ReachInv'
  <2>1. CommitsInTime' /\ Open' = Open \ LeftBehind(t)
    BY <1>6 DEF Enable, eventVars, CommitsInTime, Open, LeftBehind
  <2>2. NoEventLost'
    BY <1>6, <2>1 DEF Enable, eventVars, TypeOK, NoEventLost, LeftBehind, Open
  <2>3. ScansReach'
    BY <1>6, <2>1 DEF Enable, eventVars, scannerVars, ScansReach
  <2>4. QED BY <2>1, <2>2, <2>3
<1>7. CASE ArmFlow
  BY <1>6, <1>7 DEF ArmFlow, TypeOK
<1>8. CASE Resume
  BY <1>6, <1>8 DEF Resume, TypeOK
<1>9. QED
  BY <1>1, <1>2, <1>3, <1>4, <1>5, <1>7, <1>8

LEMMA NextReach == ASSUME ReachInv, [Next]_vars PROVE ReachInv'
<1>1. TypeOK' BY NextType DEF ReachInv
<1>2. CASE Next
  BY <1>1, <1>2, ScanReach, OutsideReach DEF Next
<1>3. CASE UNCHANGED vars
  BY <1>3, <1>1 DEF vars, ReachInv, InReach, CommitsInTime, ScansReach, Open, NoEventLost
<1>4. QED BY <1>2, <1>3

\* The watermark leaves no committed event behind, for any number of scanners,
\* batch and overlap: slower scans, dead ones, late commits, arming.
THEOREM NoEventIsLost == Spec => []NoEventLost
<1>1. Init => ReachInv BY InitReach
<1>2. ReachInv /\ [Next]_vars => ReachInv' BY NextReach
<1>3. ReachInv => NoEventLost BY DEF ReachInv
<1>4. QED BY <1>1, <1>2, <1>3, PTL DEF Spec

-----------------------------------------------------------------------------
(* `once`.                                                                 *)

Same(e, f) == ContactOf[e] = ContactOf[f]

\* Until scans overlap there is one at most, and the event that it is about to
\* enter is of a contact without a run.
OneScan ==
  overlapped \/ \A v, w \in Scanner : pc[v] # "idle" /\ pc[w] # "idle" => v = w
InHandIsFirst ==
  Once => overlapped \/ \A w \in Scanner : pc[w] = "insert" =>
    \A f \in runs : ~Same(f, current[w])

OnceInv == TypeOK /\ OneScan /\ InHandIsFirst /\ OnceEntersOnce

LEMMA NextOnce == ASSUME OnceInv, [Next]_vars PROVE OnceInv'
<1> USE DEF OnceInv, Same
<1>0. TypeOK' BY NextType
<1>1. ASSUME NEW w \in Scanner, ReadFlow(w) PROVE OnceInv'
  BY <1>0, <1>1 DEF ReadFlow, Goto, TypeOK, OneScan, InHandIsFirst, OnceEntersOnce
<1>2. ASSUME NEW w \in Scanner, ReadEvents(w) PROVE OnceInv'
  <2>1. /\ pc[w] # "idle" /\ UNCHANGED <<runs, current, overlapped>>
        /\ \E place \in {"idle", "enter"} : pc' = [pc EXCEPT ![w] = place]
    BY <1>2 DEF ReadEvents, Return, Goto
  <2>2. QED BY <1>0, <2>1 DEF TypeOK, OneScan, InHandIsFirst, OnceEntersOnce
<1>3. ASSUME NEW w \in Scanner, NEW e \in Event, Consider(w, e) PROVE OnceInv'
  BY <1>0, <1>3 DEF Consider, EnteredBefore, Goto, TypeOK, OneScan, InHandIsFirst, OnceEntersOnce
<1>4. ASSUME NEW w \in Scanner, InsertRun(w) PROVE OnceInv'
  <2>1. OneScan' BY <1>4 DEF InsertRun, Goto, TypeOK, OneScan
  <2>2. InHandIsFirst'
    BY <1>4 DEF InsertRun, Goto, TypeOK, OneScan, InHandIsFirst
  <2>3. OnceEntersOnce'
    BY <1>4 DEF InsertRun, TypeOK, InHandIsFirst, OnceEntersOnce
  <2>4. QED BY <1>0, <2>1, <2>2, <2>3
<1>5. ASSUME NEW w \in Scanner, Mark(w) \/ Abandon(w) PROVE OnceInv'
  <2>1. /\ UNCHANGED <<runs, overlapped>> /\ pc' = [pc EXCEPT ![w] = "idle"]
        /\ \A v \in Scanner \ {w} : current'[v] = current[v]
    BY <1>5 DEF Mark, Abandon, Return, Goto, flowVars, TypeOK
  <2>2. QED BY <1>0, <2>1 DEF TypeOK, OneScan, InHandIsFirst, OnceEntersOnce
<1>6. ASSUME UNCHANGED <<runs, pc, current, overlapped>> PROVE OnceInv'
  BY <1>0, <1>6 DEF OneScan, InHandIsFirst, OnceEntersOnce
<1>7. QED
  BY <1>1, <1>2, <1>3, <1>4, <1>5, <1>6
  DEF Next, Scan, Fire, Commit, Unsubscribe, Pass, Disarm, ArmFlow, Resume, Enable,
      scannerVars, vars

\* A flow with `once` enters each contact once at most, as long as no scan of
\* it begins during another, whatever is armed, resumed or left half done.
THEOREM OnceWithoutOverlap == Spec => []OnceEntersOnce
<1>1. Init => OnceInv
  BY InitType DEF Init, OnceInv, OneScan, InHandIsFirst, OnceEntersOnce
<1>2. OnceInv /\ [Next]_vars => OnceInv' BY NextOnce
<1>3. OnceInv => OnceEntersOnce BY DEF OnceInv
<1>4. QED BY <1>1, <1>2, <1>3, PTL DEF Spec
=============================================================================
