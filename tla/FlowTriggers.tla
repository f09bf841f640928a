---------------------------- MODULE FlowTriggers ----------------------------
(***************************************************************************)
(* How events enter a flow.  Each tick scans the events of one flow from   *)
(* its watermark lastTriggerScanAt, a little behind it in fact, inserts a  *)
(* flow run per event and moves the watermark to the last event it read.   *)
(* Ticks of two processes overlap; fire() commits a row after its          *)
(* createdAt; operators disarm the flow and arm it again.                  *)
(*                                                                         *)
(* Time is counted in steps of now.  The runs made here are FlowRun's.     *)
(***************************************************************************)
EXTENDS Naturals, FiniteSets

CONSTANTS
  Last,       \* events of the flow's name, numbered by createdAt
  Contact,
  ContactOf,  \* [Event -> Contact], externalId
  Scanner,    \* concurrent ticks
  Once,       \* trigger.once
  Batch,      \* BATCH_SIZE
  Overlap,    \* SCAN_OVERLAP_MS
  MaxTime,    \* end of the modelled time
  Bounds,     \* how often what is rare may happen in a behaviour, see Rare
  NoEvent

Event == 1 .. Last

\* fault: ticks that die or meet a database error; ops: operators, opt-outs.
Rare == {"fault", "ops"}

ASSUME FlowTriggersAssumption ==
  /\ Last \in Nat /\ ContactOf \in [Event -> Contact] /\ NoEvent \notin Event
  /\ Once \in BOOLEAN /\ Batch \in Nat \ {0} /\ Overlap \in Nat \ {0}
  /\ MaxTime \in Nat /\ Bounds \subseteq [Rare -> Nat]

VARIABLES
  now,         \* the clock
  fired,       \* events whose createdAt is taken
  created,     \* createdAt
  visible,     \* events whose insert is committed
  enabled,     \* flow.enabled
  stamped,     \* whether lastTriggerScanAt is set
  watermark,   \* lastTriggerScanAt, or the flow's createdAt, which is 0
  runs,        \* flow runs by triggerDedupeKey
  subscribed,  \* contacts with an active subscription
  pc,          \* each scanner's place in processFlowTriggers
  since,       \* the watermark each scanner started from
  newest,      \* createdAt of the last event of its batch
  todo,        \* the events of its batch still to do
  current,     \* the event it is about to enter
  budget,      \* what is left of the bounds of this behaviour
  settled,     \* history: events that entered, or were refused on their merits
  skipped,     \* history: events that arming the flow left behind
  overlapped   \* history: a scan began while another was under way

vars == <<now, fired, created, visible, enabled, stamped, watermark, runs, subscribed,
          pc, since, newest, todo, current, budget, settled, skipped, overlapped>>
eventVars   == <<fired, created, visible>>
flowVars    == <<enabled, stamped, watermark, skipped>>
scannerVars == <<pc, since, newest, todo, current>>

Goto(w, place) == pc' = [pc EXCEPT ![w] = place]
\* processFlowTriggers returns; what it had read is gone.
Return(w) == /\ Goto(w, "idle")
             /\ since' = [since EXCEPT ![w] = 0] /\ newest' = [newest EXCEPT ![w] = 0]
             /\ todo' = [todo EXCEPT ![w] = {}]
Spend(what) == /\ budget[what] > 0
               /\ budget' = [budget EXCEPT ![what] = @ - 1]

Init ==
  /\ now = 0 /\ fired = {} /\ created = [e \in Event |-> 0] /\ visible = {}
  /\ enabled = TRUE /\ stamped = FALSE /\ watermark = 0
  /\ runs = {} /\ subscribed = Contact
  /\ pc = [w \in Scanner |-> "idle"] /\ since = [w \in Scanner |-> 0]
  /\ newest = [w \in Scanner |-> 0] /\ todo = [w \in Scanner |-> {}]
  /\ current = [w \in Scanner |-> NoEvent]
  /\ budget \in Bounds
  /\ settled = {} /\ skipped = {} /\ overlapped = FALSE

-----------------------------------------------------------------------------
(* The scan.                                                               *)

\* The query for enabled flows; the flow's turn comes later.
ReadFlow(w) ==
  /\ pc[w] = "idle" /\ enabled
  /\ since' = [since EXCEPT ![w] = watermark]
  /\ overlapped' = (overlapped \/ \E v \in Scanner : pc[v] # "idle")
  /\ Goto(w, "scan")
  /\ UNCHANGED <<now, eventVars, flowVars, runs, subscribed, newest, todo, current, budget, settled>>

\* Mutation: the scan starts at the watermark itself.
InScopeNoOverlap(w, e) == created[e] > since[w]
InScope(w, e)          == created[e] + Overlap > since[w]

Candidates(w) == {e \in visible : InScope(w, e)}

\* sort({ createdAt: 1 }).limit(BATCH_SIZE); ties come in any order.
IsBatch(w, S) ==
  /\ S \subseteq Candidates(w)
  /\ \A e \in S, f \in Candidates(w) \ S : created[e] <= created[f]
  /\ Cardinality(S) <= Batch
  /\ S # Candidates(w) => Cardinality(S) = Batch

IsLast(S, t) == (\E e \in S : created[e] = t) /\ (\A e \in S : created[e] <= t)

ReadEvents(w) ==
  /\ pc[w] = "scan"
  /\ \E S \in SUBSET visible :
       /\ IsBatch(w, S)
       /\ \/ S = {} /\ Return(w)
          \/ \E t \in 0 .. now :
               /\ IsLast(S, t)
               /\ todo' = [todo EXCEPT ![w] = S] /\ newest' = [newest EXCEPT ![w] = t]
               /\ Goto(w, "enter") /\ UNCHANGED since
  /\ UNCHANGED <<now, overlapped, eventVars, flowVars, runs, subscribed, current, budget, settled>>

\* Mutation: `once` is not looked at.
EnteredNever(e) == FALSE
EnteredBefore(e) == Once /\ \E f \in runs : ContactOf[f] = ContactOf[e]

\* tryEnterFlow: the run for `once`, then the subscription.
Consider(w, e) ==
  /\ pc[w] = "enter" /\ e \in todo[w] /\ \A f \in todo[w] : created[e] <= created[f]
  /\ todo' = [todo EXCEPT ![w] = @ \ {e}]
  /\ IF EnteredBefore(e) \/ ContactOf[e] \notin subscribed
     THEN settled' = settled \cup {e} /\ UNCHANGED <<pc, current>>
     ELSE /\ current' = [current EXCEPT ![w] = e]
          /\ Goto(w, "insert") /\ UNCHANGED settled
  /\ UNCHANGED <<now, overlapped, eventVars, flowVars, runs, subscribed, since, newest, budget>>

\* A second run for one event meets the unique index, which "makes re-reads
\* harmless".  The advance job that is added next is FlowRun's first.
InsertRun(w) ==
  /\ pc[w] = "insert"
  /\ runs' = runs \cup {current[w]}
  /\ settled' = settled \cup {current[w]}
  /\ current' = [current EXCEPT ![w] = NoEvent]
  /\ Goto(w, "enter")
  /\ UNCHANGED <<now, overlapped, eventVars, flowVars, subscribed, since, newest, todo, budget>>

\* The watermark moves to the last event of the batch, if that is later than
\* where this scan started from.
Mark(w) ==
  /\ pc[w] = "enter" /\ todo[w] = {}
  /\ IF newest[w] > since[w]
     THEN watermark' = newest[w] /\ stamped' = TRUE
     ELSE UNCHANGED <<watermark, stamped>>
  /\ Return(w)
  /\ UNCHANGED <<now, overlapped, eventVars, enabled, skipped, runs, subscribed, current,
                 budget, settled>>

\* The tick dies or a database call throws: the rest of the batch is left.
Abandon(w) ==
  /\ pc[w] # "idle" /\ Spend("fault")
  /\ Return(w) /\ current' = [current EXCEPT ![w] = NoEvent]
  /\ UNCHANGED <<now, overlapped, eventVars, flowVars, runs, subscribed, settled>>

-----------------------------------------------------------------------------
(* Events, contacts and operators.                                         *)

\* fire(), or drainOutbox for events fired in a host's transaction.
Fire(e) ==
  /\ e \notin fired /\ 1 .. e - 1 \subseteq fired
  /\ fired' = fired \cup {e} /\ created' = [created EXCEPT ![e] = now]
  /\ UNCHANGED <<now, overlapped, visible, flowVars, runs, subscribed, scannerVars, budget, settled>>

Commit(e) ==
  /\ e \in fired \ visible
  /\ visible' = visible \cup {e}
  /\ UNCHANGED <<now, overlapped, fired, created, flowVars, runs, subscribed, scannerVars, budget, settled>>

\* A commit that is late by less than the overlap is what it was chosen for.
Pass ==
  /\ now < MaxTime
  /\ \A e \in fired \ visible : now + 1 < created[e] + Overlap
  /\ now' = now + 1
  /\ UNCHANGED <<overlapped, eventVars, flowVars, runs, subscribed, scannerVars, budget, settled>>

Unsubscribe(c) ==
  /\ c \in subscribed /\ Spend("ops")
  /\ subscribed' = subscribed \ {c}
  /\ UNCHANGED <<now, overlapped, eventVars, flowVars, runs, scannerVars, settled>>

Disarm ==
  /\ enabled /\ Spend("ops")
  /\ enabled' = FALSE
  /\ UNCHANGED <<now, overlapped, eventVars, stamped, watermark, skipped, runs, subscribed, scannerVars, settled>>

\* What a new watermark leaves behind: a scan does not reach back that far.
LeftBehind(t) == {e \in visible \ settled : created[e] + Overlap <= t}

\* What armFlow counts of it as skippedEvents: those after the watermark there
\* was.  The flow itself is older than every event.
SkippedEvents(t) == {e \in LeftBehind(t) : stamped => created[e] > watermark}

Enable(t) ==
  /\ enabled' = TRUE /\ stamped' = TRUE /\ watermark' = t
  /\ skipped' = skipped \cup LeftBehind(t)
  /\ UNCHANGED <<now, overlapped, eventVars, runs, subscribed, scannerVars, settled>>

\* armFlow takes a new watermark and does nothing to a flow that is enabled;
\* resume keeps the watermark there is.
ArmFlow == ~enabled /\ Enable(now) /\ UNCHANGED budget
Resume  == Spend("ops") /\ Enable(IF stamped THEN watermark ELSE now)

-----------------------------------------------------------------------------
Scan(w) == ReadFlow(w) \/ ReadEvents(w) \/ (\E e \in Event : Consider(w, e)) \/ InsertRun(w) \/ Mark(w)

Next ==
  \/ \E w \in Scanner : Scan(w) \/ Abandon(w)
  \/ \E e \in Event : Fire(e) \/ Commit(e)
  \/ \E c \in Contact : Unsubscribe(c)
  \/ Pass \/ Disarm \/ ArmFlow \/ Resume

Spec == Init /\ [][Next]_vars

\* Ticks repeat and a started scan goes on; nobody has to fire events.
FairSpec == Spec /\ \A w \in Scanner : WF_vars(Scan(w))

-----------------------------------------------------------------------------
(* Properties.                                                             *)

\* Every variable holds a value of its type; what is read is in the past.
TypeOK ==
  /\ now \in Nat /\ fired \subseteq Event /\ visible \subseteq fired
  /\ created \in [Event -> Nat] /\ \A e \in fired : created[e] <= now
  /\ enabled \in BOOLEAN /\ stamped \in BOOLEAN
  /\ watermark \in Nat /\ watermark <= now
  /\ runs \subseteq visible /\ subscribed \subseteq Contact
  /\ pc \in [Scanner -> {"idle", "scan", "enter", "insert"}]
  /\ since \in [Scanner -> Nat] /\ newest \in [Scanner -> Nat]
  /\ \A w \in Scanner : since[w] <= now /\ newest[w] <= now
  /\ todo \in [Scanner -> SUBSET visible] /\ current \in [Scanner -> visible \cup {NoEvent}]
  /\ \A w \in Scanner : (pc[w] = "insert") <=> (current[w] \in visible)
  /\ budget \in [Rare -> Nat]
  /\ settled \subseteq visible /\ skipped \subseteq visible /\ overlapped \in BOOLEAN

\* The watermark never leaves an event behind: one that is committed and not
\* dealt with is still in reach of the next scan, unless arming skipped it.
NoEventLost ==
  \A e \in visible \ (settled \cup skipped) : created[e] + Overlap > watermark

\* "A flow with trigger.once: true will never enter a contact twice", whatever
\* was armed, resumed or left half done, unless two scans overlapped.
OnceEntersOnce ==
  Once => overlapped \/ \A e, f \in runs : ContactOf[e] = ContactOf[f] => e = f

\* Where no stretch of Overlap ever holds a full batch, and the flow is armed in
\* the end, every committed event enters, is refused, or was skipped by arming.
Sparse == \A t \in 0 .. MaxTime :
            Cardinality({e \in visible : created[e] <= t /\ created[e] + Overlap > t}) < Batch
SparseEventsSettle ==
  []Sparse /\ <>[]enabled => \A e \in Event : (e \in visible) ~> (e \in settled \cup skipped)

-----------------------------------------------------------------------------
(* What is said of the code and does not hold of it in every case: the     *)
(* README tells how each is violated.                                      *)

\* "Events for the trigger name that fired before the watermark and will never
\* enter": arming counts all that it leaves behind as skippedEvents.
SkippedAreCounted == [][skipped' \ skipped \subseteq SkippedEvents(watermark')]_vars

\* Every committed event enters or is refused.
EventsSettle == \A e \in Event : (e \in visible) ~> (e \in settled)

\* "A flow with trigger.once: true will never enter a contact twice."
OnceHolds == Once => \A e, f \in runs : ContactOf[e] = ContactOf[f] => e = f

\* "Events for the trigger name that fired before the watermark and will never
\* enter": no scan reads what an arm has reported as skipped.
SkippedStayOut == [][\A w \in Scanner : todo'[w] \cap skipped \subseteq todo[w]]_vars
=============================================================================
