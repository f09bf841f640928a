--------------------------- MODULE WebhookEvents ---------------------------
(***************************************************************************)
(* The provider's events about one address: their ingestion into           *)
(* mailer_webhook_events, the workers and ticks that claim and apply them  *)
(* to the send, the suppressions, the subscription and the breaker's       *)
(* counters, and the promotion of soft bounces.  A worker may start a pass *)
(* at any time: it has a job, or it is the tick's fallback, for which an   *)
(* event must only be older than STRANDED_WEBHOOK_THRESHOLD_MS.  Every     *)
(* action is one database operation.                                       *)
(***************************************************************************)
EXTENDS CircuitBreaker

CONSTANTS
  Event,         \* provider event ids
  Worker,        \* passes of processWebhookBacklog or promoteSoftBounces
  Mail,          \* sends to the address that were accepted
  Threshold      \* softBouncePromotionThreshold

EventType == {"delivered", "open", "soft", "hard", "complaint", "unsubscribe"}
Final     == {"hard_bounce", "complaint"}

ASSUME WebhookEventsAssumption == Threshold \in Nat

VARIABLES
  about,      \* [Event -> type and send, or absent]; does not change
  event,      \* the row of each event
  status,     \* status of each send
  soft,       \* sends with bounceType 'soft'
  worker,     \* each pass: its phase, its batch, its event and the writes to make
  health,     \* [Event -> [Counter -> how often it went into the counter]]
  promoted,   \* how often a promotion did
  applied,    \* history: events all of whose writes are made
  dropped,    \* history: events whose pass died or failed after it claimed them
  shadowed    \* history: a final event met the row of an opt-out of scope 'all'

feedback == <<about, event, status, soft, worker, health, promoted, applied, dropped, shadowed>>

Idle == [phase |-> "idle", batch |-> {}, event |-> {}, todo |-> <<>>]
Put(w, next) == worker' = [worker EXCEPT ![w] = next]

\* The route answers 200 first; the upsert is unique on the provider's event id.
\* An event whose upsert fails is as if it was never posted.
\* Mutation: the upsert is a $set.
IngestOverwriting(e) ==
  /\ about[e].type # "absent"
  /\ IF event[e] = "none" THEN UNCHANGED budget ELSE Spend("repeat")
  /\ event' = [event EXCEPT ![e] = "stored"]
  /\ UNCHANGED <<contact, breaker, about, status, soft, worker, health, promoted, applied, dropped,
                 shadowed>>
Ingest(e) ==
  /\ about[e].type # "absent"
  /\ IF event[e] = "none" THEN UNCHANGED budget ELSE Spend("repeat")
  /\ event' = [event EXCEPT ![e] = IF @ = "none" THEN "stored" ELSE @]
  /\ UNCHANGED <<contact, breaker, about, status, soft, worker, health, promoted, applied, dropped,
                 shadowed>>

Waiting == {e \in Event : event[e] = "stored"}

\* find(processed: false).
ReadBacklog(w) ==
  /\ worker[w].phase = "idle" /\ Waiting # {}
  /\ Put(w, [Idle EXCEPT !.phase = "claim", !.batch = Waiting])
  /\ UNCHANGED <<contact, breaker, budget, about, event, status, soft, health, promoted, applied,
                 dropped, shadowed>>

Claimable(e) == event[e] = "stored"

\* At most once: processed is set before the event is applied.
Claim(w) ==
  /\ worker[w].phase = "claim"
  /\ \E e \in worker[w].batch :
       IF Claimable(e)
       THEN /\ event' = [event EXCEPT ![e] = "processed"]
            /\ Put(w, [worker[w] EXCEPT !.phase = "find", !.batch = @ \ {e}, !.event = {e}])
       ELSE /\ Put(w, [worker[w] EXCEPT !.batch = @ \ {e}])
            /\ UNCHANGED event
  /\ UNCHANGED <<contact, breaker, budget, about, status, soft, health, promoted, applied, dropped,
                 shadowed>>

EndPass(w) ==
  /\ worker[w].phase = "claim" /\ worker[w].batch = {}
  /\ Put(w, Idle)
  /\ UNCHANGED <<contact, breaker, budget, about, event, status, soft, health, promoted, applied,
                 dropped, shadowed>>

\* Writes of an event: to the send, to the contact, to the counters.
MarkSend(to) == Write("send", {}, to)
Count(k)     == Write("count", {}, k)

MailStatus == {"sent", "delivered", "bounced", "complained"}
EventWrite == ContactWrite \cup {MarkSend(to) : to \in MailStatus} \cup {Count(k) : k \in Counter}

\* 'open' writes the status it has read, but for 'sent'.
EventWrites(type, read) ==
  CASE type = "delivered"   -> <<MarkSend("delivered"), Count("delivered")>>
    [] type = "open"        -> <<MarkSend(IF read = "sent" THEN "delivered" ELSE read)>>
    [] type = "soft"        -> <<MarkSend("bounced"), Count("bounced"), Count("softBounced")>>
    [] type = "hard"        -> <<MarkSend("bounced"), Insert("all", "hard_bounce"),
                                 SetStatus("bounced"), Count("bounced"), Count("hardBounced")>>
    [] type = "complaint"   -> <<MarkSend("complained"), Insert("all", "complaint"),
                                 SetStatus("complained"), Count("complained")>>
    [] type = "unsubscribe" -> <<Insert("marketing", "unsubscribed"),
                                 SetStatus("unsubscribed")>>

FindSend(w) ==
  /\ worker[w].phase = "find"
  /\ \E e \in worker[w].event :
       Put(w, [worker[w] EXCEPT !.phase = "apply",
                                !.todo = EventWrites(about[e].type, status[about[e].send])])
  /\ UNCHANGED <<contact, breaker, budget, about, event, status, soft, health, promoted, applied,
                 dropped, shadowed>>

\* promoteSoftBounces: the aggregate over bounced sends, and the address has no
\* row of scope 'all'; the two reads are taken as one.
Offends == Cardinality({m \in soft : status[m] = "bounced"}) >= Threshold
ReadOffenders(w) ==
  /\ worker[w].phase = "idle" /\ Threshold > 0 /\ Offends
  /\ supp["all"] = "none"
  /\ Put(w, [Idle EXCEPT !.phase = "apply",
               !.todo = <<Insert("all", "hard_bounce"), SetStatus("bounced"), Count("hardBounced")>>])
  /\ UNCHANGED <<contact, breaker, budget, about, event, status, soft, health, promoted, applied,
                 dropped, shadowed>>

\* One write.
Effect(w, op) ==
  /\ IF op.do \in {"send", "count"} THEN UNCHANGED contact ELSE Do(op)
  /\ IF op.do = "send"
     THEN \E e \in worker[w].event :
            /\ status' = [status EXCEPT ![about[e].send] = op.value]
            /\ soft' = CASE about[e].type = "soft" -> soft \cup {about[e].send}
                         [] about[e].type = "hard" -> soft \ {about[e].send}
                         [] OTHER -> soft
     ELSE UNCHANGED <<status, soft>>
  /\ IF op.do = "count"
     THEN /\ bucket' = Bumped(op.value)
          /\ health' = [e \in Event |-> IF e \in worker[w].event
                                        THEN [health[e] EXCEPT ![op.value] = @ + 1] ELSE health[e]]
     ELSE UNCHANGED <<bucket, health>>
  /\ promoted' = IF op.do = "count" /\ worker[w].event = {} THEN promoted + 1 ELSE promoted
  /\ shadowed' = (shadowed \/ (op.do = "insert" /\ op.value \in Final
                               /\ supp["all"] = "unsubscribed"))

ApplyWrite(w) ==
  /\ worker[w].phase = "apply"
  /\ LET op == Head(worker[w].todo)
         rest == Tail(worker[w].todo)
     IN  /\ Effect(w, op)
         /\ applied' = IF rest = <<>> THEN applied \cup worker[w].event ELSE applied
         /\ Put(w, IF rest # <<>> THEN [worker[w] EXCEPT !.todo = rest]
                   ELSE IF worker[w].event = {} THEN Idle
                   ELSE [Idle EXCEPT !.phase = "claim", !.batch = worker[w].batch])
  /\ UNCHANGED <<eval, watch, resumed, budget, about, event, dropped>>

\* Mutation: the pass goes on with the writes of the event before.
ApplyThrowsGoingOn(w) ==
  /\ worker[w].phase \in {"find", "apply"} /\ Spend("db")
  /\ dropped' = dropped \cup worker[w].event
  /\ Put(w, [worker[w] EXCEPT !.phase = "claim"])
  /\ UNCHANGED <<contact, breaker, about, event, status, soft, health, promoted, applied, shadowed>>
\* A write throws: the event stays processed, the pass goes on with the next.
ApplyThrows(w) ==
  /\ worker[w].phase \in {"find", "apply"} /\ Spend("db")
  /\ dropped' = dropped \cup worker[w].event
  /\ Put(w, IF worker[w].event = {} THEN Idle
            ELSE [Idle EXCEPT !.phase = "claim", !.batch = worker[w].batch])
  /\ UNCHANGED <<contact, breaker, about, event, status, soft, health, promoted, applied, shadowed>>

WorkerDies(w) ==
  /\ worker[w].phase # "idle" /\ Spend("crash")
  /\ dropped' = dropped \cup worker[w].event
  /\ Put(w, Idle)
  /\ UNCHANGED <<contact, breaker, about, event, status, soft, health, promoted, applied, shadowed>>

-----------------------------------------------------------------------------
EventsInit ==
  /\ event = [e \in Event |-> "none"]
  /\ status = [m \in Mail |-> "sent"] /\ soft = {}
  /\ worker = [w \in Worker |-> Idle]
  /\ health = [e \in Event |-> Zero] /\ promoted = 0
  /\ applied = {} /\ dropped = {} /\ shadowed = FALSE

\* What a pass holds was posted; it has writes to make in phase 'apply' only.
EventsTypeOK ==
  /\ about \in [Event -> [type : EventType \cup {"absent"}, send : Mail]]
  /\ event \in [Event -> {"none", "stored", "processed"}]
  /\ status \in [Mail -> MailStatus] /\ soft \subseteq Mail
  /\ worker \in [Worker -> [phase : {"idle", "claim", "find", "apply"}, batch : SUBSET Event,
                            event : SUBSET Event, todo : Seq(EventWrite)]]
  /\ \A w \in Worker : worker[w].phase = "apply" <=> worker[w].todo # <<>>
  /\ \A e \in Event : (event[e] # "none" \/ \E w \in Worker : e \in worker[w].event)
                         => about[e].type # "absent"
  /\ health \in [Event -> [Counter -> Nat]] /\ promoted \in Nat
  /\ applied \subseteq Event /\ dropped \subseteq Event /\ shadowed \in BOOLEAN

Work(w) == ReadBacklog(w) \/ Claim(w) \/ EndPass(w) \/ FindSend(w) \/ ApplyWrite(w)

EventsNext ==
  \/ \E e \in Event : Ingest(e)
  \/ \E w \in Worker : Work(w) \/ ReadOffenders(w) \/ ApplyThrows(w) \/ WorkerDies(w)
=============================================================================
