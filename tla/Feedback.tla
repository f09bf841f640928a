------------------------------ MODULE Feedback -----------------------------
(***************************************************************************)
(* One address between its owner and the provider: opt-outs and opt-ins    *)
(* (UnsubJournal) and bounces and complaints (WebhookEvents) write to the  *)
(* same rows, and what the provider reports is what the CircuitBreaker     *)
(* trips on.  A scenario says which calls and events a behaviour has, which*)
(* ticks evaluate the breaker and how often what is rare may happen.       *)
(***************************************************************************)
EXTENDS UnsubJournal, WebhookEvents

CONSTANTS Scenario

ASSUME FeedbackAssumption ==
  \A x \in Scenario :
    /\ x.form \in [Request -> Form]
    /\ x.about \in [Event -> [type : EventType \cup {"absent"}, send : Mail]]
    /\ x.ticks \subseteq Tick
    /\ x.bound \in [Rare -> Nat]

vars == <<contact, budget, unsubs, feedback, breaker>>

Init ==
  /\ ContactInit /\ JournalInit /\ EventsInit /\ BreakerInit
  /\ \E x \in Scenario :
       form = x.form /\ about = x.about /\ watch = x.ticks /\ budget = x.bound

Next == \/ JournalNext /\ UNCHANGED <<feedback, breaker>>
        \/ EventsNext /\ UNCHANGED unsubs
        \/ BreakerNext /\ UNCHANGED <<contact, unsubs, feedback>>

Spec == Init /\ [][Next]_vars

\* A call that was made and a pass that was started go on, the tick comes
\* again, and a claim whose holder died grows old.  Nobody has to call, to
\* pause or to post an event.
FairSpec ==
  /\ Spec
  /\ \A r \in Request : WF_vars(Call(r) /\ UNCHANGED <<feedback, breaker>>)
  /\ \A d \in Drainer : WF_vars(Pass(d) /\ UNCHANGED <<feedback, breaker>>)
  /\ \A f \in File : WF_vars(Age(f) /\ UNCHANGED <<feedback, breaker>>)
  /\ \A w \in Worker : WF_vars(Work(w) /\ UNCHANGED unsubs)
  /\ \A t \in Tick : WF_vars(Evaluate(t) /\ UNCHANGED <<contact, unsubs, feedback>>)

-----------------------------------------------------------------------------
TypeOK == ContactTypeOK /\ JournalTypeOK /\ EventsTypeOK /\ BreakerTypeOK

\* What a call asked to be opted in to.
OptIns(r) ==
  CASE form[r].kind = "save"             -> form[r].checked
    [] form[r].kind = "resubscribe"      -> form[r].checked \cup {"marketing", "all"}
    [] form[r].kind = "host-resubscribe" -> OptInScopes(form[r].scope)
    [] OTHER                             -> {}

Answered200(r) == http[r] \in {"ok", "journaled"}

\* An opt-out that was answered with 200 is in the database or on disk, whatever
\* fails, dies, is adopted or is returned in between; but for a line that was
\* written to a journal that the drain had already renamed and read (see
\* below).  (public.ts writeOptOutsDurably, unsub-journal.ts, INVARIANT 8.)
AcknowledgedKept ==
  \A r \in Request : Answered200(r) =>
    \A s \in OptOuts(r) : <<r, s>> \in landed \cup tardy \/ OnDisk(<<r, s>>)

\* A block is lifted by a call that opts in to its scope, and only where an
\* unsubscribe made it: Save on the preference page never lifts a marketing-wide
\* opt-out, and a bounce, a complaint or the host's own row is nobody's to lift.
\* (public.ts:500, preferences.ts setPreferences, clearUnsubscribeSuppressions.)
BlocksStay ==
  [][\A s \in Scope \ {"marketing_pause"} :
       supp[s] # "none" /\ supp'[s] = "none" =>
         /\ supp[s] = "unsubscribed"
         /\ \E r \in Request : s \in OptIns(r) /\ http[r] # "none"]_vars

FinalApplied == (\E e \in applied : about[e].type \in {"hard", "complaint"}) \/ promoted > 0
AllBlocked   == /\ IsSuppressed("transactional", "none")
                /\ \A c \in Category \cup {"none"} : IsSuppressed("marketing", c)

\* After a hard bounce, a complaint or a promotion was applied no mail of any
\* kind goes to the address, whatever the recipient or the host does then;
\* but for an address that had opted out of 'all' (see below).  (webhook.ts
\* applyWebhookEvent, bounce-promotion.ts, unsubscribe.ts:24.)
FinalBlocks == FinalApplied => AllBlocked \/ shadowed

\* An event goes at most once into each counter of the circuit breaker, however
\* often the provider posts it and however many passes find it, and into those
\* of its type if it was applied without an error.  (webhook.ts:37.)
CountersOf(type) ==
  CASE type = "delivered" -> {"delivered"}
    [] type = "soft"      -> {"bounced", "softBounced"}
    [] type = "hard"      -> {"bounced", "hardBounced"}
    [] type = "complaint" -> {"complained"}
    [] OTHER              -> {}
CountedOnce ==
  \A e \in Event, k \in Counter :
    /\ health[e][k] <= 1
    /\ e \in applied /\ k \in CountersOf(about[e].type) => health[e][k] = 1

\* A tripped bucket stays tripped, its window over or not, until the operator
\* resumes it; but for a tick that had read it before the trip (see below).
\* (health.ts evaluateHealth, "Recovery is manual", health.ts:15.)
TripStands ==
  [][bucket.status = "tripped" /\ bucket'.status # "tripped" =>
       \/ resumed' # resumed
       \/ \E t \in Tick : /\ eval[t].phase = "evaluate" /\ eval[t].seen.status # "tripped"
                          /\ eval'[t].phase = "idle"]_vars

\* A bucket whose bounces or complaints exceed a limit is tripped before long,
\* degraded or not, resumed or not, unless the window ends first.  (health.ts
\* evaluateHealth, tick.ts:110.)
Excess == /\ bucket.status \in {"healthy", "degraded"} /\ ~bucket.over
          /\ bucket.counters.sent >= MinSends /\ Exceeds(bucket.counters)
ExcessTrips == []<>~Excess

\* An opt-out that was answered with 200 gets to the database, and an event that
\* was stored is applied, but for what its pass dropped.  (pending-unsubs.ts
\* drainPendingUnsubscribes, webhook.ts processWebhookBacklog, tick.ts:117.)
AllApplied ==
  /\ \A r \in Request : Answered200(r) => \A s \in OptOuts(r) : <<r, s>> \in landed \cup tardy
  /\ \A e \in Event : event[e] # "none" => e \in applied \cup dropped
FeedbackSettles == <>[]AllApplied

-----------------------------------------------------------------------------
(* What is said of the code, and does not hold of it in every case.        *)

\* "Bounce, complaint, manual, list-cleaning and GDPR rows are not the contact's
\* preference to reverse, so they stay, and a re-subscribed address that
\* hard-bounced still does not get mail." (unsubscribe.ts:26)
BouncedStaysBlocked == FinalApplied => AllBlocked

\* "mailery never returns 200 for an unsubscribe it did not durably record."
\* (docs/reference/public-endpoints.md:115)
NeverTardy == tardy = {}

\* "Manual reset only -- mailery never auto-resumes."  A tick that had read the
\* bucket before another tripped it rolls its window or grades it afterwards
\* (health.ts:147, 238; docs/guide/configuration.md:282.)
NeverAutoResumes ==
  [][bucket.status = "tripped" /\ bucket'.status # "tripped" => resumed' # resumed]_vars
=============================================================================
