----------------------------- MODULE MCFeedback ----------------------------
(* Small instances of Feedback for TLC.                                    *)
EXTENDS Feedback

CONSTANTS r1, r2, r3, d1, d2, e1, e2, e3, w1, w2, m1, m2, t1, t2, news

Call_(kind, scope, checked) == [kind |-> kind, scope |-> scope, checked |-> checked]
NoCall   == Call_("absent", "all", {})
OneClick(s) == Call_("one-click", s, {})
AllForms ==
  {NoCall, OneClick("marketing"), OneClick("all"), OneClick(news),
   Call_("host-resubscribe", "marketing", {}), Call_("host-suppress", "all", {})}
  \cup {Call_(k, "marketing", on) : k \in OptOutForms \cup PageForms \cup {"pause", "resume", "confirm"},
                                    on \in {{}, {news}}}

NoEvent == [type |-> "absent", send |-> m1]
Of(type, m) == [type |-> type, send |-> m]

Calls(a, b, c)  == (r1 :> a) @@ (r2 :> b) @@ (r3 :> c)
Events(a, b, c) == (e1 :> a) @@ (e2 :> b) @@ (e3 :> c)
\* What is in A happens at most once, what is in B twice.
Rarely(A, B) == [x \in Rare |-> IF x \in A THEN 1 ELSE IF x \in B THEN 2 ELSE 0]
With(asks, posts, A, B) ==
  [form |-> asks, about |-> posts, ticks |-> {}, bound |-> Rarely(A, B)]

NoCalls  == Calls(NoCall, NoCall, NoCall)
NoEvents == Events(NoEvent, NoEvent, NoEvent)
Watched_(posts, ticks, A, B) ==
  [form |-> NoCalls, about |-> posts, ticks |-> ticks, bound |-> Rarely(A, B)]
Page(kind, on) == Call_(kind, "marketing", on)

Out  == OneClick("marketing")
Host == Call_("host-resubscribe", "marketing", {})

\* An opt-out through the journal; opt-outs against opt-ins; events against
\* each other; opt-outs and opt-ins against events; events and the breaker.
JournalScenarios ==
  {With(Calls(Out, NoCall, NoCall), NoEvents, {"db", "slow", "crash", "disk"}, {}),
   With(Calls(Out, OneClick(news), NoCall), NoEvents, {"db", "slow"}, {}),
   With(Calls(Out, Page("unsubscribe-all", {}), NoCall), NoEvents, {"crash"}, {"db"}),
   With(Calls(Out, NoCall, NoCall), NoEvents, {"crash"}, {"slow"})}
CallScenarios ==
  {With(Calls(Out, Page("resubscribe", {news}), Page("pause", {})), NoEvents, {"slow"}, {}),
   With(Calls(Page("unsubscribe-all", {}), Page("save", {news}), Page("resume", {})), NoEvents,
        {"db"}, {}),
   With(Calls(OneClick(news), Page("save", {}), Host), NoEvents, {"slow"}, {}),
   With(Calls(Out, Host, Page("confirm", {})), NoEvents, {"crash"}, {})}
EventScenarios ==
  {With(NoCalls, Events(Of("hard", m1), Of("delivered", m1), Of("open", m1)),
        {"repeat", "crash"}, {}),
   With(NoCalls, Events(Of("soft", m1), Of("soft", m2), Of("complaint", m2)), {"db"}, {})}
MixedScenarios ==
  {With(Calls(OneClick("all"), Host, NoCall), Events(Of("hard", m1), NoEvent, NoEvent), {}, {}),
   With(Calls(Call_("host-suppress", "all", {}), Host, NoCall),
        Events(Of("complaint", m1), Of("unsubscribe", m1), NoEvent), {}, {}),
   With(Calls(OneClick("all"), NoCall, NoCall),
        Events(Of("soft", m1), Of("soft", m2), NoEvent), {}, {})}
BreakerScenarios ==
  {Watched_(Events(Of("hard", m1), NoEvent, NoEvent), {t1}, {"resume"}, {"mail"}),
   Watched_(Events(Of("complaint", m1), NoEvent, NoEvent), {t1, t2}, {"window", "mail"}, {}),
   Watched_(NoEvents, {t1}, {"mail", "crash"}, {})}
Limits == [k \in Watched |-> 50]
OptOutScenarios == BreakerScenarios \cup JournalScenarios \cup CallScenarios \cup EventScenarios \cup MixedScenarios
\* Who had opted out of 'all' bounces, and opts in again.
BounceScenarios ==
  {With(Calls(OneClick("all"), Host, NoCall), Events(Of("hard", m1), NoEvent, NoEvent), {}, {})}
=============================================================================
