---------------------------- MODULE Suppression ----------------------------
(***************************************************************************)
(* What the database keeps of one address: its rows of                     *)
(* mailer_suppressions, which are unique on (email, scope), and the status *)
(* of its mailer_subscriptions row; and the single writes that requests,   *)
(* the drain of the journal and provider events make there.  UnsubJournal  *)
(* and WebhookEvents say who makes which writes, in what order.            *)
(***************************************************************************)
EXTENDS Naturals, Sequences, FiniteSets

CONSTANTS Category    \* scopes category:<id>, one for each declared category

ListScope == {"all", "marketing", "transactional"}
Scope     == ListScope \cup {"marketing_pause"} \cup Category
Reason    == {"unsubscribed", "hard_bounce", "complaint", "manual", "paused"}
Standing  == {"subscribed", "pending_doi", "unsubscribed", "bounced", "complained"}

\* crash: a process dies; db: a write fails; slow: a write outlasts its limit,
\* or a claim of the journal looks abandoned while its holder is alive (it is
\* slower than ADOPT_AFTER_MS, or between rename and utimes); disk: a file
\* operation fails; repeat: a provider posts an event again.  And what others
\* do to the breaker's bucket: mail: a send of theirs is counted; window: its
\* window ends; resume: an operator resumes it.
Rare == {"crash", "db", "slow", "disk", "repeat", "mail", "window", "resume"}

ASSUME SuppressionAssumption ==
  IsFiniteSet(Category) /\ Category \cap (ListScope \cup {"marketing_pause"}) = {}

VARIABLES
  supp,           \* [Scope -> the row's reason, or "none"]
  subscription,   \* status of the subscription
  budget          \* how often what is rare may still happen, see Rare

contact == <<supp, subscription>>

Spend(what) == budget[what] > 0 /\ budget' = [budget EXCEPT ![what] = @ - 1]

ContactInit == /\ supp = [s \in Scope |-> "none"]
               /\ subscription = "subscribed"

ContactTypeOK == /\ supp \in [Scope -> Reason \cup {"none"}]
                 /\ subscription \in Standing
                 /\ budget \in [Rare -> Nat]

\* The scopes that block mail of a kind and a category (or "none").
BlockingScopes(kind, category) ==
  IF kind = "transactional"
  THEN {"all", "transactional"}
  ELSE {"all", "marketing", "marketing_pause"} \cup (Category \cap {category})

\* isSuppressed; the pause that has run out is no row here.
IsSuppressed(kind, category) == \E s \in BlockingScopes(kind, category) : supp[s] # "none"

\* Writes, as the updates they are: "insert" is a $setOnInsert upsert, "clear"
\* a deleteMany, "status" a $set of the subscription.  ends names the opt-out
\* that the write completes.
Write(do, scopes, value) == [do |-> do, scopes |-> scopes, value |-> value, ends |-> {}]
Insert(s, reason) == Write("insert", {s}, reason)
Clear(scopes)     == Write("clear", scopes, "unsubscribed")
Pause             == Write("pause", {"marketing_pause"}, "paused")
Unpause           == Write("unpause", {"marketing_pause"}, "none")
SetStatus(status) == Write("status", {}, status)
Confirm           == Write("confirm", {}, "subscribed")

ContactWrite == {w \in [do : {"insert", "clear", "pause", "unpause", "status", "confirm"},
                        scopes : SUBSET Scope, value : Reason \cup Standing \cup {"none"},
                        ends : SUBSET Scope] :
                   /\ w.do \in {"insert", "clear"} => w.value \in Reason
                   /\ w.do \in {"pause", "unpause"} =>
                        w.scopes = {"marketing_pause"} /\ w.value \in {"paused", "none"}
                   /\ w.do \in {"status", "confirm"} => w.scopes = {} /\ w.value \in Standing}

\* applyUnsubscribe: a category opt-out leaves the subscription alone.
Ending(w, s) == [w EXCEPT !.ends = {s}]
OptOut(s) ==
  IF s \in Category
  THEN <<Ending(Insert(s, "unsubscribed"), s)>>
  ELSE <<Insert(s, "unsubscribed"), Ending(SetStatus("unsubscribed"), s)>>

\* clearUnsubscribeSuppressions.
OptInScopes(s) ==
  CASE s = "all"       -> ListScope
    [] s = "marketing" -> {"marketing", "all"}
    [] OTHER           -> {s}

\* Whether w replaces the row of scope s: only a pause overwrites, and only
\* what an unsubscribe wrote is cleared.
\* Mutation: an opt-in deletes every row of its scopes.
ReplacesWhenCleared(w, s) ==
  /\ s \in w.scopes
  /\ w.do = "insert" => supp[s] = "none"
Replaces(w, s) ==
  /\ s \in w.scopes
  /\ w.do = "insert" => supp[s] = "none"
  /\ w.do = "clear"  => supp[s] = "unsubscribed"

Do(w) ==
  /\ supp' = [s \in Scope |-> IF ~Replaces(w, s) THEN supp[s]
                              ELSE IF w.do = "clear" THEN "none" ELSE w.value]
  /\ subscription' = CASE w.do = "status" -> w.value
                       [] w.do = "confirm" /\ subscription = "pending_doi" -> w.value
                       [] OTHER -> subscription
=============================================================================
