--------------------------- MODULE FeedbackProofs ---------------------------
(***************************************************************************)
(* Proofs about Feedback, for every value of its constants and every       *)
(* scenario: whatever calls, events, ticks, failures and deaths there are. *)
(***************************************************************************)
EXTENDS Feedback, FiniteSetTheorems, TLAPS

-----------------------------------------------------------------------------
(* The inductive invariants.                                               *)

\* The holder of a claim has returned or applied all it had read of it, and
\* its next step unlinks it.
Doomed(f) == \E d \in Drainer : /\ file[f].holder = d /\ drain[d].phase = "unlink"
                                /\ Head(drain[d].claims) = f

\* An opt-out has landed, or is a line of a file that is not about to go.
Safe(e) == \/ e \in landed \cup tardy
           \/ \E f \in File : file[f].place # "gone" /\ e \in file[f].lines /\ ~Doomed(f)

\* A claim that is still its reader's holds no line but those the reader has
\* applied or has yet to apply or return, and late ones; when it is about to
\* be unlinked every line is safe elsewhere.
Accounted(d) ==
  drain[d].phase \in Reading /\ Claimed(d) =>
    /\ drain[d].phase \in {"apply", "return", "append"} =>
         file[Head(drain[d].claims)].lines \subseteq landed \cup tardy \cup drain[d].batch
    /\ drain[d].phase = "unlink" =>
         \A e \in file[Head(drain[d].claims)].lines : Safe(e)
ClaimsAccounted == \A d \in Drainer : Accounted(d)

\* A call within its time has landed an opt-out or has the write that ends it
\* before it; one that journals has journaled what it no longer owes.
CallAccounted(r) ==
  /\ http[r] = "waiting" => \A s \in OptOuts(r) :
       <<r, s>> \in landed \/ \E i \in 1..Len(todo[r]) : s \in todo[r][i].ends
  /\ http[r] = "ok" => \A s \in OptOuts(r) : <<r, s>> \in landed
  /\ http[r] \in {"journal", "journaled"} => \A s \in OptOuts(r) \ owed[r] : Safe(<<r, s>>)
  /\ http[r] = "journaled" => owed[r] = {}
CallsAccounted == \A r \in Request : CallAccounted(r)

\* Who has writes to make that lift a block: calls that asked for it.
LiftsAsked ==
  /\ \A r \in Request :
       /\ todo[r] # <<>> => http[r] # "none"
       /\ \A i \in 1..Len(todo[r]) :
            todo[r][i].do = "clear" => todo[r][i].scopes \subseteq OptIns(r)
  /\ \A d \in Drainer : \A i \in 1..Len(todo[d]) : todo[d][i].do # "clear"

\* A pass lifts none.
NoLifts == \A w \in Worker : \A i \in 1..Len(worker[w].todo) : worker[w].todo[i].do # "clear"

\* The address has a row of scope 'all' that no call of the recipient lifts.
Blocked == supp["all"] \notin {"none", "unsubscribed"}

\* What a pass applies stops all mail: a bounce, a complaint or a promotion.
Stops(w) == \/ worker[w].event = {}
            \/ \E e \in worker[w].event : about[e].type \in {"hard", "complaint"}

BlocksAll(op) == op.do = "insert" /\ op.scopes = {"all"} /\ op.value \in Final

\* Such a pass has the insert before it, or it is made; a promotion is counted
\* as its last write.
StopsAccounted ==
  /\ FinalApplied => Blocked \/ shadowed
  /\ \A w \in Worker : worker[w].phase = "apply" =>
       /\ Stops(w) => \/ Blocked \/ shadowed
                      \/ \E i \in 1..Len(worker[w].todo) : BlocksAll(worker[w].todo[i])
       /\ worker[w].event = {} => \A i \in 1..Len(worker[w].todo) :
            worker[w].todo[i].do = "count" => i = Len(worker[w].todo)

\* The writes of a pass that count k.
CountsLeft(w, k) == {i \in 1..Len(worker[w].todo) : /\ worker[w].todo[i].do = "count"
                                                    /\ worker[w].todo[i].value = k}

\* One pass at most holds an event, from its claim until it has applied or
\* dropped it.
HeldOnce ==
  /\ \A w \in Worker : \A e \in worker[w].event :
       /\ worker[w].event = {e} /\ worker[w].phase \in {"find", "apply"}
       /\ event[e] = "processed" /\ e \notin applied \cup dropped
       /\ \A v \in Worker : e \in worker[v].event => v = w
  /\ \A e \in applied \cup dropped : event[e] = "processed"

\* An event that no pass has begun to apply is in no counter; while a pass
\* applies it, each counter has it or has the one write before it.
CountsAccounted ==
  /\ \A e \in Event : event[e] # "processed" => health[e] = Zero
  /\ \A w \in Worker : \A e \in worker[w].event :
       /\ worker[w].phase = "find" => health[e] = Zero
       /\ worker[w].phase = "apply" => \A k \in Counter :
            /\ \A i, j \in CountsLeft(w, k) : i = j
            /\ CountsLeft(w, k) # {} => health[e][k] = 0
            /\ k \in CountersOf(about[e].type) /\ CountsLeft(w, k) = {} => health[e][k] = 1
  /\ CountedOnce

-----------------------------------------------------------------------------
(* Writes.                                                                 *)

\* A sequence of the elements of a finite set has all of them, and no other.
LEMMA Listed ==
  ASSUME NEW S, IsFiniteSet(S)
  PROVE  /\ Cardinality(S) \in Nat
         /\ SetToSeq(S) \in [1..Cardinality(S) -> S]
         /\ \A x \in S : \E i \in 1..Cardinality(S) : SetToSeq(S)[i] = x
<1> DEFINE n == Cardinality(S)
<1>1. n \in Nat /\ ExistsBijection(1..n, S)
  BY FS_CardinalityType
<1>2. PICK f \in Bijection(1..n, S) : TRUE
  BY <1>1 DEF ExistsBijection
<1>3. f \in [1..n -> S] /\ IsInjective(f)
  BY <1>2 DEF Bijection, Injection, IsInjective
<1>4. SetToSeq(S) \in [1..n -> S] /\ IsInjective(SetToSeq(S))
  BY <1>3 DEF SetToSeq
<1>5. SetToSeq(S) \in Injection(1..n, S)
  BY <1>4 DEF Injection, IsInjective
<1>6. IsFiniteSet(1..n) /\ Cardinality(1..n) = n
  BY <1>1, FS_Interval
<1>7. SetToSeq(S) \in Surjection(1..n, S)
  BY <1>5, <1>6, FS_Injection
<1>8. QED
  BY <1>1, <1>4, <1>7 DEF Surjection

\* An opt-out is one write or two, and its last one ends it.
LEMMA OptOutWrites ==
  ASSUME NEW s \in Scope
  PROVE  /\ OptOut(s) \in Seq(ContactWrite) /\ OptOut(s) # <<>>
         /\ s \in Category => Len(OptOut(s)) = 1
         /\ s \in OptOut(s)[Len(OptOut(s))].ends
         /\ \A i \in 1..Len(OptOut(s)) : OptOut(s)[i].do # "clear"
<1>1. Ending(Insert(s, "unsubscribed"), s) \in ContactWrite
  BY DEF Ending, Insert, Write, ContactWrite, Reason
<1>2. Insert(s, "unsubscribed") \in ContactWrite
  BY DEF Insert, Write, ContactWrite, Reason
<1>3. Ending(SetStatus("unsubscribed"), s) \in ContactWrite
  BY DEF Ending, SetStatus, Write, ContactWrite, Standing
<1>4. CASE s \in Category
  BY <1>1, <1>4 DEF OptOut, Ending, Insert, Write
<1>5. CASE s \notin Category
  BY <1>2, <1>3, <1>5 DEF OptOut, Ending, Insert, SetStatus, Write
<1>6. QED
  BY <1>4, <1>5

LEMMA ClearWrites ==
  ASSUME NEW s \in Scope
  PROVE  /\ Clear(OptInScopes(s)) \in ContactWrite
         /\ Clear(OptInScopes(s)).do = "clear"
         /\ Clear(OptInScopes(s)).scopes = OptInScopes(s)
         /\ s \in Category => OptInScopes(s) = {s}
<1>1. OptInScopes(s) \in SUBSET Scope
  BY DEF OptInScopes, Scope, ListScope
<1>2. Clear(OptInScopes(s)) \in ContactWrite
  BY <1>1 DEF Clear, Write, ContactWrite, Reason
<1>3. s \in Category => s \notin {"all", "marketing"}
  BY SuppressionAssumption DEF ListScope
<1>4. QED
  BY <1>2, <1>3 DEF Clear, Write, OptInScopes

\* The page's writes opt every category in that is checked, and out the others.
LEMMA PageWrites ==
  ASSUME NEW checked \in SUBSET Category
  PROVE  /\ CategoryWrites(checked) \in Seq(ContactWrite)
         /\ \A s \in Category \ checked :
              \E i \in 1..Len(CategoryWrites(checked)) : s \in CategoryWrites(checked)[i].ends
         /\ \A i \in 1..Len(CategoryWrites(checked)) :
              LET w == CategoryWrites(checked)[i]
              IN  w.do = "clear" => w.scopes \subseteq checked
<1> DEFINE n == Cardinality(Category)
           q == SetToSeq(Category)
           writes == CategoryWrites(checked)
<1>1. n \in Nat /\ q \in [1..n -> Category] /\ \A x \in Category : \E i \in 1..n : q[i] = x
  BY Listed, SuppressionAssumption
<1>2. \A c \in Category : /\ c \in Scope
                          /\ Clear(OptInScopes(c)) \in ContactWrite
                          /\ Clear(OptInScopes(c)).scopes = {c}
  BY ClearWrites DEF Scope
<1>3. \A c \in Category : /\ Head(OptOut(c)) \in ContactWrite
                          /\ c \in Head(OptOut(c)).ends /\ Head(OptOut(c)).do # "clear"
  <2>1. SUFFICES ASSUME NEW c \in Category
                 PROVE  /\ Head(OptOut(c)) \in ContactWrite
                        /\ c \in Head(OptOut(c)).ends /\ Head(OptOut(c)).do # "clear"
    OBVIOUS
  <2>2. c \in Scope
    BY DEF Scope
  <2>3. QED
    BY <2>2, OptOutWrites
<1>4. \A i \in 1..n : writes[i] = IF q[i] \in checked THEN Clear(OptInScopes(q[i]))
                                                      ELSE Head(OptOut(q[i]))
  BY DEF CategoryWrites
<1>5. DOMAIN writes = 1..n /\ \A i \in 1..n : writes[i] \in ContactWrite
  BY <1>1, <1>2, <1>3, <1>4 DEF CategoryWrites
<1>6. writes \in Seq(ContactWrite) /\ Len(writes) = n
  <2>1. writes \in [1..n -> ContactWrite]
    BY <1>5 DEF CategoryWrites
  <2>2. QED
    BY <1>1, <2>1
<1>7. \A s \in Category \ checked : \E i \in 1..n : s \in writes[i].ends
  BY <1>1, <1>3, <1>4
<1>8. \A i \in 1..n : writes[i].do = "clear" =>
                        writes[i].scopes \subseteq checked
  BY <1>1, <1>2, <1>3, <1>4
<1> HIDE DEF writes, n
<1>9. QED
  BY <1>6, <1>7, <1>8 DEF writes

\* The writes of a call end each opt-out that it asks for, and lift only what
\* it asks to be opted in to.
LEMMA CallWrites ==
  ASSUME form \in [Request -> Form], NEW r \in Request, form[r].kind # "absent"
  PROVE  /\ Writes(r) \in Seq(ContactWrite)
         /\ \A s \in OptOuts(r) : \E i \in 1..Len(Writes(r)) : s \in Writes(r)[i].ends
         /\ \A i \in 1..Len(Writes(r)) :
              LET w == Writes(r)[i]
              IN  w.do = "clear" => w.scopes \subseteq OptIns(r)
<1> DEFINE q == form[r]
           writes == Writes(r)
           Good(ws) == /\ ws \in Seq(ContactWrite)
                       /\ \A s \in OptOuts(r) : \E i \in 1..Len(ws) : s \in ws[i].ends
                       /\ \A i \in 1..Len(ws) : ws[i].do = "clear" =>
                            ws[i].scopes \subseteq OptIns(r)
<1>1. /\ q.kind \in OptOutForms \cup PageForms \cup OtherForms
      /\ q.scope \in Scope /\ q.checked \in SUBSET Category
  BY UnsubJournalAssumption
<1>2. "marketing" \in Scope /\ Category \subseteq Scope
  BY DEF Scope, ListScope
<1>3. CASE q.kind \in OptOutForms
  <2> DEFINE s == IF q.kind = "one-click" THEN q.scope ELSE "marketing"
  <2>1. s \in Scope /\ OptOuts(r) = {s} /\ writes = OptOut(s)
    <3>1. CASE q.kind = "one-click"
      BY <1>1, <3>1 DEF OptOuts, Writes, PageForms
    <3>2. CASE q.kind = "unsubscribe-all"
      BY <1>2, <3>2 DEF OptOuts, Writes, PageForms
    <3>3. QED
      BY <1>3, <3>1, <3>2 DEF OptOutForms
  <2> HIDE DEF s
  <2>2. QED
    BY <2>1, OptOutWrites
<1>4. CASE q.kind = "save"
  <2>1. OptOuts(r) = Category \ q.checked /\ writes = CategoryWrites(q.checked)
        /\ OptIns(r) = q.checked
    BY <1>4 DEF OptOuts, Writes, OptIns, PageForms
  <2>2. QED
    BY <1>1, <2>1, PageWrites
<1>5. CASE q.kind = "resubscribe"
  <2> DEFINE first == Clear(OptInScopes("marketing"))
             rest  == CategoryWrites(q.checked)
  <2>1. /\ OptOuts(r) = Category \ q.checked /\ writes = <<first>> \o rest
        /\ OptIns(r) = q.checked \cup {"marketing", "all"}
    BY <1>5 DEF OptOuts, Writes, OptIns, PageForms
  <2>2. /\ first \in ContactWrite
        /\ first.scopes = {"marketing", "all"}
    BY <1>2, ClearWrites DEF OptInScopes
  <2>3. /\ rest \in Seq(ContactWrite)
        /\ \A s \in OptOuts(r) : \E i \in 1..Len(rest) : s \in rest[i].ends
        /\ \A i \in 1..Len(rest) : rest[i].do = "clear" =>
             rest[i].scopes \subseteq q.checked
    BY <1>1, <2>1, PageWrites
  <2> HIDE DEF first, rest
  <2>4. /\ writes \in Seq(ContactWrite) /\ Len(writes) = Len(rest) + 1 /\ writes[1] = first
        /\ \A i \in 1..Len(rest) : writes[i + 1] = rest[i]
    BY <2>1, <2>2, <2>3
  <2> HIDE DEF writes
  <2>5. \A s \in OptOuts(r) : \E i \in 1..Len(writes) : s \in writes[i].ends
    <3>1. SUFFICES ASSUME NEW s \in OptOuts(r)
                   PROVE  \E i \in 1..Len(writes) : s \in writes[i].ends
      OBVIOUS
    <3>2. PICK i \in 1..Len(rest) : s \in rest[i].ends
      BY <2>3
    <3>3. i + 1 \in 1..Len(writes) /\ s \in writes[i + 1].ends
      BY <2>3, <2>4, <3>2
    <3>4. QED
      BY <3>3
  <2>6. ASSUME NEW i \in 1..Len(writes), writes[i].do = "clear"
        PROVE  writes[i].scopes \subseteq OptIns(r)
    <3>1. CASE i = 1
      BY <2>1, <2>2, <2>4, <3>1
    <3>2. CASE i # 1
      <4>1. i - 1 \in 1..Len(rest) /\ writes[i] = rest[i - 1]
        BY <2>3, <2>4, <3>2
      <4>2. QED
        BY <2>1, <2>3, <2>6, <4>1
    <3>3. QED
      BY <3>1, <3>2
  <2>7. QED
    BY <2>4, <2>5, <2>6 DEF writes
<1>6. CASE q.kind \in {"pause", "resume", "confirm", "host-suppress"}
  <2>1. OptOuts(r) = {}
    BY <1>6 DEF OptOuts, OptOutForms, PageForms
  <2>2. PICK w : writes = <<w>> /\ w \in {Pause, Unpause, Confirm, Insert(q.scope, "manual")}
    BY <1>6 DEF Writes
  <2>3. w \in ContactWrite /\ w.do # "clear"
    BY <1>1, <2>2 DEF Pause, Unpause, Confirm, Insert, Write, ContactWrite, Scope, Reason, Standing
  <2>4. QED
    BY <2>1, <2>2, <2>3
<1>7. CASE q.kind = "host-resubscribe"
  <2>1. OptOuts(r) = {} /\ OptIns(r) = OptInScopes(q.scope)
        /\ writes = <<Clear(OptInScopes(q.scope)), Subscribing>>
    BY <1>7 DEF OptOuts, OptIns, Writes, OptOutForms, PageForms
  <2>2. Subscribing \in ContactWrite /\ Subscribing.do # "clear"
    BY DEF Subscribing, SetStatus, Write, ContactWrite, Standing
  <2>3. QED
    BY <1>1, <2>1, <2>2, ClearWrites
<1>8. Good(writes)
  BY <1>1, <1>3, <1>4, <1>5, <1>6, <1>7 DEF OptOutForms, PageForms, OtherForms
<1>9. QED
  BY <1>8

\* A write keeps the types, leaves a row of scope 'all' that no opt-in lifts,
\* and takes a row away only as a clear or as the end of a pause.
LEMMA DoEffect ==
  ASSUME supp \in [Scope -> Reason \cup {"none"}], subscription \in Standing,
         NEW w \in ContactWrite, Do(w)
  PROVE  /\ supp' \in [Scope -> Reason \cup {"none"}] /\ subscription' \in Standing
         /\ Blocked => Blocked'
         /\ BlocksAll(w) => Blocked' \/ supp["all"] = "unsubscribed"
         /\ \A s \in Scope : supp[s] # "none" /\ supp'[s] = "none" =>
              \/ s = "marketing_pause"
              \/ w.do = "clear" /\ s \in w.scopes /\ supp[s] = "unsubscribed"
<1>1. /\ w.scopes \in SUBSET Scope
      /\ w.do \in {"insert", "clear", "pause", "unpause", "status", "confirm"}
      /\ w.do \in {"insert", "clear"} => w.value \in Reason
      /\ w.do \in {"pause", "unpause"} =>
           w.scopes = {"marketing_pause"} /\ w.value \in {"paused", "none"}
      /\ w.do \in {"status", "confirm"} => w.scopes = {} /\ w.value \in Standing
  BY DEF ContactWrite
<1>2. \A s \in Scope : supp'[s] = IF ~Replaces(w, s) THEN supp[s]
                                  ELSE IF w.do = "clear" THEN "none" ELSE w.value
  BY DEF Do
<1>3. "all" \in Scope /\ "all" # "marketing_pause"
  BY DEF Scope, ListScope
<1>4. supp' \in [Scope -> Reason \cup {"none"}]
  <2>1. \A s \in Scope : supp'[s] \in Reason \cup {"none"}
    BY <1>1, <1>2 DEF Replaces, Reason
  <2>2. QED
    BY <2>1 DEF Do
<1>5. subscription' \in Standing
  BY <1>1 DEF Do
<1>6. Blocked => Blocked'
  BY <1>1, <1>2, <1>3 DEF Blocked, Replaces
<1>7. BlocksAll(w) => Blocked' \/ supp["all"] = "unsubscribed"
  BY <1>1, <1>2, <1>3 DEF Blocked, BlocksAll, Replaces, Final
<1>8. \A s \in Scope : supp[s] # "none" /\ supp'[s] = "none" =>
        \/ s = "marketing_pause"
        \/ w.do = "clear" /\ s \in w.scopes /\ supp[s] = "unsubscribed"
  BY <1>1, <1>2 DEF Replaces, Reason
<1>9. QED
  BY <1>4, <1>5, <1>6, <1>7, <1>8

-----------------------------------------------------------------------------
(* Types.                                                                  *)

LEMMA SpendType ==
  ASSUME budget \in [Rare -> Nat], NEW what \in Rare, Spend(what)
  PROVE  budget' \in [Rare -> Nat]
BY DEF Spend

LEMMA InitTypes == Init => TypeOK
<1>1. SUFFICES ASSUME Init PROVE TypeOK
  OBVIOUS
<1>2. PICK x \in Scenario : form = x.form /\ about = x.about /\ watch = x.ticks /\ budget = x.bound
  BY <1>1 DEF Init
<1>3. ContactTypeOK
  BY <1>1, <1>2, FeedbackAssumption DEF Init, ContactInit, ContactTypeOK, Standing
<1>4. JournalTypeOK
  <2>1. form \in [Request -> Form]
    BY <1>2, FeedbackAssumption
  <2>2. NoPass \in [phase : {"idle", "adopt", "next"} \cup Reading, listing : SUBSET File,
                    claims : Seq(File), batch : SUBSET Entry, left : 0..PerPass]
    BY UnsubJournalAssumption DEF NoPass
  <2>3. NoFile \in [place : {"gone", "live", "claim"}, lines : SUBSET Entry,
                    old : BOOLEAN, holder : Drainer \cup {Nobody}]
    BY DEF NoFile
  <2>4. Live = {}
    BY <1>1 DEF Init, JournalInit, NoFile, Live
  <2>5. \A d \in Drainer : drain[d].phase = "idle"
    BY <1>1 DEF Init, JournalInit, NoPass
  <2>6. QED
    BY <1>1, <2>1, <2>2, <2>3, <2>4, <2>5 DEF Init, JournalInit, JournalTypeOK, Reading
<1>5. EventsTypeOK
  <2>1. Zero \in [Counter -> Nat]
    BY DEF Zero
  <2>2. about \in [Event -> [type : EventType \cup {"absent"}, send : Mail]]
    BY <1>2, FeedbackAssumption
  <2>3. Idle \in [phase : {"idle", "claim", "find", "apply"}, batch : SUBSET Event,
                  event : SUBSET Event, todo : Seq(EventWrite)]
    BY DEF Idle
  <2>4. \A w \in Worker : worker[w] = Idle
    BY <1>1 DEF Init, EventsInit
  <2>5. \A w \in Worker : (worker[w].phase = "apply" <=> worker[w].todo # <<>>)
                           /\ worker[w].event = {}
    BY <2>4 DEF Idle
  <2>6. QED
    BY <1>1, <2>1, <2>2, <2>3, <2>5 DEF Init, EventsInit, EventsTypeOK, MailStatus
<1>6. BreakerTypeOK
  <2>1. Absent \in Bucket
    BY DEF Absent, Bucket, Zero
  <2>2. QED
    BY <1>1, <1>2, <2>1, FeedbackAssumption DEF Init, BreakerInit, BreakerTypeOK, Resting
<1>7. QED
  BY <1>3, <1>4, <1>5, <1>6 DEF TypeOK

FileOK == /\ file \in [File -> [place : {"gone", "live", "claim"}, lines : SUBSET Entry,
                                old : BOOLEAN, holder : Drainer \cup {Nobody}]]
          /\ \A f, g \in Live : f = g

LEMMA OpenType ==
  ASSUME FileOK, fd \in [Request \cup Drainer -> File \cup {0}],
         NEW a \in Request \cup Drainer, NEW f \in File, Open(a, f)
  PROVE  /\ FileOK' /\ fd' \in [Request \cup Drainer -> File \cup {0}]
         /\ fd' = [fd EXCEPT ![a] = f] /\ f # 0
<1>1. fd' = [fd EXCEPT ![a] = f] /\ f # 0
  BY UnsubJournalAssumption DEF Open, File
<1>2. CASE f \in Live /\ UNCHANGED file
  BY <1>1, <1>2 DEF FileOK, Live
<1>3. CASE Live = {} /\ file' = [file EXCEPT ![f] = [NoFile EXCEPT !.place = "live"]]
  <2>1. /\ [NoFile EXCEPT !.place = "live"] \in
              [place : {"gone", "live", "claim"}, lines : SUBSET Entry, old : BOOLEAN,
               holder : Drainer \cup {Nobody}]
        /\ [NoFile EXCEPT !.place = "live"].place = "live"
    BY DEF NoFile
  <2>2. \A g \in File : file'[g].place = "live" => g = f
    BY <1>3, <2>1 DEF FileOK, Live
  <2>3. \A g, h \in Live' : g = h
    BY <2>2 DEF Live
  <2>4. QED
    BY <1>1, <1>3, <2>1, <2>3 DEF FileOK
<1>4. QED
  BY <1>2, <1>3 DEF Open

LEMMA AppendType ==
  ASSUME FileOK, fd \in [Request \cup Drainer -> File \cup {0}], tardy \subseteq Entry,
         NEW a \in Request \cup Drainer, NEW entries \in SUBSET Entry,
         fd[a] # 0, AppendLines(a, entries)
  PROVE  /\ FileOK' /\ fd' \in [Request \cup Drainer -> File \cup {0}]
         /\ fd' = [fd EXCEPT ![a] = 0] /\ tardy' \subseteq Entry
<1>1. fd[a] \in File
  OBVIOUS
<1>2. \A g \in File : file'[g].place = file[g].place
  BY <1>1 DEF AppendLines, FileOK
<1>3. Live' = Live
  BY <1>2 DEF Live
<1>4. file' \in [File -> [place : {"gone", "live", "claim"}, lines : SUBSET Entry,
                          old : BOOLEAN, holder : Drainer \cup {Nobody}]]
  BY <1>1 DEF AppendLines, FileOK
<1>5. QED
  BY <1>3, <1>4 DEF AppendLines, FileOK

\* Steps of a call.
LEMMA CallTypes ==
  ASSUME ContactTypeOK, JournalTypeOK, NEW r \in Request,
         Submit(r) \/ Call(r) \/ DbFails(r) \/ Timeout(r) \/ JournalFails(r) \/ CallDies(r)
  PROVE  ContactTypeOK' /\ JournalTypeOK'
<1> USE DEF contact, calls, journal
<1>1. CASE Submit(r)
  BY <1>1, CallWrites DEF Submit, ContactTypeOK, JournalTypeOK, Live
<1>2. CASE DbWrite(r)
  <2>1. Head(todo[r]) \in ContactWrite /\ Tail(todo[r]) \in Seq(ContactWrite)
    BY <1>2 DEF DbWrite, JournalTypeOK
  <2>2. OptOuts(r) \subseteq Scope
    BY UnsubJournalAssumption DEF JournalTypeOK, OptOuts, Scope, ListScope
  <2>3. landed' \subseteq Entry
    BY <1>2, <2>2 DEF DbWrite, JournalTypeOK, Ends, Entry
  <2>4. QED
    BY <1>2, <2>1, <2>3, DoEffect DEF DbWrite, ContactTypeOK, JournalTypeOK, Live
<1>3. CASE Answer(r)
  BY <1>3 DEF Answer, ContactTypeOK, JournalTypeOK, Live
<1>4. CASE JournalOpen(r)
  <2>1. PICK f \in File : Open(r, f)
    BY <1>4 DEF JournalOpen
  <2>2. FileOK' /\ fd' \in [Request \cup Drainer -> File \cup {0}] /\ fd' = [fd EXCEPT ![r] = f]
    BY <2>1, OpenType DEF FileOK, JournalTypeOK
  <2>3. \A d \in Drainer : fd'[d] = fd[d]
    BY <2>2, UnsubJournalAssumption DEF JournalTypeOK
  <2>4. QED
    BY <1>4, <2>2, <2>3 DEF JournalOpen, ContactTypeOK, JournalTypeOK, FileOK
<1>5. CASE JournalWrite(r)
  <2>1. PICK s \in owed[r] : AppendLines(r, {<<r, s>>}) /\ owed' = [owed EXCEPT ![r] = @ \ {s}]
    BY <1>5 DEF JournalWrite
  <2>2. {<<r, s>>} \in SUBSET Entry
    BY DEF JournalTypeOK, Entry
  <2>3. /\ FileOK' /\ fd' \in [Request \cup Drainer -> File \cup {0}] /\ fd' = [fd EXCEPT ![r] = 0]
        /\ tardy' \subseteq Entry
    BY <1>5, <2>1, <2>2, AppendType DEF FileOK, JournalTypeOK, JournalWrite
  <2>4. \A d \in Drainer : fd'[d] = fd[d]
    BY <2>3, UnsubJournalAssumption DEF JournalTypeOK
  <2>5. QED
    BY <1>5, <2>1, <2>3, <2>4 DEF JournalWrite, ContactTypeOK, JournalTypeOK, FileOK
<1>6. CASE Journaled(r)
  BY <1>6 DEF Journaled, ContactTypeOK, JournalTypeOK, Live
<1>7. CASE DbFails(r) \/ Timeout(r)
  <2>1. budget' \in [Rare -> Nat]
    BY <1>7, SpendType DEF DbFails, Timeout, ContactTypeOK, Rare
  <2>2. OptOuts(r) \subseteq Scope
    BY UnsubJournalAssumption DEF JournalTypeOK, OptOuts, Scope, ListScope
  <2>3. /\ http' \in [Request -> {"none", "waiting", "journal", "ok", "journaled", "failed", "dead"}]
        /\ owed' \in [Request -> SUBSET Scope]
    BY <1>7, <2>2 DEF DbFails, Timeout, Journaling, JournalTypeOK
  <2>4. todo' \in [Request \cup Drainer -> Seq(ContactWrite)]
    <3>1. <<>> \in Seq(ContactWrite)
      OBVIOUS
    <3>2. CASE DbFails(r)
      BY <3>1, <3>2 DEF DbFails, JournalTypeOK
    <3>3. CASE Timeout(r)
      BY <3>3 DEF Timeout, JournalTypeOK
    <3>4. QED
      BY <1>7, <3>2, <3>3
  <2>5. UNCHANGED <<contact, form, fd, file, drain, landed, tardy>>
    BY <1>7 DEF DbFails, Timeout
  <2>6. QED
    BY <2>1, <2>3, <2>4, <2>5 DEF ContactTypeOK, JournalTypeOK, Live
<1>8. CASE JournalFails(r) \/ CallDies(r)
  <2>1. budget' \in [Rare -> Nat]
    BY <1>8, SpendType DEF JournalFails, CallDies, ContactTypeOK, Rare
  <2>2. \A d \in Drainer : fd'[d] = fd[d]
    BY <1>8, UnsubJournalAssumption DEF JournalFails, CallDies, JournalTypeOK
  <2>3. /\ http' \in [Request -> {"none", "waiting", "journal", "ok", "journaled", "failed", "dead"}]
        /\ todo' \in [Request \cup Drainer -> Seq(ContactWrite)]
        /\ fd' \in [Request \cup Drainer -> File \cup {0}]
    <3>1. <<>> \in Seq(ContactWrite)
      OBVIOUS
    <3>2. CASE JournalFails(r)
      BY <3>2 DEF JournalFails, JournalTypeOK
    <3>3. CASE CallDies(r)
      BY <3>1, <3>3 DEF CallDies, JournalTypeOK
    <3>4. QED
      BY <1>8, <3>2, <3>3
  <2>4. UNCHANGED <<contact, form, owed, file, drain, landed, tardy>>
    BY <1>8 DEF JournalFails, CallDies
  <2>5. QED
    BY <2>1, <2>2, <2>3, <2>4 DEF ContactTypeOK, JournalTypeOK, Live
<1>9. QED
  BY <1>1, <1>2, <1>3, <1>4, <1>5, <1>6, <1>7, <1>8 DEF Call

\* Steps of the drain.
DrainType == [phase : {"idle", "adopt", "next"} \cup Reading, listing : SUBSET File,
              claims : Seq(File), batch : SUBSET Entry, left : 0..PerPass]

\* A drainer's record changes, the others' listings only shrink.
LEMMA DrainStep ==
  ASSUME drain \in [Drainer -> DrainType],
         \A d \in Drainer : /\ drain[d].phase \in Reading => drain[d].claims # <<>>
                            /\ drain[d].phase = "append" => fd[d] # 0,
         NEW d \in Drainer, NEW next \in DrainType,
         Step(d, next), \A c \in Drainer \ {d} : fd'[c] = fd[c],
         next.phase \in Reading => next.claims # <<>>,
         next.phase = "append" => fd'[d] # 0
  PROVE  /\ drain' \in [Drainer -> DrainType]
         /\ \A c \in Drainer : /\ drain'[c].phase \in Reading => drain'[c].claims # <<>>
                               /\ drain'[c].phase = "append" => fd'[c] # 0
BY DEF Step

LEMMA GoneStep ==
  ASSUME NEW dr \in [Drainer -> DrainType], NEW f
  PROVE  /\ Gone(dr, f) \in [Drainer -> DrainType]
         /\ \A c \in Drainer : /\ Gone(dr, f)[c].phase = dr[c].phase
                               /\ Gone(dr, f)[c].claims = dr[c].claims
                               /\ Gone(dr, f)[c].batch = dr[c].batch
BY DEF Gone, DrainType

LEMMA PassTypes ==
  ASSUME ContactTypeOK, JournalTypeOK, NEW d \in Drainer,
         Pass(d) \/ ApplyFails(d) \/ DrainDies(d)
  PROVE  ContactTypeOK' /\ JournalTypeOK'
<1> USE DEF contact, calls, journal
<1>0. drain \in [Drainer -> DrainType] /\ drain[d] \in DrainType /\ NoPass \in DrainType
  BY UnsubJournalAssumption DEF JournalTypeOK, DrainType, NoPass
<1>1. CASE StartPass(d)
  <2> DEFINE next == [NoPass EXCEPT !.phase = "adopt", !.left = PerPass,
                                    !.listing = {f \in File : file[f].place = "claim"}]
  <2>1. next \in DrainType /\ next.phase = "adopt"
    <3>1. PerPass \in 0..PerPass /\ {f \in File : file[f].place = "claim"} \in SUBSET File
      BY UnsubJournalAssumption
    <3>2. QED
      BY <1>0, <3>1 DEF DrainType
  <2>2. Step(d, next) /\ UNCHANGED fd
    BY <1>1 DEF StartPass
  <2> HIDE DEF next
  <2>3. /\ drain' \in [Drainer -> DrainType]
        /\ \A c \in Drainer : /\ drain'[c].phase \in Reading => drain'[c].claims # <<>>
                              /\ drain'[c].phase = "append" => fd'[c] # 0
    BY <1>0, <2>1, <2>2, DrainStep DEF JournalTypeOK, Reading
  <2>4. QED
    BY <1>1, <2>3 DEF StartPass, ContactTypeOK, JournalTypeOK, DrainType, Live
<1>2. CASE Adopt(d)
  <2>1. PICK f \in drain[d].listing :
          /\ file' = [file EXCEPT ![f].holder = d, ![f].old = FALSE]
          /\ drain' = Gone([drain EXCEPT ![d].claims = @ \o <<f>>], f)
    BY <1>2 DEF Adopt
  <2> DEFINE dr == [drain EXCEPT ![d].claims = @ \o <<f>>]
  <2>2. f \in File
    BY <1>0 DEF DrainType
  <2>3. drain[d].claims \o <<f>> \in Seq(File)
    BY <1>0, <2>2 DEF DrainType
  <2>4. /\ dr \in [Drainer -> DrainType]
        /\ \A c \in Drainer : dr[c].phase = drain[c].phase /\ (c # d => dr[c] = drain[c])
    BY <1>0, <2>3 DEF DrainType
  <2> HIDE DEF dr
  <2>5. /\ drain' \in [Drainer -> DrainType]
        /\ \A c \in Drainer : drain'[c].phase = dr[c].phase /\ drain'[c].claims = dr[c].claims
    BY <2>1, <2>4, GoneStep DEF dr
  <2>6. \A c \in Drainer : /\ drain'[c].phase \in Reading => drain'[c].claims # <<>>
                           /\ drain'[c].phase = "append" => fd'[c] # 0
    <3>1. UNCHANGED fd /\ drain[d].phase = "adopt"
      BY <1>2 DEF Adopt
    <3>2. \A c \in Drainer : /\ drain[c].phase \in Reading => drain[c].claims # <<>>
                             /\ drain[c].phase = "append" => fd[c] # 0
      BY DEF JournalTypeOK
    <3>3. QED
      BY <2>4, <2>5, <3>1, <3>2 DEF Reading
  <2>7. /\ file' \in [File -> [place : {"gone", "live", "claim"}, lines : SUBSET Entry,
                               old : BOOLEAN, holder : Drainer \cup {Nobody}]]
        /\ \A g \in File : file'[g].place = file[g].place
    <3> DEFINE next == [file[f] EXCEPT !.holder = d, !.old = FALSE]
    <3>1. /\ next \in [place : {"gone", "live", "claim"}, lines : SUBSET Entry,
                       old : BOOLEAN, holder : Drainer \cup {Nobody}]
          /\ next.place = file[f].place
      BY <2>2 DEF JournalTypeOK
    <3>2. file' = [file EXCEPT ![f] = next]
      BY <2>1, <2>2
    <3> HIDE DEF next
    <3>3. QED
      BY <2>2, <3>1, <3>2 DEF JournalTypeOK
  <2>8. Live' = Live
    BY <2>7 DEF Live
  <2>9. QED
    BY <1>2, <2>5, <2>6, <2>7, <2>8 DEF Adopt, ContactTypeOK, JournalTypeOK, DrainType
<1>3. CASE ClaimJournal(d)
  <2>1. CASE Live = {}
    <3> DEFINE next == [drain[d] EXCEPT !.phase = "next", !.listing = {}]
    <3>1. next \in DrainType /\ next.phase = "next"
      BY <1>0 DEF DrainType
    <3>2. Step(d, next) /\ UNCHANGED <<file, fd>>
      BY <1>3, <2>1 DEF ClaimJournal
    <3> HIDE DEF next
    <3>3. /\ drain' \in [Drainer -> DrainType]
          /\ \A c \in Drainer : /\ drain'[c].phase \in Reading => drain'[c].claims # <<>>
                                /\ drain'[c].phase = "append" => fd'[c] # 0
      BY <1>0, <3>1, <3>2, DrainStep DEF JournalTypeOK, Reading
    <3>4. QED
      BY <1>3, <3>2, <3>3 DEF ClaimJournal, ContactTypeOK, JournalTypeOK, DrainType, Live
  <2>2. CASE Live # {}
    <3>1. PICK f \in Live :
            /\ file' = [file EXCEPT ![f].place = "claim", ![f].holder = d]
            /\ Step(d, [drain[d] EXCEPT !.phase = "next", !.listing = {}, !.claims = @ \o <<f>>])
      BY <1>3, <2>2 DEF ClaimJournal
    <3> DEFINE next == [drain[d] EXCEPT !.phase = "next", !.listing = {}, !.claims = @ \o <<f>>]
    <3>2. f \in File
      BY DEF Live
    <3>3. drain[d].claims \o <<f>> \in Seq(File)
      BY <1>0, <3>2 DEF DrainType
    <3>4. next \in DrainType /\ next.phase = "next"
      BY <1>0, <3>3 DEF DrainType
    <3>5. Step(d, next) /\ UNCHANGED fd
      BY <1>3, <3>1 DEF ClaimJournal
    <3> HIDE DEF next
    <3>6. /\ drain' \in [Drainer -> DrainType]
          /\ \A c \in Drainer : /\ drain'[c].phase \in Reading => drain'[c].claims # <<>>
                                /\ drain'[c].phase = "append" => fd'[c] # 0
      BY <1>0, <3>4, <3>5, DrainStep DEF JournalTypeOK, Reading
    <3>7. /\ file' \in [File -> [place : {"gone", "live", "claim"}, lines : SUBSET Entry,
                                 old : BOOLEAN, holder : Drainer \cup {Nobody}]]
          /\ Live' = {}
      BY <3>1, <3>2 DEF JournalTypeOK, Live
    <3>8. QED
      BY <1>3, <3>6, <3>7 DEF ClaimJournal, ContactTypeOK, JournalTypeOK, DrainType
  <2>3. QED
    BY <2>1, <2>2
<1>4. CASE ReadClaim(d)
  <2> DEFINE read == IF Claimed(d) THEN file[Head(drain[d].claims)].lines ELSE {}
             next == IF drain[d].claims = <<>> THEN NoPass
                     ELSE [drain[d] EXCEPT !.phase = "apply", !.batch = read]
  <2>1. drain[d].claims # <<>> => Head(drain[d].claims) \in File
    BY <1>0 DEF DrainType
  <2>2. drain[d].claims # <<>> => read \in SUBSET Entry
    BY <2>1 DEF JournalTypeOK
  <2>3. /\ next \in DrainType /\ (next.phase \in Reading => next.claims # <<>>)
        /\ next.phase # "append"
    BY <1>0, <2>2 DEF DrainType, NoPass, Reading
  <2>4. Step(d, next) /\ UNCHANGED fd
    BY <1>4 DEF ReadClaim
  <2> HIDE DEF next
  <2>5. /\ drain' \in [Drainer -> DrainType]
        /\ \A c \in Drainer : /\ drain'[c].phase \in Reading => drain'[c].claims # <<>>
                              /\ drain'[c].phase = "append" => fd'[c] # 0
    BY <1>0, <2>3, <2>4, DrainStep DEF JournalTypeOK
  <2>6. QED
    BY <1>4, <2>5 DEF ReadClaim, ContactTypeOK, JournalTypeOK, DrainType, Live
<1>5. CASE ApplyEntry(d)
  <2>1. PICK e \in drain[d].batch :
          LET ops == IF todo[d] = <<>> THEN OptOut(e[2]) ELSE todo[d] IN
          /\ Do(Head(ops))
          /\ todo' = [todo EXCEPT ![d] = Tail(ops)]
          /\ landed' = landed \cup Ends({e}, Head(ops))
          /\ IF Len(ops) > 1
             THEN UNCHANGED drain
             ELSE Step(d, [drain[d] EXCEPT !.batch = @ \ {e}, !.left = @ - 1])
    BY <1>5 DEF ApplyEntry
  <2> DEFINE ops == IF todo[d] = <<>> THEN OptOut(e[2]) ELSE todo[d]
             next == [drain[d] EXCEPT !.batch = @ \ {e}, !.left = @ - 1]
  <2>2. e \in Entry /\ e[2] \in Scope
    BY <1>0 DEF DrainType, Entry
  <2>3. ops \in Seq(ContactWrite) /\ ops # <<>>
    <3>1. OptOut(e[2]) \in Seq(ContactWrite) /\ OptOut(e[2]) # <<>>
      BY <2>2, OptOutWrites
    <3>2. todo[d] \in Seq(ContactWrite)
      BY DEF JournalTypeOK
    <3>3. QED
      BY <3>1, <3>2
  <2> HIDE DEF ops
  <2>4. Head(ops) \in ContactWrite /\ Tail(ops) \in Seq(ContactWrite)
    BY <2>3
  <2>5. supp' \in [Scope -> Reason \cup {"none"}] /\ subscription' \in Standing
    BY <2>1, <2>4, DoEffect DEF ops, ContactTypeOK
  <2>6. todo' \in [Request \cup Drainer -> Seq(ContactWrite)] /\ landed' \subseteq Entry
    BY <2>1, <2>2, <2>4 DEF ops, JournalTypeOK, Ends
  <2>7. next \in DrainType /\ next.phase = "apply" /\ next.claims = drain[d].claims
    <3>1. drain[d].left > 0 /\ drain[d].phase = "apply"
      BY <1>5 DEF ApplyEntry
    <3>2. drain[d].left - 1 \in 0..PerPass
      BY <1>0, <3>1, UnsubJournalAssumption DEF DrainType
    <3>3. QED
      BY <1>0, <3>1, <3>2 DEF DrainType
  <2>8. UNCHANGED drain \/ Step(d, next)
    BY <2>1
  <2> HIDE DEF next
  <2>9. /\ drain' \in [Drainer -> DrainType]
        /\ \A c \in Drainer : /\ drain'[c].phase \in Reading => drain'[c].claims # <<>>
                              /\ drain'[c].phase = "append" => fd'[c] # 0
    <3>1. CASE UNCHANGED drain
      BY <1>0, <1>5, <3>1 DEF ApplyEntry, JournalTypeOK
    <3>2. CASE Step(d, next)
      BY <1>0, <1>5, <2>7, <3>2, DrainStep DEF ApplyEntry, JournalTypeOK, Reading
    <3>3. QED
      BY <2>8, <3>1, <3>2
  <2>10. QED
    BY <1>5, <2>5, <2>6, <2>9 DEF ApplyEntry, ContactTypeOK, JournalTypeOK, DrainType, Live
<1>6. CASE ApplyFails(d) \/ ApplyDone(d)
  <2> DEFINE p == IF ApplyFails(d) THEN "return"
                  ELSE IF drain[d].batch = {} THEN "unlink" ELSE "return"
             next == [drain[d] EXCEPT !.phase = p]
  <2>1. /\ next \in DrainType /\ next.phase \in {"return", "unlink"}
        /\ next.claims = drain[d].claims
    BY <1>0 DEF DrainType, Reading
  <2>2. Step(d, next) /\ UNCHANGED fd /\ drain[d].phase = "apply"
    BY <1>6 DEF ApplyFails, ApplyDone, Phase
  <2> HIDE DEF next, p
  <2>3. /\ drain' \in [Drainer -> DrainType]
        /\ \A c \in Drainer : /\ drain'[c].phase \in Reading => drain'[c].claims # <<>>
                              /\ drain'[c].phase = "append" => fd'[c] # 0
    BY <1>0, <2>1, <2>2, DrainStep DEF JournalTypeOK, Reading
  <2>4. budget' \in [Rare -> Nat]
    BY <1>6, SpendType DEF ApplyFails, ApplyDone, ContactTypeOK, Rare
  <2>5. todo' \in [Request \cup Drainer -> Seq(ContactWrite)]
    <3>1. <<>> \in Seq(ContactWrite)
      OBVIOUS
    <3>2. QED
      BY <1>6, <3>1 DEF ApplyFails, ApplyDone, JournalTypeOK
  <2>6. UNCHANGED <<contact, form, calls, fd, file, landed, tardy>>
    BY <1>6 DEF ApplyFails, ApplyDone
  <2>7. QED
    BY <2>3, <2>4, <2>5, <2>6 DEF ContactTypeOK, JournalTypeOK, DrainType, Live
<1>7. CASE ReleaseOpen(d)
  <2>1. PICK f \in File : Open(d, f)
    BY <1>7 DEF ReleaseOpen
  <2>2. FileOK' /\ fd' \in [Request \cup Drainer -> File \cup {0}] /\ fd' = [fd EXCEPT ![d] = f] /\ f # 0
    BY <2>1, OpenType DEF FileOK, JournalTypeOK
  <2>3. fd'[d] # 0 /\ \A c \in Drainer \ {d} : fd'[c] = fd[c]
    BY <2>2 DEF JournalTypeOK
  <2> DEFINE next == [drain[d] EXCEPT !.phase = "append"]
  <2>4. next \in DrainType /\ next.phase = "append" /\ next.claims = drain[d].claims
    BY <1>0 DEF DrainType, Reading
  <2>5. Step(d, next) /\ drain[d].phase = "return"
    BY <1>7 DEF ReleaseOpen, Phase
  <2> HIDE DEF next
  <2>6. /\ drain' \in [Drainer -> DrainType]
        /\ \A c \in Drainer : /\ drain'[c].phase \in Reading => drain'[c].claims # <<>>
                              /\ drain'[c].phase = "append" => fd'[c] # 0
    BY <1>0, <2>3, <2>4, <2>5, DrainStep DEF JournalTypeOK, Reading
  <2>7. QED
    BY <1>7, <2>2, <2>6 DEF ReleaseOpen, ContactTypeOK, JournalTypeOK, DrainType, FileOK
<1>8. CASE ReleaseWrite(d)
  <2>1. /\ drain[d].batch \in SUBSET Entry /\ fd[d] # 0 /\ AppendLines(d, drain[d].batch)
    BY <1>0, <1>8 DEF ReleaseWrite, JournalTypeOK, DrainType
  <2>2. /\ FileOK' /\ fd' \in [Request \cup Drainer -> File \cup {0}] /\ fd' = [fd EXCEPT ![d] = 0]
        /\ tardy' \subseteq Entry
    BY <2>1, AppendType DEF FileOK, JournalTypeOK
  <2> DEFINE next == [drain[d] EXCEPT !.phase = "unlink", !.batch = {}]
  <2>3. next \in DrainType /\ next.phase = "unlink" /\ next.claims = drain[d].claims
    BY <1>0 DEF DrainType, Reading
  <2>4. Step(d, next) /\ drain[d].phase = "append" /\ \A c \in Drainer \ {d} : fd'[c] = fd[c]
    BY <1>8, <2>2 DEF ReleaseWrite
  <2> HIDE DEF next
  <2>5. /\ drain' \in [Drainer -> DrainType]
        /\ \A c \in Drainer : /\ drain'[c].phase \in Reading => drain'[c].claims # <<>>
                              /\ drain'[c].phase = "append" => fd'[c] # 0
    BY <1>0, <2>3, <2>4, DrainStep DEF JournalTypeOK, Reading
  <2>6. QED
    BY <1>8, <2>2, <2>5 DEF ReleaseWrite, ContactTypeOK, JournalTypeOK, DrainType, FileOK
<1>9. CASE Unlink(d)
  <2> DEFINE f == Head(drain[d].claims)
             done == [drain EXCEPT ![d].phase = "next", ![d].claims = Tail(@)]
  <2>1. drain[d].claims # <<>> /\ f \in File /\ Tail(drain[d].claims) \in Seq(File)
    BY <1>0, <1>9 DEF Unlink, JournalTypeOK, Reading, DrainType
  <2>2. /\ done \in [Drainer -> DrainType]
        /\ done[d].phase = "next" /\ \A c \in Drainer : c # d => done[c] = drain[c]
    BY <1>0, <2>1 DEF DrainType
  <2>3. NoFile \in [place : {"gone", "live", "claim"}, lines : SUBSET Entry,
                    old : BOOLEAN, holder : Drainer \cup {Nobody}] /\ NoFile.place = "gone"
    BY DEF NoFile
  <2>4. \/ file' = [file EXCEPT ![f] = NoFile] /\ drain' = Gone(done, f)
        \/ UNCHANGED file /\ drain' = done
    BY <1>9 DEF Unlink
  <2> HIDE DEF done, f
  <2>5. FileOK'
    <3>1. FileOK
      BY DEF FileOK, JournalTypeOK
    <3>2. /\ file' \in [File -> [place : {"gone", "live", "claim"}, lines : SUBSET Entry,
                                 old : BOOLEAN, holder : Drainer \cup {Nobody}]]
          /\ \A g \in File : file'[g] \in {file[g], NoFile}
      BY <2>1, <2>3, <2>4, <3>1 DEF FileOK
    <3>3. Live' \subseteq Live
      BY <2>3, <3>2 DEF Live
    <3>4. QED
      BY <3>1, <3>2, <3>3 DEF FileOK
  <2>6. /\ drain' \in [Drainer -> DrainType]
        /\ \A c \in Drainer : /\ drain'[c].phase = done[c].phase
                              /\ drain'[c].claims = done[c].claims
    BY <2>2, <2>4, GoneStep
  <2>7. \A c \in Drainer : /\ drain'[c].phase \in Reading => drain'[c].claims # <<>>
                           /\ drain'[c].phase = "append" => fd'[c] # 0
    BY <1>9, <2>2, <2>6 DEF Unlink, JournalTypeOK, Reading
  <2>8. QED
    BY <1>9, <2>5, <2>6, <2>7 DEF Unlink, ContactTypeOK, JournalTypeOK, DrainType, FileOK
<1>10. CASE DrainDies(d)
  <2>1. budget' \in [Rare -> Nat]
    BY <1>10, SpendType DEF DrainDies, ContactTypeOK, Rare
  <2>2. Step(d, NoPass) /\ fd' = [fd EXCEPT ![d] = 0] /\ todo' = [todo EXCEPT ![d] = <<>>]
    BY <1>10 DEF DrainDies, GiveUp, Step
  <2>3. FileOK'
    <3>1. \A f \in File : /\ file'[f] \in [place : {"gone", "live", "claim"}, lines : SUBSET Entry,
                                           old : BOOLEAN, holder : Drainer \cup {Nobody}]
                          /\ file'[f].place = file[f].place
      <4>1. SUFFICES ASSUME NEW f \in File
                     PROVE  /\ file'[f] \in [place : {"gone", "live", "claim"}, lines : SUBSET Entry,
                                              old : BOOLEAN, holder : Drainer \cup {Nobody}]
                            /\ file'[f].place = file[f].place
        OBVIOUS
      <4>2. file'[f] \in {file[f], [file[f] EXCEPT !.holder = Nobody]}
        BY <1>10 DEF DrainDies, GiveUp
      <4>3. QED
        BY <4>2 DEF JournalTypeOK
    <3>2. Live' = Live
      BY <3>1 DEF Live
    <3>3. QED
      BY <1>10, <3>1, <3>2 DEF DrainDies, GiveUp, JournalTypeOK, FileOK
  <2>4. NoPass.phase = "idle"
    BY DEF NoPass
  <2>5. /\ drain' \in [Drainer -> DrainType]
        /\ \A c \in Drainer : /\ drain'[c].phase \in Reading => drain'[c].claims # <<>>
                              /\ drain'[c].phase = "append" => fd'[c] # 0
    BY <1>0, <2>2, <2>4, DrainStep DEF JournalTypeOK, Reading
  <2>6. /\ fd' \in [Request \cup Drainer -> File \cup {0}]
        /\ todo' \in [Request \cup Drainer -> Seq(ContactWrite)]
    <3>1. <<>> \in Seq(ContactWrite)
      OBVIOUS
    <3>2. QED
      BY <2>2, <3>1 DEF JournalTypeOK
  <2>7. UNCHANGED <<contact, form, calls, landed, tardy>>
    BY <1>10 DEF DrainDies
  <2>8. QED
    BY <2>1, <2>3, <2>5, <2>6, <2>7 DEF ContactTypeOK, JournalTypeOK, DrainType, FileOK
<1>11. QED
  BY <1>1, <1>2, <1>3, <1>4, <1>5, <1>6, <1>7, <1>8, <1>9, <1>10 DEF Pass

LEMMA JournalTypes ==
  ASSUME ContactTypeOK, JournalTypeOK, JournalNext
  PROVE  ContactTypeOK' /\ JournalTypeOK'
<1>1. ASSUME NEW f \in File, Age(f) PROVE ContactTypeOK' /\ JournalTypeOK'
  <2>1. UNCHANGED <<contact, form, calls, todo, fd, drain, landed, tardy>>
        /\ file' = [file EXCEPT ![f].old = TRUE]
    BY <1>1 DEF Age
  <2>2. FileOK'
    <3>1. /\ file' \in [File -> [place : {"gone", "live", "claim"}, lines : SUBSET Entry,
                                 old : BOOLEAN, holder : Drainer \cup {Nobody}]]
          /\ \A g \in File : file'[g].place = file[g].place
      BY <2>1 DEF JournalTypeOK
    <3>2. Live' = Live
      BY <3>1 DEF Live
    <3>3. QED
      BY <3>1, <3>2 DEF FileOK, JournalTypeOK
  <2>3. budget' \in [Rare -> Nat]
    BY <1>1, SpendType DEF Age, ContactTypeOK, Rare
  <2>4. QED
    BY <2>1, <2>2, <2>3 DEF contact, calls, FileOK, ContactTypeOK, JournalTypeOK
<1>2. ASSUME PauseEnds PROVE ContactTypeOK' /\ JournalTypeOK'
  BY <1>2 DEF PauseEnds, unsubs, calls, journal, ContactTypeOK, JournalTypeOK, Live
<1>3. QED
  BY <1>1, <1>2, CallTypes, PassTypes DEF JournalNext

\* Events.
LEMMA EventWritesType ==
  ASSUME NEW type \in EventType, NEW read \in MailStatus
  PROVE  /\ EventWrites(type, read) \in Seq(EventWrite) /\ EventWrites(type, read) # <<>>
         /\ \A i \in 1..Len(EventWrites(type, read)) : EventWrites(type, read)[i].do # "clear"
<1>1. /\ \A to \in MailStatus : MarkSend(to) \in EventWrite /\ MarkSend(to).do # "clear"
      /\ \A k \in Counter : Count(k) \in EventWrite /\ Count(k).do # "clear"
  BY DEF EventWrite, MarkSend, Count, Write
<1>2. /\ \A s \in {"all", "marketing"} : \A v \in {"unsubscribed", "hard_bounce", "complaint"} :
           Insert(s, v) \in EventWrite /\ Insert(s, v).do # "clear"
      /\ \A v \in Standing : SetStatus(v) \in EventWrite /\ SetStatus(v).do # "clear"
  BY DEF EventWrite, ContactWrite, Insert, SetStatus, Write, Reason, Scope, ListScope
<1>3. /\ {"delivered", "bounced", "complained"} \subseteq MailStatus
      /\ {"delivered", "bounced", "softBounced", "hardBounced", "complained"} \subseteq Counter
      /\ {"bounced", "complained", "unsubscribed"} \subseteq Standing
  BY DEF MailStatus, Counter, Standing
<1>4. CASE type = "delivered"
  BY <1>1, <1>3, <1>4 DEF EventWrites
<1>5. CASE type = "open"
  BY <1>1, <1>3, <1>5 DEF EventWrites
<1>6. CASE type = "soft"
  BY <1>1, <1>3, <1>6 DEF EventWrites
<1>7. CASE type = "hard"
  BY <1>1, <1>2, <1>3, <1>7 DEF EventWrites
<1>8. CASE type = "complaint"
  BY <1>1, <1>2, <1>3, <1>8 DEF EventWrites
<1>9. CASE type = "unsubscribe"
  BY <1>2, <1>3, <1>9 DEF EventWrites
<1>10. QED
  BY <1>4, <1>5, <1>6, <1>7, <1>8, <1>9 DEF EventType

WorkerType == [phase : {"idle", "claim", "find", "apply"}, batch : SUBSET Event,
               event : SUBSET Event, todo : Seq(EventWrite)]

\* A worker's record changes: it holds an event that it held before or has
\* claimed, which was posted.
LEMMA PutType ==
  ASSUME EventsTypeOK, NEW w \in Worker, NEW next \in WorkerType, Put(w, next),
         next.phase = "apply" <=> next.todo # <<>>,
         \A e \in next.event : about[e].type # "absent",
         event' \in [Event -> {"none", "stored", "processed"}],
         \A e \in Event : event'[e] # "none" => about[e].type # "absent",
         UNCHANGED about
  PROVE  /\ worker' \in [Worker -> WorkerType]
         /\ \A v \in Worker : worker'[v].phase = "apply" <=> worker'[v].todo # <<>>
         /\ \A e \in Event : (event'[e] # "none" \/ \E v \in Worker : e \in worker'[v].event)
                               => about'[e].type # "absent"
<1>1. worker \in [Worker -> WorkerType]
  BY DEF EventsTypeOK, WorkerType
<1>2. worker' = [worker EXCEPT ![w] = next]
  BY DEF Put
<1>3. \A v \in Worker : worker'[v] = IF v = w THEN next ELSE worker[v]
  BY <1>1, <1>2
<1>4. worker' \in [Worker -> WorkerType]
  BY <1>1, <1>2
<1>5. QED
  BY <1>3, <1>4 DEF EventsTypeOK

\* The counters of the bucket stay natural numbers.
LEMMA BumpedType ==
  ASSUME bucket \in Bucket, NEW k \in Counter
  PROVE  /\ Bumped(k) \in Bucket
         /\ bucket.status = "tripped" => Bumped(k).status = "tripped"
<1> DEFINE more == [bucket.counters EXCEPT ![k] = @ + 1]
           st   == IF bucket.status = "absent" THEN "healthy" ELSE bucket.status
<1>1. more \in [Counter -> Nat]
  BY DEF Bucket
<1>2. st \in {"absent", "healthy", "degraded", "tripped"}
  BY DEF Bucket
<1>3. Bumped(k) = [bucket EXCEPT !.counters = more, !.status = st]
  BY DEF Bumped, Bucket
<1> HIDE DEF more
<1>4. QED
  BY <1>1, <1>2, <1>3 DEF Bucket

\* One write of a pass.
LEMMA EffectType ==
  ASSUME ContactTypeOK, EventsTypeOK, bucket \in Bucket,
         NEW w \in Worker, NEW op \in EventWrite, Effect(w, op)
  PROVE  /\ supp' \in [Scope -> Reason \cup {"none"}] /\ subscription' \in Standing
         /\ status' \in [Mail -> MailStatus] /\ soft' \subseteq Mail
         /\ health' \in [Event -> [Counter -> Nat]] /\ promoted' \in Nat /\ shadowed' \in BOOLEAN
         /\ bucket' \in Bucket
<1>1. op.do \notin {"send", "count"} => op \in ContactWrite
  BY DEF EventWrite, MarkSend, Count, Write
<1>2. op.do = "send" => op.value \in MailStatus
  BY DEF EventWrite, MarkSend, Count, Write, ContactWrite
<1>3. op.do = "count" => op.value \in Counter
  BY DEF EventWrite, MarkSend, Count, Write, ContactWrite
<1>4. supp' \in [Scope -> Reason \cup {"none"}] /\ subscription' \in Standing
  BY <1>1, DoEffect DEF Effect, ContactTypeOK, contact
<1>5. status' \in [Mail -> MailStatus] /\ soft' \subseteq Mail
  <2>1. CASE op.do = "send"
    <3>1. PICK e \in worker[w].event :
            /\ status' = [status EXCEPT ![about[e].send] = op.value]
            /\ soft' = CASE about[e].type = "soft" -> soft \cup {about[e].send}
                         [] about[e].type = "hard" -> soft \ {about[e].send}
                         [] OTHER -> soft
      BY <2>1 DEF Effect
    <3>2. e \in Event /\ about[e].send \in Mail
      BY DEF EventsTypeOK
    <3>3. QED
      BY <1>2, <2>1, <3>1, <3>2 DEF EventsTypeOK
  <2>2. CASE op.do # "send"
    BY <2>2 DEF Effect, EventsTypeOK
  <2>3. QED
    BY <2>1, <2>2
<1>6. health' \in [Event -> [Counter -> Nat]] /\ bucket' \in Bucket
  <2>1. CASE op.do = "count"
    <3>1. \A e \in Event : health'[e] = IF e \in worker[w].event
                                       THEN [health[e] EXCEPT ![op.value] = @ + 1] ELSE health[e]
      BY <2>1 DEF Effect
    <3>2. \A e \in Event : [health[e] EXCEPT ![op.value] = @ + 1] \in [Counter -> Nat]
      BY <1>3, <2>1 DEF EventsTypeOK
    <3>3. \A e \in Event : health'[e] \in [Counter -> Nat]
      BY <3>1, <3>2 DEF EventsTypeOK
    <3>4. QED
      BY <1>3, <2>1, <3>3, BumpedType DEF Effect
  <2>2. CASE op.do # "count"
    BY <2>2 DEF Effect, EventsTypeOK
  <2>3. QED
    BY <2>1, <2>2
<1>7. promoted' \in Nat /\ shadowed' \in BOOLEAN
  BY DEF Effect, EventsTypeOK
<1>8. QED
  BY <1>4, <1>5, <1>6, <1>7

LEMMA EventTypes ==
  ASSUME TypeOK, EventsNext
  PROVE  ContactTypeOK' /\ EventsTypeOK' /\ BreakerTypeOK'
<1> USE DEF TypeOK, contact, breaker
<1>0. /\ worker \in [Worker -> WorkerType] /\ Idle \in WorkerType
      /\ Idle.phase = "idle" /\ Idle.todo = <<>> /\ Idle.event = {}
  BY DEF EventsTypeOK, WorkerType, Idle
<1>1. ASSUME NEW e \in Event, Ingest(e)
      PROVE  ContactTypeOK' /\ EventsTypeOK' /\ BreakerTypeOK'
  <2>1. budget' \in [Rare -> Nat]
    BY <1>1, SpendType DEF Ingest, ContactTypeOK, Rare
  <2>2. /\ event' \in [Event -> {"none", "stored", "processed"}]
        /\ \A d \in Event : event'[d] # "none" => d = e \/ event[d] # "none"
        /\ \A d \in Event : event[d] # "none" => event'[d] # "none"
    BY <1>1 DEF Ingest, EventsTypeOK
  <2>3. UNCHANGED <<contact, breaker, about, status, soft, worker, health, promoted, applied, dropped,
                    shadowed>> /\ about[e].type # "absent"
    BY <1>1 DEF Ingest
  <2>4. QED
    BY <2>1, <2>2, <2>3 DEF ContactTypeOK, EventsTypeOK, BreakerTypeOK
<1>2. ASSUME NEW w \in Worker, NEW next \in WorkerType, Put(w, next),
             next.phase = "apply" <=> next.todo # <<>>,
             \A e \in next.event : about[e].type # "absent",
             event' \in [Event -> {"none", "stored", "processed"}],
             \A e \in Event : event'[e] # "none" => about[e].type # "absent",
             dropped' \subseteq Event, budget' \in [Rare -> Nat],
             UNCHANGED <<contact, breaker, about, status, soft, health, promoted, applied, shadowed>>
      PROVE  ContactTypeOK' /\ EventsTypeOK' /\ BreakerTypeOK'
  <2>1. /\ worker' \in [Worker -> WorkerType]
        /\ \A v \in Worker : worker'[v].phase = "apply" <=> worker'[v].todo # <<>>
        /\ \A e \in Event : (event'[e] # "none" \/ \E v \in Worker : e \in worker'[v].event)
                              => about'[e].type # "absent"
    BY <1>2, PutType
  <2>2. QED
    BY <1>2, <2>1 DEF ContactTypeOK, EventsTypeOK, BreakerTypeOK, WorkerType
<1>3. \A e \in Event : event[e] # "none" => about[e].type # "absent"
  BY DEF EventsTypeOK
<1>4. \A w \in Worker : \A e \in worker[w].event : e \in Event /\ about[e].type # "absent"
  BY DEF EventsTypeOK
<1>5. ASSUME NEW w \in Worker, ReadBacklog(w)
      PROVE  ContactTypeOK' /\ EventsTypeOK' /\ BreakerTypeOK'
  <2> DEFINE next == [Idle EXCEPT !.phase = "claim", !.batch = Waiting]
  <2>1. next \in WorkerType /\ next.phase = "claim" /\ next.todo = <<>> /\ next.event = {}
    BY <1>0 DEF WorkerType, Waiting
  <2>2. Put(w, next)
    BY <1>5 DEF ReadBacklog
  <2> HIDE DEF next
  <2>3. QED
    BY <1>2, <1>3, <1>5, <2>1, <2>2 DEF ReadBacklog, ContactTypeOK, EventsTypeOK
<1>6. ASSUME NEW w \in Worker, Claim(w)
      PROVE  ContactTypeOK' /\ EventsTypeOK' /\ BreakerTypeOK'
  <2>1. worker[w] \in WorkerType /\ worker[w].phase = "claim" /\ worker[w].todo = <<>>
    BY <1>0, <1>6 DEF Claim, EventsTypeOK
  <2>2. PICK e \in worker[w].batch :
          IF Claimable(e)
          THEN /\ event' = [event EXCEPT ![e] = "processed"]
               /\ Put(w, [worker[w] EXCEPT !.phase = "find", !.batch = @ \ {e}, !.event = {e}])
          ELSE /\ Put(w, [worker[w] EXCEPT !.batch = @ \ {e}])
               /\ UNCHANGED event
    BY <1>6 DEF Claim
  <2>3. e \in Event
    BY <2>1 DEF WorkerType
  <2>4. CASE Claimable(e)
    <3> DEFINE next == [worker[w] EXCEPT !.phase = "find", !.batch = @ \ {e}, !.event = {e}]
    <3>1. next \in WorkerType /\ next.phase = "find" /\ next.todo = <<>> /\ next.event = {e}
      BY <2>1, <2>3 DEF WorkerType
    <3>2. Put(w, next) /\ event' = [event EXCEPT ![e] = "processed"]
      BY <2>2, <2>4
    <3> HIDE DEF next
    <3>3. about[e].type # "absent"
      BY <1>3, <2>3, <2>4 DEF Claimable
    <3>4. /\ event' \in [Event -> {"none", "stored", "processed"}]
          /\ \A d \in Event : event'[d] # "none" => about[d].type # "absent"
      BY <1>3, <2>3, <3>2, <3>3 DEF EventsTypeOK
    <3>5. QED
      BY <1>2, <1>6, <3>1, <3>2, <3>3, <3>4 DEF Claim, ContactTypeOK, EventsTypeOK
  <2>5. CASE ~Claimable(e)
    <3> DEFINE next == [worker[w] EXCEPT !.batch = @ \ {e}]
    <3>1. /\ next \in WorkerType /\ next.phase = "claim" /\ next.todo = <<>>
          /\ next.event = worker[w].event
      BY <2>1 DEF WorkerType
    <3>2. Put(w, next) /\ event' = event
      BY <2>2, <2>5
    <3> HIDE DEF next
    <3>3. QED
      BY <1>2, <1>3, <1>4, <1>6, <3>1, <3>2 DEF Claim, ContactTypeOK, EventsTypeOK
  <2>6. QED
    BY <2>4, <2>5
<1>7. ASSUME NEW w \in Worker, EndPass(w)
      PROVE  ContactTypeOK' /\ EventsTypeOK' /\ BreakerTypeOK'
  BY <1>0, <1>2, <1>3, <1>7 DEF EndPass, ContactTypeOK, EventsTypeOK
<1>8. ASSUME NEW w \in Worker, FindSend(w)
      PROVE  ContactTypeOK' /\ EventsTypeOK' /\ BreakerTypeOK'
  <2>1. PICK e \in worker[w].event :
          Put(w, [worker[w] EXCEPT !.phase = "apply",
                                   !.todo = EventWrites(about[e].type, status[about[e].send])])
    BY <1>8 DEF FindSend
  <2> DEFINE writes == EventWrites(about[e].type, status[about[e].send])
             next == [worker[w] EXCEPT !.phase = "apply", !.todo = writes]
  <2>2. writes \in Seq(EventWrite) /\ writes # <<>>
    <3>1. about[e].type \in EventType /\ status[about[e].send] \in MailStatus
      BY <1>4 DEF EventsTypeOK
    <3>2. QED
      BY <3>1, EventWritesType
  <2> HIDE DEF writes
  <2>3. /\ next \in WorkerType /\ next.phase = "apply" /\ next.todo # <<>>
        /\ next.event = worker[w].event
    BY <1>0, <2>2 DEF WorkerType
  <2>4. Put(w, next)
    BY <2>1 DEF writes
  <2> HIDE DEF next
  <2>5. QED
    BY <1>2, <1>3, <1>4, <1>8, <2>3, <2>4 DEF FindSend, ContactTypeOK, EventsTypeOK
<1>9. ASSUME NEW w \in Worker, ReadOffenders(w)
      PROVE  ContactTypeOK' /\ EventsTypeOK' /\ BreakerTypeOK'
  <2> DEFINE writes == <<Insert("all", "hard_bounce"), SetStatus("bounced"), Count("hardBounced")>>
             next == [Idle EXCEPT !.phase = "apply", !.todo = writes]
  <2>1. writes \in Seq(EventWrite) /\ writes # <<>>
    <3>1. /\ Insert("all", "hard_bounce") \in EventWrite /\ SetStatus("bounced") \in EventWrite
          /\ Count("hardBounced") \in EventWrite
      BY DEF EventWrite, ContactWrite, Insert, SetStatus, Count, Counter, Write, Reason, Standing,
             Scope, ListScope
    <3>2. QED
      BY <3>1
  <2> HIDE DEF writes
  <2>2. next \in WorkerType /\ next.phase = "apply" /\ next.todo # <<>> /\ next.event = {}
    BY <1>0, <2>1 DEF WorkerType
  <2>3. Put(w, next)
    BY <1>9 DEF ReadOffenders, writes
  <2> HIDE DEF next
  <2>4. QED
    BY <1>2, <1>3, <1>9, <2>2, <2>3 DEF ReadOffenders, ContactTypeOK, EventsTypeOK
<1>10. ASSUME NEW w \in Worker, ApplyThrows(w) \/ WorkerDies(w)
       PROVE  ContactTypeOK' /\ EventsTypeOK' /\ BreakerTypeOK'
  <2>1. budget' \in [Rare -> Nat]
    BY <1>10, SpendType DEF ApplyThrows, WorkerDies, ContactTypeOK, Rare
  <2>2. dropped' \subseteq Event
    BY <1>10, <1>4 DEF ApplyThrows, WorkerDies, EventsTypeOK
  <2>3. PICK next \in WorkerType : /\ Put(w, next) /\ next.todo = <<>> /\ next.event = {}
                                   /\ next.phase # "apply"
    <3>1. CASE Put(w, Idle)
      BY <1>0, <3>1
    <3>2. CASE Put(w, [Idle EXCEPT !.phase = "claim", !.batch = worker[w].batch])
      <4> DEFINE next == [Idle EXCEPT !.phase = "claim", !.batch = worker[w].batch]
      <4>1. next \in WorkerType /\ next.phase = "claim" /\ next.todo = <<>> /\ next.event = {}
        BY <1>0 DEF WorkerType
      <4> HIDE DEF next
      <4>2. QED
        BY <3>2, <4>1 DEF next
    <3>3. QED
      BY <1>10, <3>1, <3>2 DEF ApplyThrows, WorkerDies
  <2>4. UNCHANGED <<contact, breaker, about, event, status, soft, health, promoted, applied, shadowed>>
    BY <1>10 DEF ApplyThrows, WorkerDies
  <2>5. QED
    BY <1>2, <1>3, <2>1, <2>2, <2>3, <2>4 DEF EventsTypeOK
<1>11. ASSUME NEW w \in Worker, ApplyWrite(w)
       PROVE  ContactTypeOK' /\ EventsTypeOK' /\ BreakerTypeOK'
  <2> DEFINE op == Head(worker[w].todo)
             rest == Tail(worker[w].todo)
             next == IF rest # <<>> THEN [worker[w] EXCEPT !.todo = rest]
                     ELSE IF worker[w].event = {} THEN Idle
                     ELSE [Idle EXCEPT !.phase = "claim", !.batch = worker[w].batch]
  <2>1. /\ worker[w] \in WorkerType /\ worker[w].phase = "apply"
        /\ op \in EventWrite /\ rest \in Seq(EventWrite)
    BY <1>0, <1>11 DEF ApplyWrite, EventsTypeOK, WorkerType
  <2>2. Effect(w, op) /\ Put(w, next)
    BY <1>11 DEF ApplyWrite
  <2>3. applied' \subseteq Event
    BY <1>11, <1>4 DEF ApplyWrite, EventsTypeOK
  <2> HIDE DEF op, rest
  <2>4. /\ next \in WorkerType /\ (next.phase = "apply" <=> next.todo # <<>>)
        /\ next.event \subseteq worker[w].event
    <3>1. CASE rest # <<>>
      BY <2>1, <3>1 DEF WorkerType
    <3>2. CASE rest = <<>>
      BY <1>0, <2>1, <3>2 DEF WorkerType
    <3>3. QED
      BY <3>1, <3>2
  <2> HIDE DEF next
  <2>5. UNCHANGED <<eval, watch, resumed, budget, about, event, dropped>>
    BY <1>11 DEF ApplyWrite
  <2>6. \A e \in Event : event'[e] # "none" => about[e].type # "absent"
    BY <1>3, <2>5
  <2>7. event' \in [Event -> {"none", "stored", "processed"}]
    BY <2>5 DEF EventsTypeOK
  <2>8. /\ worker' \in [Worker -> WorkerType]
        /\ \A v \in Worker : worker'[v].phase = "apply" <=> worker'[v].todo # <<>>
        /\ \A e \in Event : (event'[e] # "none" \/ \E v \in Worker : e \in worker'[v].event)
                              => about'[e].type # "absent"
    BY <1>4, <2>2, <2>4, <2>5, <2>6, <2>7, PutType
  <2>9. /\ supp' \in [Scope -> Reason \cup {"none"}] /\ subscription' \in Standing
        /\ status' \in [Mail -> MailStatus] /\ soft' \subseteq Mail
        /\ health' \in [Event -> [Counter -> Nat]] /\ promoted' \in Nat /\ shadowed' \in BOOLEAN
        /\ bucket' \in Bucket
    BY <2>1, <2>2, EffectType DEF BreakerTypeOK
  <2>10. QED
    BY <2>3, <2>5, <2>7, <2>8, <2>9 DEF ContactTypeOK, EventsTypeOK, BreakerTypeOK, WorkerType
<1>12. QED
  BY <1>1, <1>5, <1>6, <1>7, <1>8, <1>9, <1>10, <1>11 DEF EventsNext, Work

\* Ticks.
LEMMA BreakerTypes ==
  ASSUME ContactTypeOK, BreakerTypeOK, BreakerNext
  PROVE  budget' \in [Rare -> Nat] /\ BreakerTypeOK'
<1>0. Resting \in [phase : {"idle", "evaluate"}, seen : Bucket]
  BY DEF Resting, Absent, Bucket, Zero
<1>1. CASE CountMail
  BY <1>1, SpendType, BumpedType DEF CountMail, ContactTypeOK, BreakerTypeOK, Rare, Counter
<1>2. CASE WindowEnds
  <2>1. [bucket EXCEPT !.over = TRUE] \in Bucket
    BY DEF BreakerTypeOK, Bucket
  <2>2. QED
    BY <1>2, <2>1, SpendType DEF WindowEnds, ContactTypeOK, BreakerTypeOK, Rare
<1>3. CASE ResumeBucket
  <2>1. [bucket EXCEPT !.status = "healthy"] \in Bucket
    BY DEF BreakerTypeOK, Bucket
  <2>2. QED
    BY <1>3, <2>1, SpendType DEF ResumeBucket, ContactTypeOK, BreakerTypeOK, Rare
<1>4. ASSUME NEW t \in Tick, EvaluationFails(t)
      PROVE  budget' \in [Rare -> Nat] /\ BreakerTypeOK'
  BY <1>0, <1>4, SpendType DEF EvaluationFails, Rested, ContactTypeOK, BreakerTypeOK, Rare
<1>5. ASSUME NEW t \in Tick, ReadBucket(t)
      PROVE  budget' \in [Rare -> Nat] /\ BreakerTypeOK'
  BY <1>5 DEF ReadBucket, ContactTypeOK, BreakerTypeOK
<1>6. ASSUME NEW t \in Tick, Roll(t) \/ Trip(t) \/ Grade(t) \/ Leave(t)
      PROVE  budget' \in [Rare -> Nat] /\ BreakerTypeOK'
  <2>1. [status |-> "healthy", counters |-> Zero, over |-> FALSE] \in Bucket
    BY DEF Bucket, Zero
  <2>2. \A st \in {"healthy", "degraded", "tripped"} : [bucket EXCEPT !.status = st] \in Bucket
    BY DEF BreakerTypeOK, Bucket
  <2>3. bucket' \in Bucket
    BY <1>6, <2>1, <2>2 DEF Roll, Trip, Grade, Leave, BreakerTypeOK
  <2>4. QED
    BY <1>0, <1>6, <2>3 DEF Roll, Trip, Grade, Leave, Rested, ContactTypeOK, BreakerTypeOK
<1>7. QED
  BY <1>1, <1>2, <1>3, <1>4, <1>5, <1>6 DEF BreakerNext, Evaluate

LEMMA NextTypes == ASSUME TypeOK, [Next]_vars PROVE TypeOK'
<1> USE DEF TypeOK
<1>1. CASE JournalNext /\ UNCHANGED <<feedback, breaker>>
  <2>1. ContactTypeOK' /\ JournalTypeOK'
    BY <1>1, JournalTypes
  <2>2. EventsTypeOK' /\ BreakerTypeOK'
    BY <1>1 DEF feedback, breaker, EventsTypeOK, BreakerTypeOK
  <2>3. QED
    BY <2>1, <2>2
<1>2. CASE EventsNext /\ UNCHANGED unsubs
  <2>1. ContactTypeOK' /\ EventsTypeOK' /\ BreakerTypeOK'
    BY <1>2, EventTypes
  <2>2. JournalTypeOK'
    BY <1>2 DEF unsubs, calls, journal, JournalTypeOK, Live
  <2>3. QED
    BY <2>1, <2>2
<1>3. CASE BreakerNext /\ UNCHANGED <<contact, unsubs, feedback>>
  <2>1. budget' \in [Rare -> Nat] /\ BreakerTypeOK'
    BY <1>3, BreakerTypes
  <2>2. JournalTypeOK' /\ EventsTypeOK'
    BY <1>3 DEF unsubs, calls, journal, feedback, JournalTypeOK, EventsTypeOK, Live
  <2>3. QED
    BY <1>3, <2>1, <2>2 DEF contact, ContactTypeOK
<1>4. CASE UNCHANGED vars
  BY <1>4 DEF vars, contact, unsubs, calls, journal, feedback, breaker, ContactTypeOK,
              JournalTypeOK, EventsTypeOK, BreakerTypeOK, Live
<1>5. QED
  BY <1>1, <1>2, <1>3, <1>4 DEF Next

\* Every variable keeps its type, one file at most is the live journal, and a
\* drainer that reads holds a claim.  (unsub-journal.ts, webhook.ts, health.ts.)
THEOREM TypeCorrect == Spec => []TypeOK
<1>1. TypeOK /\ [Next]_vars => TypeOK'
  BY NextTypes
<1>2. QED
  BY InitTypes, <1>1, PTL DEF Spec

-----------------------------------------------------------------------------
(* The circuit breaker.                                                    *)

\* No step of an event or of a tick untrips the bucket but a resume, and the
\* write of a tick whose copy was read before the trip.  (health.ts.)
THEOREM TripsStand == Spec => TripStands
<1> DEFINE Early == \E t \in Tick : /\ eval[t].phase = "evaluate" /\ eval[t].seen.status # "tripped"
                                    /\ eval'[t].phase = "idle"
           Stands == bucket.status = "tripped" /\ bucket'.status # "tripped"
                       => resumed' # resumed \/ Early
<1>1. ASSUME TypeOK, [Next]_vars PROVE Stands
  <2>1. CASE UNCHANGED bucket
    BY <2>1
  <2>2. CASE EventsNext
    <3>1. ASSUME NEW w \in Worker, ApplyWrite(w), ~UNCHANGED bucket
          PROVE  Stands
      <4>1. PICK k \in Counter : bucket' = Bumped(k)
        <5>1. Head(worker[w].todo) \in EventWrite
          BY <1>1, <3>1 DEF ApplyWrite, TypeOK, EventsTypeOK
        <5>2. Effect(w, Head(worker[w].todo))
          BY <3>1 DEF ApplyWrite
        <5>3. /\ Head(worker[w].todo).do = "count"
              /\ bucket' = Bumped(Head(worker[w].todo).value)
          BY <3>1, <5>2 DEF Effect
        <5>4. Head(worker[w].todo).value \in Counter
          BY <5>1, <5>3 DEF EventWrite, MarkSend, Count, Write, ContactWrite
        <5>5. QED
          BY <5>3, <5>4
      <4>2. QED
        BY <1>1, <4>1, BumpedType DEF TypeOK, BreakerTypeOK
    <3>2. QED
      BY <2>1, <2>2, <3>1 DEF EventsNext, Work, Ingest, ReadBacklog, Claim, EndPass, FindSend,
                              ReadOffenders, ApplyThrows, WorkerDies, breaker
  <2>3. CASE BreakerNext
    <3>1. CASE CountMail
      BY <1>1, <3>1, BumpedType DEF CountMail, Counter, TypeOK, BreakerTypeOK
    <3>2. CASE WindowEnds
      BY <1>1, <3>2 DEF WindowEnds, TypeOK, BreakerTypeOK, Bucket
    <3>3. CASE ResumeBucket
      BY <1>1, <3>3 DEF ResumeBucket, TypeOK, BreakerTypeOK
    <3>4. ASSUME NEW t \in Tick, Roll(t) \/ Grade(t) PROVE Stands
      <4>1. eval[t].phase = "evaluate" /\ eval[t].seen.status # "tripped"
        BY <3>4 DEF Roll, Grade, Rolls, Judged
      <4>2. eval'[t].phase = "idle"
        BY <1>1, <3>4 DEF Roll, Grade, Rested, Resting, TypeOK, BreakerTypeOK
      <4>3. QED
        BY <4>1, <4>2
    <3>5. ASSUME NEW t \in Tick, Trip(t) PROVE Stands
      BY <1>1, <3>5 DEF Trip, Trippable, TypeOK, BreakerTypeOK, Bucket
    <3>6. QED
      BY <2>1, <2>3, <3>1, <3>2, <3>3, <3>4, <3>5
         DEF BreakerNext, Evaluate, ReadBucket, Leave, EvaluationFails
  <2>4. QED
    BY <1>1, <2>1, <2>2, <2>3 DEF Next, vars, breaker
<1>2. TypeOK /\ [Next]_vars => [Stands]_vars
  BY <1>1
<1>3. QED
  BY TypeCorrect, <1>2, PTL DEF Spec, TripStands

-----------------------------------------------------------------------------
(* The counters.                                                           *)

LEMMA EmptyLen ==
  ASSUME NEW S, NEW q \in Seq(S)
  PROVE  q = <<>> <=> Len(q) = 0
OBVIOUS

\* What comes after the first element.
LEMMA Shift ==
  ASSUME NEW S, NEW q \in Seq(S), Len(q) # 0
  PROVE  /\ Head(q) = q[1] /\ Head(q) \in S /\ Tail(q) \in Seq(S)
         /\ Len(q) \in Nat /\ Len(q) > 0 /\ Len(Tail(q)) = Len(q) - 1
         /\ \A i \in 1..Len(Tail(q)) : i + 1 \in 1..Len(q) /\ Tail(q)[i] = q[i + 1]
         /\ \A i \in 1..Len(q) : i # 1 => i - 1 \in 1..Len(Tail(q)) /\ Tail(q)[i - 1] = q[i]
         /\ Tail(q) = <<>> <=> Len(q) = 1
<1>1. Head(q) = q[1] /\ Head(q) \in S /\ Tail(q) \in Seq(S)
  OBVIOUS
<1>2. Len(q) \in Nat /\ Len(q) > 0 /\ Len(Tail(q)) = Len(q) - 1
  OBVIOUS
<1>3. \A i \in 1..Len(Tail(q)) : i + 1 \in 1..Len(q) /\ Tail(q)[i] = q[i + 1]
  BY <1>2
<1>4. \A i \in 1..Len(q) : i # 1 => i - 1 \in 1..Len(Tail(q)) /\ Tail(q)[i - 1] = q[i]
  <2>1. SUFFICES ASSUME NEW i \in 1..Len(q), i # 1
                 PROVE  i - 1 \in 1..Len(Tail(q)) /\ Tail(q)[i - 1] = q[i]
    OBVIOUS
  <2>2. i - 1 \in 1..Len(Tail(q)) /\ (i - 1) + 1 = i
    BY <1>2, <2>1
  <2>3. QED
    BY <1>3, <2>2
<1>5. Tail(q) = <<>> <=> Len(Tail(q)) = 0
  BY <1>1, EmptyLen
<1>6. Len(Tail(q)) = 0 <=> Len(q) = 1
  BY <1>2
<1>7. QED
  BY <1>1, <1>2, <1>3, <1>4, <1>5, <1>6

\* The writes of an event have one write for each of its counters.
LEMMA CounterWrites ==
  ASSUME NEW type \in EventType, NEW read \in MailStatus
  PROVE  LET q == EventWrites(type, read)
             At(k) == {i \in 1..Len(q) : q[i].do = "count" /\ q[i].value = k}
         IN  \A k \in Counter : /\ \A i, j \in At(k) : i = j
                                /\ k \in CountersOf(type) => At(k) # {}
<1> DEFINE q == EventWrites(type, read)
           At(k) == {i \in 1..Len(q) : q[i].do = "count" /\ q[i].value = k}
<1>1. /\ \A to : MarkSend(to).do = "send"
      /\ \A k : Count(k).do = "count" /\ Count(k).value = k
      /\ \A s, v : Insert(s, v).do = "insert" /\ SetStatus(v).do = "status"
  BY DEF MarkSend, Count, Insert, SetStatus, Write
<1> SUFFICES ASSUME NEW k \in Counter
             PROVE  (\A i, j \in At(k) : i = j) /\ (k \in CountersOf(type) => At(k) # {})
  OBVIOUS
<1>2. CASE type \in {"open", "unsubscribe"}
  <2>1. \A i \in 1..Len(q) : q[i].do # "count"
    BY <1>1, <1>2 DEF EventWrites
  <2>2. k \notin CountersOf(type)
    BY <1>2 DEF CountersOf
  <2>3. QED
    BY <2>1, <2>2
<1>3. CASE type = "delivered"
  <2>1. Len(q) = 2 /\ q[1].do = "send" /\ q[2] = Count("delivered")
    BY <1>1, <1>3 DEF EventWrites
  <2>2. CountersOf(type) = {"delivered"}
    BY <1>3 DEF CountersOf
  <2> HIDE DEF q
  <2>3. \A i \in At(k) : i = 2
    BY <2>1
  <2>4. k = "delivered" => 2 \in At(k)
    BY <1>1, <2>1
  <2>5. QED
    BY <2>2, <2>3, <2>4
<1>4. CASE type = "soft"
  <2>1. Len(q) = 3 /\ q[1].do = "send" /\ q[2] = Count("bounced") /\ q[3] = Count("softBounced")
    BY <1>1, <1>4 DEF EventWrites
  <2>2. CountersOf(type) = {"bounced", "softBounced"}
    BY <1>4 DEF CountersOf
  <2> HIDE DEF q
  <2>3. \A i \in At(k) : (i = 2 /\ k = "bounced") \/ (i = 3 /\ k = "softBounced")
    BY <1>1, <2>1
  <2>4. (k = "bounced" => 2 \in At(k)) /\ (k = "softBounced" => 3 \in At(k))
    BY <1>1, <2>1
  <2>5. QED
    BY <2>2, <2>3, <2>4
<1>5. CASE type = "hard"
  <2>1. /\ Len(q) = 5 /\ q[1].do = "send" /\ q[2].do = "insert" /\ q[3].do = "status"
        /\ q[4] = Count("bounced") /\ q[5] = Count("hardBounced")
    BY <1>1, <1>5 DEF EventWrites
  <2>2. CountersOf(type) = {"bounced", "hardBounced"}
    BY <1>5 DEF CountersOf
  <2> HIDE DEF q
  <2>3. \A i \in At(k) : (i = 4 /\ k = "bounced") \/ (i = 5 /\ k = "hardBounced")
    BY <1>1, <2>1
  <2>4. (k = "bounced" => 4 \in At(k)) /\ (k = "hardBounced" => 5 \in At(k))
    BY <1>1, <2>1
  <2>5. QED
    BY <2>2, <2>3, <2>4
<1>6. CASE type = "complaint"
  <2>1. /\ Len(q) = 4 /\ q[1].do = "send" /\ q[2].do = "insert" /\ q[3].do = "status"
        /\ q[4] = Count("complained")
    BY <1>1, <1>6 DEF EventWrites
  <2>2. CountersOf(type) = {"complained"}
    BY <1>6 DEF CountersOf
  <2> HIDE DEF q
  <2>3. \A i \in At(k) : i = 4
    BY <2>1
  <2>4. k = "complained" => 4 \in At(k)
    BY <1>1, <2>1
  <2>5. QED
    BY <2>2, <2>3, <2>4
<1>7. QED
  BY <1>2, <1>3, <1>4, <1>5, <1>6 DEF EventType

LEMMA PutEffect ==
  ASSUME EventsTypeOK, NEW w \in Worker, NEW next, Put(w, next)
  PROVE  /\ worker'[w] = next
         /\ \A v \in Worker : v # w => worker'[v] = worker[v]
BY DEF EventsTypeOK, Put

\* A worker that holds no event after its step disturbs no account of events.
LEMMA LetsGo ==
  ASSUME EventsTypeOK, HeldOnce, CountsAccounted,
         NEW w \in Worker, NEW next, Put(w, next), next.event = {},
         applied' \cup dropped' = applied \cup dropped \cup worker[w].event,
         UNCHANGED <<about, event, health>>,
         \A e \in Event, k \in Counter :
           e \in applied' \ applied /\ k \in CountersOf(about[e].type) => health[e][k] = 1
  PROVE  HeldOnce' /\ CountsAccounted'
<1>1. /\ worker'[w].event = {}
      /\ \A v \in Worker : v # w => worker'[v] = worker[v]
  BY PutEffect
<1>2. \A v \in Worker : worker'[v].event \subseteq worker[v].event
  BY <1>1
<1>3. HeldOnce'
  <2>1. ASSUME NEW v \in Worker, NEW e \in worker'[v].event
        PROVE  /\ worker'[v].event = {e} /\ worker'[v].phase \in {"find", "apply"}
               /\ event'[e] = "processed" /\ e \notin applied' \cup dropped'
               /\ \A u \in Worker : e \in worker'[u].event => u = v
    <3>1. v # w /\ worker'[v] = worker[v] /\ e \in worker[v].event
      BY <1>1, <2>1
    <3>2. e \notin worker[w].event
      BY <3>1 DEF HeldOnce
    <3>3. QED
      BY <1>2, <3>1, <3>2 DEF HeldOnce
  <2>2. \A e \in applied' \cup dropped' : event'[e] = "processed"
    BY DEF HeldOnce
  <2>3. QED
    BY <2>1, <2>2 DEF HeldOnce
<1>4. CountsAccounted'
  <2>1. ASSUME NEW v \in Worker, NEW e \in worker'[v].event
        PROVE  /\ worker'[v].phase = "find" => health'[e] = Zero
               /\ worker'[v].phase = "apply" => \A k \in Counter :
                    /\ \A i, j \in CountsLeft(v, k)' : i = j
                    /\ CountsLeft(v, k)' # {} => health'[e][k] = 0
                    /\ k \in CountersOf(about[e].type) /\ CountsLeft(v, k)' = {} => health'[e][k] = 1
    <3>1. v # w /\ worker'[v] = worker[v] /\ e \in worker[v].event
      BY <1>1, <2>1
    <3>2. \A k : CountsLeft(v, k)' = CountsLeft(v, k)
      BY <3>1 DEF CountsLeft
    <3>3. QED
      BY <3>1, <3>2 DEF CountsAccounted
  <2>2. CountedOnce'
    BY DEF CountsAccounted, CountedOnce
  <2>3. \A e \in Event : event'[e] # "processed" => health'[e] = Zero
    BY DEF CountsAccounted
  <2>4. QED
    BY <2>1, <2>2, <2>3 DEF CountsAccounted
<1>5. QED
  BY <1>3, <1>4

LEMMA EventsKept ==
  ASSUME TypeOK, HeldOnce, CountsAccounted, EventsNext
  PROVE  HeldOnce' /\ CountsAccounted'
<1> USE DEF TypeOK
<1>0. /\ worker \in [Worker -> WorkerType] /\ Idle.event = {}
      /\ \A w \in Worker : worker[w].event # {} => worker[w].phase \in {"find", "apply"}
  BY DEF EventsTypeOK, WorkerType, Idle, HeldOnce
<1>1. ASSUME NEW e \in Event, Ingest(e) PROVE HeldOnce' /\ CountsAccounted'
  <2>1. /\ \A d \in Event : event'[d] = "processed" <=> event[d] = "processed"
        /\ UNCHANGED <<about, worker, health, applied, dropped>>
    BY <1>1 DEF Ingest, EventsTypeOK
  <2>2. \A v, k : CountsLeft(v, k)' = CountsLeft(v, k)
    BY <2>1 DEF CountsLeft
  <2>3. \A e_1 \in applied \cup dropped : e_1 \in Event
    BY DEF EventsTypeOK
  <2>4. \A w \in Worker : worker[w].event \subseteq Event
    BY <1>0 DEF WorkerType
  <2>5. HeldOnce'
    BY <2>1, <2>3, <2>4 DEF HeldOnce
  <2>6. CountsAccounted'
    BY <2>1, <2>2, <2>4 DEF CountsAccounted, CountedOnce
  <2>7. QED
    BY <2>5, <2>6
<1>2. ASSUME NEW w \in Worker, ReadBacklog(w) \/ EndPass(w) \/ ReadOffenders(w)
      PROVE  HeldOnce' /\ CountsAccounted'
  <2>1. worker[w].event = {}
    BY <1>0, <1>2 DEF ReadBacklog, EndPass, ReadOffenders
  <2>2. PICK next : Put(w, next) /\ next.event = {}
    <3>1. CASE ReadBacklog(w)
      <4>1. [Idle EXCEPT !.phase = "claim", !.batch = Waiting].event = {}
        BY DEF Idle
      <4>2. QED
        BY <3>1, <4>1 DEF ReadBacklog
    <3>2. CASE EndPass(w)
      BY <1>0, <3>2 DEF EndPass
    <3>3. CASE ReadOffenders(w)
      <4> DEFINE next == [Idle EXCEPT !.phase = "apply",
                            !.todo = <<Insert("all", "hard_bounce"), SetStatus("bounced"),
                                       Count("hardBounced")>>]
      <4>1. next.event = {} /\ Put(w, next)
        BY <3>3 DEF ReadOffenders, Idle
      <4>2. QED
        BY <4>1
    <3>4. QED
      BY <1>2, <3>1, <3>2, <3>3
  <2>3. UNCHANGED <<about, event, health, applied, dropped>>
    BY <1>2 DEF ReadBacklog, EndPass, ReadOffenders
  <2>4. QED
    BY <2>1, <2>2, <2>3, LetsGo
<1>3. ASSUME NEW w \in Worker, ApplyThrows(w) \/ WorkerDies(w)
      PROVE  HeldOnce' /\ CountsAccounted'
  <2>1. PICK next : Put(w, next) /\ next.event = {}
    <3>1. CASE Put(w, Idle)
      BY <1>0, <3>1
    <3>2. CASE Put(w, [Idle EXCEPT !.phase = "claim", !.batch = worker[w].batch])
      <4>1. [Idle EXCEPT !.phase = "claim", !.batch = worker[w].batch].event = {}
        BY DEF Idle
      <4>2. QED
        BY <3>2, <4>1
    <3>3. QED
      BY <1>3, <3>1, <3>2 DEF ApplyThrows, WorkerDies
  <2>2. /\ dropped' = dropped \cup worker[w].event
        /\ UNCHANGED <<about, event, health, applied>>
    BY <1>3 DEF ApplyThrows, WorkerDies
  <2>3. QED
    BY <2>1, <2>2, LetsGo
<1>4. ASSUME NEW w \in Worker, Claim(w) PROVE HeldOnce' /\ CountsAccounted'
  <2>1. worker[w].phase = "claim" /\ worker[w].event = {} /\ worker[w] \in WorkerType
    BY <1>0, <1>4 DEF Claim
  <2>2. PICK e \in worker[w].batch :
          IF Claimable(e)
          THEN /\ event' = [event EXCEPT ![e] = "processed"]
               /\ Put(w, [worker[w] EXCEPT !.phase = "find", !.batch = @ \ {e}, !.event = {e}])
          ELSE /\ Put(w, [worker[w] EXCEPT !.batch = @ \ {e}])
               /\ UNCHANGED event
    BY <1>4 DEF Claim
  <2>3. e \in Event /\ UNCHANGED <<about, health, applied, dropped>>
    BY <1>4, <2>1 DEF Claim, WorkerType
  <2>4. CASE ~Claimable(e)
    <3> DEFINE next == [worker[w] EXCEPT !.batch = @ \ {e}]
    <3>1. Put(w, next) /\ next.event = {} /\ UNCHANGED event
      BY <2>1, <2>2, <2>4 DEF WorkerType
    <3> HIDE DEF next
    <3>2. QED
      BY <2>1, <2>3, <3>1, LetsGo
  <2>5. CASE Claimable(e)
    <3> DEFINE next == [worker[w] EXCEPT !.phase = "find", !.batch = @ \ {e}, !.event = {e}]
    <3>1. /\ Put(w, next) /\ next.event = {e} /\ next.phase = "find"
          /\ event' = [event EXCEPT ![e] = "processed"]
      BY <2>1, <2>2, <2>5 DEF WorkerType
    <3> HIDE DEF next
    <3>2. /\ worker'[w].event = {e} /\ worker'[w].phase = "find"
          /\ \A v \in Worker : v # w => worker'[v] = worker[v]
      BY <3>1, PutEffect
    <3>3. event[e] = "stored" /\ health[e] = Zero
      BY <2>3, <2>5 DEF Claimable, CountsAccounted
    <3>4. e \notin applied \cup dropped /\ \A v \in Worker : e \notin worker[v].event
      BY <3>3 DEF HeldOnce
    <3>5. \A d \in Event : event'[d] = IF d = e THEN "processed" ELSE event[d]
      BY <2>3, <3>1 DEF EventsTypeOK
    <3>6. \A v \in Worker : worker[v].event \subseteq Event
      BY <1>0 DEF WorkerType
    <3>7. HeldOnce'
      <4>1. ASSUME NEW v \in Worker, NEW d \in worker'[v].event
            PROVE  /\ worker'[v].event = {d} /\ worker'[v].phase \in {"find", "apply"}
                   /\ event'[d] = "processed" /\ d \notin applied' \cup dropped'
                   /\ \A u \in Worker : d \in worker'[u].event => u = v
        <5>1. CASE v = w
          BY <2>3, <3>2, <3>4, <3>5, <4>1, <5>1
        <5>2. CASE v # w
          BY <2>3, <3>2, <3>4, <3>5, <3>6, <4>1, <5>2 DEF HeldOnce
        <5>3. QED
          BY <5>1, <5>2
      <4>2. \A d \in applied' \cup dropped' : event'[d] = "processed"
        BY <2>3, <3>5 DEF HeldOnce, EventsTypeOK
      <4>3. QED
        BY <4>1, <4>2 DEF HeldOnce
    <3>8. CountsAccounted'
      <4>1. ASSUME NEW v \in Worker, NEW d \in worker'[v].event
            PROVE  /\ worker'[v].phase = "find" => health'[d] = Zero
                   /\ worker'[v].phase = "apply" => \A k \in Counter :
                        /\ \A i, j \in CountsLeft(v, k)' : i = j
                        /\ CountsLeft(v, k)' # {} => health'[d][k] = 0
                        /\ k \in CountersOf(about'[d].type) /\ CountsLeft(v, k)' = {} => health'[d][k] = 1
        <5>1. CASE v = w
          BY <2>3, <3>2, <3>3, <4>1, <5>1
        <5>2. CASE v # w
          <6>1. worker'[v] = worker[v]
            BY <3>2, <5>2
          <6>2. \A k : CountsLeft(v, k)' = CountsLeft(v, k)
            BY <6>1 DEF CountsLeft
          <6>3. QED
            BY <2>3, <4>1, <6>1, <6>2 DEF CountsAccounted
        <5>3. QED
          BY <5>1, <5>2
      <4>2. CountedOnce'
        BY <2>3 DEF CountsAccounted, CountedOnce
      <4>3. \A d \in Event : event'[d] # "processed" => health'[d] = Zero
        BY <2>3, <3>5 DEF CountsAccounted
      <4>4. QED
        BY <4>1, <4>2, <4>3 DEF CountsAccounted
    <3>9. QED
      BY <3>7, <3>8
  <2>6. QED
    BY <2>4, <2>5
<1>5. ASSUME NEW w \in Worker, FindSend(w) PROVE HeldOnce' /\ CountsAccounted'
  <2>1. PICK e \in worker[w].event :
          Put(w, [worker[w] EXCEPT !.phase = "apply",
                                   !.todo = EventWrites(about[e].type, status[about[e].send])])
    BY <1>5 DEF FindSend
  <2> DEFINE writes == EventWrites(about[e].type, status[about[e].send])
             next == [worker[w] EXCEPT !.phase = "apply", !.todo = writes]
  <2>2. e \in Event /\ about[e].type \in EventType /\ status[about[e].send] \in MailStatus
    BY DEF EventsTypeOK
  <2>3. /\ Put(w, next) /\ next.phase = "apply" /\ next.event = worker[w].event
        /\ next.todo = writes
    BY <1>0, <2>1 DEF WorkerType
  <2>4. \A k \in Counter :
          LET at == {i \in 1..Len(writes) : writes[i].do = "count" /\ writes[i].value = k}
          IN  (\A i, j \in at : i = j) /\ (k \in CountersOf(about[e].type) => at # {})
    BY <2>2, CounterWrites
  <2> HIDE DEF next, writes
  <2>5. worker'[w] = next /\ \A v \in Worker : v # w => worker'[v] = worker[v]
    BY <2>3, PutEffect
  <2>6. worker[w].phase = "find" /\ UNCHANGED <<about, event, health, applied, dropped>>
    BY <1>5 DEF FindSend
  <2>7. \A k \in Counter :
          CountsLeft(w, k)' = {i \in 1..Len(writes) : writes[i].do = "count" /\ writes[i].value = k}
    BY <2>3, <2>5 DEF CountsLeft
  <2>8. \A v \in Worker : worker'[v].event = worker[v].event
    BY <2>3, <2>5
  <2>9. HeldOnce'
    BY <2>3, <2>5, <2>6, <2>8 DEF HeldOnce
  <2>10. CountsAccounted'
    <3>1. ASSUME NEW v \in Worker, NEW d \in worker'[v].event
          PROVE  /\ worker'[v].phase = "find" => health'[d] = Zero
                 /\ worker'[v].phase = "apply" => \A k \in Counter :
                      /\ \A i, j \in CountsLeft(v, k)' : i = j
                      /\ CountsLeft(v, k)' # {} => health'[d][k] = 0
                      /\ k \in CountersOf(about'[d].type) /\ CountsLeft(v, k)' = {} => health'[d][k] = 1
      <4>1. CASE v = w
        <5>1. d = e /\ health[d] = Zero
          BY <2>6, <2>8, <3>1, <4>1 DEF HeldOnce, CountsAccounted
        <5>2. QED
          BY <2>3, <2>4, <2>5, <2>6, <2>7, <4>1, <5>1 DEF Zero
      <4>2. CASE v # w
        <5>1. \A k : CountsLeft(v, k)' = CountsLeft(v, k)
          BY <2>5, <4>2 DEF CountsLeft
        <5>2. QED
          BY <2>5, <2>6, <3>1, <4>2, <5>1 DEF CountsAccounted
      <4>3. QED
        BY <4>1, <4>2
    <3>2. CountedOnce'
      BY <2>6 DEF CountsAccounted, CountedOnce
    <3>3. QED
      BY <2>6, <3>1, <3>2 DEF CountsAccounted
  <2>11. QED
    BY <2>9, <2>10
<1>6. ASSUME NEW w \in Worker, ApplyWrite(w) PROVE HeldOnce' /\ CountsAccounted'
  <2> DEFINE q == worker[w].todo
             op == Head(q)
             rest == Tail(q)
             next == IF rest # <<>> THEN [worker[w] EXCEPT !.todo = rest]
                     ELSE IF worker[w].event = {} THEN Idle
                     ELSE [Idle EXCEPT !.phase = "claim", !.batch = worker[w].batch]
  <2>1. worker[w].phase = "apply" /\ q \in Seq(EventWrite) /\ Len(q) # 0
    <3>1. worker[w].phase = "apply" /\ q \in Seq(EventWrite) /\ q # <<>>
      BY <1>0, <1>6 DEF ApplyWrite, EventsTypeOK, WorkerType
    <3>2. QED
      BY <3>1, EmptyLen
  <2>2. /\ Effect(w, op) /\ Put(w, next) /\ UNCHANGED <<about, event, dropped>>
        /\ applied' = IF rest = <<>> THEN applied \cup worker[w].event ELSE applied
    BY <1>6 DEF ApplyWrite
  <2>3. /\ op = q[1] /\ op \in EventWrite /\ Len(q) > 0 /\ Len(rest) = Len(q) - 1 /\ Len(q) \in Nat
        /\ \A i \in 1..Len(rest) : i + 1 \in 1..Len(q) /\ rest[i] = q[i + 1]
        /\ \A i \in 1..Len(q) : i # 1 => i - 1 \in 1..Len(rest) /\ rest[i - 1] = q[i]
        /\ rest = <<>> <=> Len(q) = 1
    BY <2>1, Shift
  <2>4. op.do = "count" => op.value \in Counter
    BY <2>3 DEF EventWrite, MarkSend, Count, Write, ContactWrite
  <2>5. \A e \in Event : health'[e] = IF op.do = "count" /\ e \in worker[w].event
                                     THEN [health[e] EXCEPT ![op.value] = @ + 1] ELSE health[e]
    <3>1. CASE op.do = "count"
      BY <2>2, <3>1 DEF Effect
    <3>2. CASE op.do # "count"
      BY <2>2, <3>2 DEF Effect
    <3>3. QED
      BY <3>1, <3>2
  <2>6. \A e \in Event, k \in Counter :
          /\ health[e][k] \in Nat
          /\ health'[e][k] = IF op.do = "count" /\ op.value = k /\ e \in worker[w].event
                             THEN health[e][k] + 1 ELSE health[e][k]
    <3>1. SUFFICES ASSUME NEW e \in Event, NEW k \in Counter
                   PROVE  /\ health[e][k] \in Nat
                          /\ health'[e][k] = IF op.do = "count" /\ op.value = k /\ e \in worker[w].event
                                             THEN health[e][k] + 1 ELSE health[e][k]
      OBVIOUS
    <3>2. health[e] \in [Counter -> Nat]
      BY DEF EventsTypeOK
    <3> HIDE DEF op
    <3>3. CASE op.do = "count" /\ e \in worker[w].event
      <4>1. health'[e] = [health[e] EXCEPT ![op.value] = @ + 1]
        BY <2>5, <3>3
      <4>2. QED
        BY <3>2, <3>3, <4>1
    <3>4. CASE ~(op.do = "count" /\ e \in worker[w].event)
      BY <2>5, <3>2, <3>4
    <3>5. QED
      BY <3>3, <3>4
  <2>7. /\ rest # <<>> => next.event = worker[w].event /\ next.todo = rest /\ next.phase = "apply"
        /\ rest = <<>> => next.event = {}
    <3>1. CASE rest # <<>>
      BY <1>0, <2>1, <3>1 DEF WorkerType
    <3>2. CASE rest = <<>>
      BY <1>0, <3>2 DEF Idle
    <3>3. QED
      BY <3>1, <3>2
  <2> HIDE DEF op, rest, next
  <2>8. worker'[w] = next /\ \A v \in Worker : v # w => worker'[v] = worker[v]
    BY <2>2, PutEffect
  <2>9. \A v \in Worker : worker[v].event \subseteq Event
    BY <1>0 DEF WorkerType
  \* The event in hand, after the write.
  <2>10. \A e \in worker[w].event, k \in Counter :
           LET left == {i \in 1..Len(rest) : rest[i].do = "count" /\ rest[i].value = k}
           IN  /\ \A i, j \in left : i = j
               /\ left # {} => health'[e][k] = 0
               /\ k \in CountersOf(about[e].type) /\ left = {} => health'[e][k] = 1
               /\ health'[e][k] <= 1
    <3>1. SUFFICES ASSUME NEW e \in worker[w].event, NEW k \in Counter
                   PROVE  LET left == {i \in 1..Len(rest) : rest[i].do = "count" /\ rest[i].value = k}
                          IN  /\ \A i, j \in left : i = j
                              /\ left # {} => health'[e][k] = 0
                              /\ k \in CountersOf(about[e].type) /\ left = {} => health'[e][k] = 1
                              /\ health'[e][k] <= 1
      OBVIOUS
    <3> DEFINE left == {i \in 1..Len(rest) : rest[i].do = "count" /\ rest[i].value = k}
               was  == {i \in 1..Len(q) : q[i].do = "count" /\ q[i].value = k}
    <3>2. /\ \A i, j \in was : i = j
          /\ was # {} => health[e][k] = 0
          /\ k \in CountersOf(about[e].type) /\ was = {} => health[e][k] = 1
          /\ health[e][k] <= 1 /\ health[e][k] \in Nat
      BY <2>1, <2>6, <2>9 DEF CountsAccounted, CountsLeft, CountedOnce
    <3>3. \A i \in left : i + 1 \in was /\ i \in Nat \ {0}
      BY <2>3
    <3>4. \A i \in was : i = 1 \/ i - 1 \in left
      BY <2>3
    <3>5. 1 \in was <=> op.do = "count" /\ op.value = k
      BY <2>3
    <3> HIDE DEF left, was
    <3>6. \A i, j \in left : i = j
      BY <3>2, <3>3
    <3>7. 1 \in was => left = {}
      BY <3>2, <3>3
    <3>8. health'[e][k] = IF 1 \in was THEN health[e][k] + 1 ELSE health[e][k]
      BY <2>6, <2>9, <3>5
    <3>9. QED
      BY <3>2, <3>3, <3>4, <3>6, <3>7, <3>8 DEF left
  <2>11. CASE rest # <<>>
    <3>1. \A v \in Worker : worker'[v].event = worker[v].event
      BY <2>7, <2>8, <2>11
    <3>2. HeldOnce'
      BY <2>1, <2>2, <2>7, <2>8, <2>11, <3>1 DEF HeldOnce
    <3>3. ASSUME NEW v \in Worker, NEW d \in worker'[v].event
          PROVE  /\ worker'[v].phase = "find" => health'[d] = Zero
                 /\ worker'[v].phase = "apply" => \A k \in Counter :
                      /\ \A i, j \in CountsLeft(v, k)' : i = j
                      /\ CountsLeft(v, k)' # {} => health'[d][k] = 0
                      /\ k \in CountersOf(about'[d].type) /\ CountsLeft(v, k)' = {} => health'[d][k] = 1
      <4>1. CASE v = w
        <5>1. \A k \in Counter :
                CountsLeft(w, k)' = {i \in 1..Len(rest) : rest[i].do = "count" /\ rest[i].value = k}
          BY <2>7, <2>8, <2>11 DEF CountsLeft
        <5>2. worker'[w].phase = "apply" /\ d \in worker[w].event
          BY <2>7, <2>8, <2>11, <3>1, <3>3, <4>1
        <5>3. QED
          BY <2>2, <2>10, <4>1, <5>1, <5>2
      <4>2. CASE v # w
        <5>1. \A k : CountsLeft(v, k)' = CountsLeft(v, k)
          BY <2>8, <4>2 DEF CountsLeft
        <5>2. d \in worker[v].event /\ d \notin worker[w].event /\ d \in Event
          BY <2>9, <3>1, <3>3, <4>2 DEF HeldOnce
        <5>3. health'[d] = health[d]
          BY <2>5, <5>2
        <5>4. QED
          BY <2>2, <2>8, <4>2, <5>1, <5>2, <5>3 DEF CountsAccounted
      <4>3. QED
        BY <4>1, <4>2
    <3>4. CountedOnce'
      <4>1. ASSUME NEW e \in Event, NEW k \in Counter
            PROVE  /\ health'[e][k] <= 1
                   /\ e \in applied' /\ k \in CountersOf(about'[e].type) => health'[e][k] = 1
        <5>1. CASE e \in worker[w].event
          BY <2>2, <2>10, <2>11, <5>1 DEF HeldOnce
        <5>2. CASE e \notin worker[w].event
          BY <2>2, <2>6, <2>11, <5>2 DEF CountsAccounted, CountedOnce
        <5>3. QED
          BY <5>1, <5>2
      <4>2. QED
        BY <4>1 DEF CountedOnce
    <3>5. \A e \in Event : event'[e] # "processed" => health'[e] = Zero
      BY <2>2, <2>5 DEF CountsAccounted, HeldOnce
    <3>6. QED
      BY <3>2, <3>3, <3>4, <3>5 DEF CountsAccounted
  <2>12. CASE rest = <<>>
    <3>1. /\ worker'[w].event = {} /\ \A v \in Worker : v # w => worker'[v] = worker[v]
          /\ applied' = applied \cup worker[w].event
      BY <2>2, <2>7, <2>8, <2>12
    <3>2. \A e \in worker[w].event, k \in Counter :
            k \in CountersOf(about[e].type) => health'[e][k] = 1
      BY <2>3, <2>10, <2>12
    <3>3. HeldOnce'
      <4>1. ASSUME NEW v \in Worker, NEW d \in worker'[v].event
            PROVE  /\ worker'[v].event = {d} /\ worker'[v].phase \in {"find", "apply"}
                   /\ event'[d] = "processed" /\ d \notin applied' \cup dropped'
                   /\ \A u \in Worker : d \in worker'[u].event => u = v
        <5>1. v # w /\ worker'[v] = worker[v] /\ d \in worker[v].event
          BY <3>1, <4>1
        <5>2. d \notin worker[w].event
          BY <5>1 DEF HeldOnce
        <5>3. \A u \in Worker : worker'[u].event \subseteq worker[u].event
          BY <3>1
        <5>4. QED
          BY <2>2, <3>1, <5>1, <5>2, <5>3 DEF HeldOnce
      <4>2. \A d \in applied' \cup dropped' : event'[d] = "processed"
        BY <2>2, <3>1 DEF HeldOnce
      <4>3. QED
        BY <4>1, <4>2 DEF HeldOnce
    <3>4. ASSUME NEW v \in Worker, NEW d \in worker'[v].event
          PROVE  /\ worker'[v].phase = "find" => health'[d] = Zero
                 /\ worker'[v].phase = "apply" => \A k \in Counter :
                      /\ \A i, j \in CountsLeft(v, k)' : i = j
                      /\ CountsLeft(v, k)' # {} => health'[d][k] = 0
                      /\ k \in CountersOf(about'[d].type) /\ CountsLeft(v, k)' = {} => health'[d][k] = 1
      <4>1. v # w /\ worker'[v] = worker[v] /\ d \in worker[v].event
        BY <3>1, <3>4
      <4>2. \A k : CountsLeft(v, k)' = CountsLeft(v, k)
        BY <4>1 DEF CountsLeft
      <4>3. d \notin worker[w].event /\ d \in Event
        BY <2>9, <4>1 DEF HeldOnce
      <4>4. health'[d] = health[d]
        BY <2>5, <4>3
      <4>5. QED
        BY <2>2, <4>1, <4>2, <4>4 DEF CountsAccounted
    <3>5. CountedOnce'
      <4>1. ASSUME NEW e \in Event, NEW k \in Counter
            PROVE  /\ health'[e][k] <= 1
                   /\ e \in applied' /\ k \in CountersOf(about'[e].type) => health'[e][k] = 1
        <5>1. CASE e \in worker[w].event
          BY <2>2, <2>10, <3>2, <5>1
        <5>2. CASE e \notin worker[w].event
          BY <2>2, <2>6, <3>1, <5>2 DEF CountsAccounted, CountedOnce
        <5>3. QED
          BY <5>1, <5>2
      <4>2. QED
        BY <4>1 DEF CountedOnce
    <3>6. \A e \in Event : event'[e] # "processed" => health'[e] = Zero
      BY <2>2, <2>5 DEF CountsAccounted, HeldOnce
    <3>7. QED
      BY <3>3, <3>4, <3>5, <3>6 DEF CountsAccounted
  <2>13. QED
    BY <2>11, <2>12
<1>7. QED
  BY <1>1, <1>2, <1>3, <1>4, <1>5, <1>6 DEF EventsNext, Work

-----------------------------------------------------------------------------
(* Who lifts a block.                                                      *)

LEMMA CallLifts ==
  ASSUME TypeOK, LiftsAsked, NEW r \in Request,
         Submit(r) \/ Call(r) \/ DbFails(r) \/ Timeout(r) \/ JournalFails(r) \/ CallDies(r)
  PROVE  LiftsAsked'
<1> USE DEF TypeOK
<1>1. /\ http \in [Request -> {"none", "waiting", "journal", "ok", "journaled", "failed", "dead"}]
      /\ todo \in [Request \cup Drainer -> Seq(ContactWrite)]
      /\ UNCHANGED form
  BY DEF JournalTypeOK, Submit, Call, DbWrite, Answer, JournalOpen, JournalWrite, Journaled, DbFails,
         Timeout, JournalFails, CallDies, calls
<1>2. \A c : OptIns(c)' = OptIns(c)
  BY <1>1 DEF OptIns
<1>3. \A c \in Request : http[c] # "none" => http'[c] # "none"
  BY <1>1 DEF Submit, Call, DbWrite, Answer, JournalOpen, JournalWrite, Journaled, DbFails,
              Timeout, Journaling, JournalFails, CallDies, calls
<1>4. \A a \in Request \cup Drainer : a # r => todo'[a] = todo[a]
  BY <1>1 DEF Submit, Call, DbWrite, Answer, JournalOpen, JournalWrite, Journaled, DbFails,
              Timeout, JournalFails, CallDies, calls
<1>5. /\ todo'[r] # <<>> => http'[r] # "none"
      /\ \A i \in 1..Len(todo'[r]) :
           todo'[r][i].do = "clear" => todo'[r][i].scopes \subseteq OptIns(r)
  <2>1. CASE Submit(r)
    <3>1. form[r].kind # "absent" /\ http'[r] = "waiting" /\ todo'[r] = Writes(r)
      BY <1>1, <2>1 DEF Submit
    <3>2. QED
      BY <3>1, CallWrites DEF JournalTypeOK
  <2>2. CASE DbWrite(r)
    <3>1. todo[r] # <<>> /\ todo[r] \in Seq(ContactWrite) /\ todo'[r] = Tail(todo[r])
      BY <1>1, <2>2 DEF DbWrite
    <3>2. Len(todo[r]) # 0
      BY <3>1, EmptyLen
    <3> DEFINE q == todo[r]
               rest == Tail(q)
    <3>3. \A i \in 1..Len(rest) : i + 1 \in 1..Len(q) /\ rest[i] = q[i + 1]
      BY <3>1, <3>2, Shift
    <3>4. \A i \in 1..Len(q) : q[i].do = "clear" => q[i].scopes \subseteq OptIns(r)
      BY DEF LiftsAsked
    <3>5. http'[r] # "none"
      BY <1>3, <3>1 DEF LiftsAsked
    <3> HIDE DEF q, rest
    <3>6. \A i \in 1..Len(rest) : rest[i].do = "clear" => rest[i].scopes \subseteq OptIns(r)
      BY <3>3, <3>4
    <3>7. QED
      BY <3>1, <3>5, <3>6 DEF q, rest
  <2>3. CASE todo'[r] = todo[r]
    BY <1>3, <2>3 DEF LiftsAsked
  <2>4. CASE todo'[r] = <<>>
    <3>1. Len(<<>>) = 0
      OBVIOUS
    <3>2. QED
      BY <2>4, <3>1
  <2>5. QED
    BY <1>1, <2>1, <2>2, <2>3, <2>4
       DEF Call, Answer, JournalOpen, JournalWrite, Journaled, DbFails, Timeout, JournalFails, CallDies
<1>6. r \notin Drainer
  BY UnsubJournalAssumption
<1>7. QED
  BY <1>2, <1>3, <1>4, <1>5, <1>6 DEF LiftsAsked

LEMMA PassLifts ==
  ASSUME TypeOK, LiftsAsked, NEW d \in Drainer, Pass(d) \/ ApplyFails(d) \/ DrainDies(d)
  PROVE  LiftsAsked'
<1> USE DEF TypeOK
<1>1. todo \in [Request \cup Drainer -> Seq(ContactWrite)] /\ UNCHANGED <<form, http>>
  BY DEF JournalTypeOK, Pass, StartPass, Adopt, ClaimJournal, ReadClaim, ApplyEntry, ApplyDone,
         ReleaseOpen, ReleaseWrite, Unlink, ApplyFails, DrainDies, calls
<1>2. \A c : OptIns(c)' = OptIns(c)
  BY <1>1 DEF OptIns
<1>3. \A a \in Request \cup Drainer : a # d => todo'[a] = todo[a]
  BY <1>1 DEF Pass, StartPass, Adopt, ClaimJournal, ReadClaim, ApplyEntry, ApplyDone,
              ReleaseOpen, ReleaseWrite, Unlink, ApplyFails, DrainDies, GiveUp
<1>4. \A i \in 1..Len(todo'[d]) : todo'[d][i].do # "clear"
  <2>1. CASE ApplyEntry(d)
    <3>1. PICK e \in drain[d].batch :
            LET ops == IF todo[d] = <<>> THEN OptOut(e[2]) ELSE todo[d]
            IN  todo' = [todo EXCEPT ![d] = Tail(ops)]
      BY <2>1 DEF ApplyEntry
    <3> DEFINE ops == IF todo[d] = <<>> THEN OptOut(e[2]) ELSE todo[d]
               rest == Tail(ops)
    <3>2. e[2] \in Scope
      BY DEF JournalTypeOK, Entry
    <3>3. ops \in Seq(ContactWrite) /\ ops # <<>> /\ \A i \in 1..Len(ops) : ops[i].do # "clear"
      BY <1>1, <3>2, OptOutWrites DEF LiftsAsked
    <3>4. todo'[d] = rest
      BY <1>1, <3>1
    <3> HIDE DEF ops
    <3>5. Len(ops) # 0
      BY <3>3, EmptyLen
    <3>6. \A i \in 1..Len(rest) : i + 1 \in 1..Len(ops) /\ rest[i] = ops[i + 1]
      BY <3>3, <3>5, Shift
    <3> HIDE DEF rest
    <3>7. QED
      BY <3>3, <3>4, <3>6
  <2>2. CASE todo'[d] = todo[d]
    BY <2>2 DEF LiftsAsked
  <2>3. CASE todo'[d] = <<>>
    <3>1. Len(<<>>) = 0
      OBVIOUS
    <3>2. QED
      BY <2>3, <3>1
  <2>4. QED
    BY <1>1, <2>1, <2>2, <2>3
       DEF Pass, StartPass, Adopt, ClaimJournal, ReadClaim, ApplyDone, ReleaseOpen, ReleaseWrite,
           Unlink, ApplyFails, DrainDies, GiveUp
<1>5. d \notin Request
  BY UnsubJournalAssumption
<1>6. QED
  BY <1>1, <1>2, <1>3, <1>4, <1>5 DEF LiftsAsked

LEMMA LiftsKept == ASSUME TypeOK, LiftsAsked, [Next]_vars PROVE LiftsAsked'
<1>1. ASSUME UNCHANGED <<form, http, todo>> PROVE LiftsAsked'
  BY <1>1 DEF LiftsAsked, OptIns
<1>2. CASE JournalNext
  <2>1. ASSUME NEW f \in File, Age(f) PROVE LiftsAsked'
    BY <1>1, <2>1 DEF Age, calls
  <2>2. CASE PauseEnds
    BY <1>1, <2>2 DEF PauseEnds, unsubs, calls
  <2>3. QED
    BY <1>2, <2>1, <2>2, CallLifts, PassLifts DEF JournalNext
<1>3. CASE UNCHANGED unsubs \/ UNCHANGED vars
  BY <1>1, <1>3 DEF vars, unsubs, calls
<1>4. QED
  BY <1>2, <1>3 DEF Next

\* What a step of a call or of the drain does to the rows: one write, which
\* lifts only what a call has asked for, or the end of a pause.
LEMMA JournalContact ==
  ASSUME TypeOK, LiftsAsked, JournalNext
  PROVE  \/ UNCHANGED supp
         \/ PauseEnds
         \/ \E w \in ContactWrite :
              /\ Do(w)
              /\ w.do = "clear" => \E r \in Request : w.scopes \subseteq OptIns(r) /\ http[r] # "none"
<1> USE DEF TypeOK
<1>1. ASSUME NEW r \in Request, DbWrite(r)
      PROVE  \E w \in ContactWrite :
               /\ Do(w)
               /\ w.do = "clear" => \E c \in Request : w.scopes \subseteq OptIns(c) /\ http[c] # "none"
  <2> DEFINE q == todo[r]
             w == Head(q)
  <2>1. q \in Seq(ContactWrite) /\ q # <<>> /\ Do(w)
    BY <1>1 DEF DbWrite, JournalTypeOK
  <2>2. Len(q) # 0
    BY <2>1, EmptyLen
  <2>3. w = q[1] /\ w \in ContactWrite /\ 1 \in 1..Len(q)
    BY <2>1, <2>2, Shift
  <2>4. http[r] # "none" /\ (q[1].do = "clear" => q[1].scopes \subseteq OptIns(r))
    BY <2>1, <2>3 DEF LiftsAsked
  <2> HIDE DEF q, w
  <2>5. QED
    BY <2>1, <2>3, <2>4
<1>2. ASSUME NEW d \in Drainer, ApplyEntry(d)
      PROVE  \E w \in ContactWrite : Do(w) /\ w.do # "clear"
  <2>1. PICK e \in drain[d].batch :
          LET ops == IF todo[d] = <<>> THEN OptOut(e[2]) ELSE todo[d] IN Do(Head(ops))
    BY <1>2 DEF ApplyEntry
  <2> DEFINE ops == IF todo[d] = <<>> THEN OptOut(e[2]) ELSE todo[d]
             w == Head(ops)
  <2>2. e[2] \in Scope
    BY DEF JournalTypeOK, Entry
  <2>3. ops \in Seq(ContactWrite) /\ ops # <<>> /\ \A i \in 1..Len(ops) : ops[i].do # "clear"
    BY <2>2, OptOutWrites DEF JournalTypeOK, LiftsAsked
  <2>4. Do(w)
    BY <2>1
  <2> HIDE DEF ops
  <2>5. Len(ops) # 0
    BY <2>3, EmptyLen
  <2>6. w = ops[1] /\ w \in ContactWrite /\ 1 \in 1..Len(ops)
    BY <2>3, <2>5, Shift
  <2> HIDE DEF w
  <2>7. QED
    BY <2>3, <2>4, <2>6
<1>3. QED
  BY <1>1, <1>2
     DEF JournalNext, Call, Pass, contact, Submit, Answer, JournalOpen, JournalWrite, Journaled,
         DbFails, Timeout, JournalFails, CallDies, StartPass, Adopt, ClaimJournal, ReadClaim,
         ApplyDone, ReleaseOpen, ReleaseWrite, Unlink, ApplyFails, DrainDies, Age

\* What a step of a pass does to them: one write, which lifts nothing.
LEMMA EventContact ==
  ASSUME TypeOK, NoLifts, EventsNext
  PROVE  \/ UNCHANGED supp
         \/ \E w \in ContactWrite : Do(w) /\ w.do # "clear"
<1>1. ASSUME NEW w \in Worker, ApplyWrite(w)
      PROVE  UNCHANGED supp \/ \E op \in ContactWrite : Do(op) /\ op.do # "clear"
  <2> DEFINE q == worker[w].todo
             op == Head(q)
  <2>1. q \in Seq(EventWrite) /\ q # <<>> /\ Effect(w, op)
    BY <1>1 DEF ApplyWrite, TypeOK, EventsTypeOK
  <2>2. Len(q) # 0
    BY <2>1, EmptyLen
  <2>3. op = q[1] /\ op \in EventWrite /\ 1 \in 1..Len(q)
    BY <2>1, <2>2, Shift
  <2>4. op.do # "clear"
    BY <2>3 DEF NoLifts
  <2> HIDE DEF q, op
  <2>5. CASE op.do \in {"send", "count"}
    BY <2>1, <2>5 DEF Effect, contact
  <2>6. CASE op.do \notin {"send", "count"}
    <3>1. op \in ContactWrite
      BY <2>3, <2>6 DEF EventWrite, MarkSend, Count, Write
    <3>2. Do(op)
      BY <2>1, <2>6 DEF Effect
    <3>3. QED
      BY <2>4, <3>1, <3>2
  <2>7. QED
    BY <2>5, <2>6
<1>2. QED
  BY <1>1 DEF EventsNext, Work, Ingest, ReadBacklog, Claim, EndPass, FindSend, ReadOffenders,
              ApplyThrows, WorkerDies, contact

LEMMA NoLiftsKept == ASSUME TypeOK, NoLifts, [Next]_vars PROVE NoLifts'
<1> USE DEF TypeOK
<1>1. ASSUME UNCHANGED worker PROVE NoLifts'
  BY <1>1 DEF NoLifts
<1>2. ASSUME NEW w \in Worker, NEW next, Put(w, next),
             \A i \in 1..Len(next.todo) : next.todo[i].do # "clear"
      PROVE  NoLifts'
  BY <1>2, PutEffect DEF NoLifts
<1>3. Idle.todo = <<>> /\ Len(<<>>) = 0
  BY DEF Idle
<1>4. worker \in [Worker -> WorkerType]
  BY DEF EventsTypeOK, WorkerType
<1>5. CASE EventsNext
  <2>1. ASSUME NEW w \in Worker, ReadBacklog(w) PROVE NoLifts'
    <3> DEFINE next == [Idle EXCEPT !.phase = "claim", !.batch = Waiting]
    <3>1. Put(w, next) /\ next.todo = <<>>
      BY <2>1 DEF ReadBacklog, Idle
    <3> HIDE DEF next
    <3>2. QED
      BY <1>2, <1>3, <3>1
  <2>2. ASSUME NEW w \in Worker, Claim(w) PROVE NoLifts'
    <3>1. PICK e \in worker[w].batch :
            \/ Put(w, [worker[w] EXCEPT !.phase = "find", !.batch = @ \ {e}, !.event = {e}])
            \/ Put(w, [worker[w] EXCEPT !.batch = @ \ {e}])
      BY <2>2 DEF Claim
    <3> DEFINE one == [worker[w] EXCEPT !.phase = "find", !.batch = @ \ {e}, !.event = {e}]
               two == [worker[w] EXCEPT !.batch = @ \ {e}]
    <3>2. one.todo = worker[w].todo /\ two.todo = worker[w].todo
      BY <1>4 DEF WorkerType
    <3> HIDE DEF one, two
    <3>3. Put(w, one) \/ Put(w, two)
      BY <3>1 DEF one, two
    <3>4. QED
      BY <1>2, <3>2, <3>3 DEF NoLifts
  <2>3. ASSUME NEW w \in Worker, EndPass(w) PROVE NoLifts'
    BY <1>2, <1>3, <2>3 DEF EndPass
  <2>4. ASSUME NEW w \in Worker, FindSend(w) PROVE NoLifts'
    <3>1. PICK e \in worker[w].event :
            Put(w, [worker[w] EXCEPT !.phase = "apply",
                                     !.todo = EventWrites(about[e].type, status[about[e].send])])
      BY <2>4 DEF FindSend
    <3> DEFINE writes == EventWrites(about[e].type, status[about[e].send])
               next == [worker[w] EXCEPT !.phase = "apply", !.todo = writes]
    <3>2. about[e].type \in EventType /\ status[about[e].send] \in MailStatus
      BY DEF EventsTypeOK
    <3>3. \A i \in 1..Len(writes) : writes[i].do # "clear"
      BY <3>2, EventWritesType
    <3> HIDE DEF writes
    <3>4. Put(w, next) /\ next.todo = writes
      BY <1>4, <3>1 DEF writes, WorkerType
    <3> HIDE DEF next
    <3>5. QED
      BY <1>2, <3>3, <3>4
  <2>5. ASSUME NEW w \in Worker, ReadOffenders(w) PROVE NoLifts'
    <3> DEFINE writes == <<Insert("all", "hard_bounce"), SetStatus("bounced"), Count("hardBounced")>>
               next == [Idle EXCEPT !.phase = "apply", !.todo = writes]
    <3>1. \A i \in 1..Len(writes) : writes[i].do # "clear"
      BY DEF Insert, SetStatus, Count, Write
    <3> HIDE DEF writes
    <3>2. Put(w, next) /\ next.todo = writes
      BY <2>5 DEF ReadOffenders, Idle, writes
    <3> HIDE DEF next
    <3>3. QED
      BY <1>2, <3>1, <3>2
  <2>6. ASSUME NEW w \in Worker, NEW b, Put(w, Idle) \/ Put(w, [Idle EXCEPT !.phase = "claim", !.batch = b])
        PROVE  NoLifts'
    <3> DEFINE next == [Idle EXCEPT !.phase = "claim", !.batch = b]
    <3>1. next.todo = <<>>
      BY DEF Idle
    <3>2. Put(w, Idle) \/ Put(w, next)
      BY <2>6
    <3> HIDE DEF next
    <3>3. CASE Put(w, Idle)
      BY <1>2, <1>3, <3>3
    <3>4. CASE Put(w, next)
      BY <1>2, <1>3, <3>1, <3>4
    <3>5. QED
      BY <3>2, <3>3, <3>4
  <2>7. ASSUME NEW w \in Worker, ApplyWrite(w) PROVE NoLifts'
    <3> DEFINE q == worker[w].todo
               rest == Tail(q)
               next == [worker[w] EXCEPT !.todo = rest]
    <3>1. q \in Seq(EventWrite) /\ q # <<>>
      BY <2>7 DEF ApplyWrite, EventsTypeOK
    <3>2. Len(q) # 0
      BY <3>1, EmptyLen
    <3>3. \A i \in 1..Len(rest) : i + 1 \in 1..Len(q) /\ rest[i] = q[i + 1]
      BY <3>1, <3>2, Shift
    <3>4. \A i \in 1..Len(q) : q[i].do # "clear"
      BY DEF NoLifts
    <3>5. \/ Put(w, next)
          \/ Put(w, Idle) \/ Put(w, [Idle EXCEPT !.phase = "claim", !.batch = worker[w].batch])
      BY <2>7 DEF ApplyWrite
    <3> HIDE DEF q, rest
    <3>6. next.todo = rest
      BY <1>4 DEF WorkerType
    <3> HIDE DEF next
    <3>7. \A i \in 1..Len(rest) : rest[i].do # "clear"
      BY <3>3, <3>4
    <3>8. CASE Put(w, next)
      BY <1>2, <3>6, <3>7, <3>8
    <3>9. QED
      BY <2>6, <3>5, <3>8
  <2>8. ASSUME NEW w \in Worker, ApplyThrows(w) \/ WorkerDies(w) PROVE NoLifts'
    BY <2>6, <2>8 DEF ApplyThrows, WorkerDies
  <2>9. ASSUME NEW e \in Event, Ingest(e) PROVE NoLifts'
    BY <1>1, <2>9 DEF Ingest
  <2>10. QED
    BY <1>5, <2>1, <2>2, <2>3, <2>4, <2>5, <2>7, <2>8, <2>9 DEF EventsNext, Work
<1>6. CASE UNCHANGED feedback \/ UNCHANGED vars
  BY <1>1, <1>6 DEF vars, feedback
<1>7. QED
  BY <1>5, <1>6 DEF Next

LEMMA InitLifts == Init => LiftsAsked /\ NoLifts
<1>1. Len(<<>>) = 0
  OBVIOUS
<1>2. ASSUME Init PROVE LiftsAsked
  <2>1. \A a \in Request \cup Drainer : todo[a] = <<>>
    BY <1>2 DEF Init, JournalInit
  <2>2. QED
    BY <1>1, <2>1 DEF LiftsAsked
<1>3. ASSUME Init PROVE NoLifts
  <2>1. \A w \in Worker : worker[w].todo = <<>>
    BY <1>3 DEF Init, EventsInit, Idle
  <2>2. QED
    BY <1>1, <2>1 DEF NoLifts
<1>4. QED
  BY <1>2, <1>3

LEMMA LiftsInvariant == Spec => [](TypeOK /\ LiftsAsked /\ NoLifts)
<1>1. LiftsAsked /\ NoLifts /\ TypeOK /\ [Next]_vars => LiftsAsked' /\ NoLifts'
  BY LiftsKept, NoLiftsKept
<1>2. QED
  BY TypeCorrect, InitLifts, <1>1, PTL DEF Spec

\* Whatever calls, drains, events and deaths there are, a block other than a
\* pause goes only where an unsubscribe made it, and a call that was made
\* opts in to its scope.  (preferences.ts, unsubscribe.ts, webhook.ts.)
THEOREM BlocksAreKept == Spec => BlocksStay
<1> DEFINE Stay == \A s \in Scope \ {"marketing_pause"} :
                     supp[s] # "none" /\ supp'[s] = "none" =>
                       /\ supp[s] = "unsubscribed"
                       /\ \E r \in Request : s \in OptIns(r) /\ http[r] # "none"
<1>1. ASSUME TypeOK, LiftsAsked, NoLifts, [Next]_vars PROVE Stay
  <2>1. CASE UNCHANGED supp
    BY <2>1
  <2>2. CASE PauseEnds
    BY <2>2 DEF PauseEnds
  <2>3. ASSUME NEW w \in ContactWrite, Do(w),
               w.do = "clear" => \E r \in Request : w.scopes \subseteq OptIns(r) /\ http[r] # "none"
        PROVE  Stay
    <3>1. \A s \in Scope : supp[s] # "none" /\ supp'[s] = "none" =>
              \/ s = "marketing_pause"
              \/ w.do = "clear" /\ s \in w.scopes /\ supp[s] = "unsubscribed"
      BY <1>1, <2>3, DoEffect DEF TypeOK, ContactTypeOK
    <3>2. QED
      BY <2>3, <3>1
  <2>4. CASE JournalNext
    BY <1>1, <2>1, <2>2, <2>3, <2>4, JournalContact
  <2>5. CASE EventsNext
    BY <1>1, <2>1, <2>3, <2>5, EventContact
  <2>6. QED
    BY <1>1, <2>1, <2>4, <2>5 DEF Next, vars, contact
<1>2. TypeOK /\ LiftsAsked /\ NoLifts /\ [Next]_vars => [Stay]_vars
  BY <1>1
<1>3. QED
  BY LiftsInvariant, <1>2, PTL DEF Spec, BlocksStay

-----------------------------------------------------------------------------
(* Counters.                                                               *)

LEMMA InitCounts == Init => HeldOnce /\ CountsAccounted
<1>1. SUFFICES ASSUME Init PROVE HeldOnce /\ CountsAccounted
  OBVIOUS
<1>2. /\ \A w \in Worker : worker[w].event = {}
      /\ \A e \in Event : health[e] = Zero
      /\ applied = {} /\ dropped = {}
  BY <1>1 DEF Init, EventsInit, Idle
<1>3. \A k \in Counter : Zero[k] = 0
  BY DEF Zero
<1>4. CountedOnce
  BY <1>2, <1>3 DEF CountedOnce
<1>5. QED
  BY <1>2, <1>4 DEF HeldOnce, CountsAccounted

LEMMA CountsKept ==
  ASSUME TypeOK, HeldOnce, CountsAccounted, [Next]_vars
  PROVE  HeldOnce' /\ CountsAccounted'
<1>1. CASE EventsNext
  BY <1>1, EventsKept
<1>2. CASE UNCHANGED feedback
  <2>1. UNCHANGED <<about, event, worker, health, applied, dropped>>
    BY <1>2 DEF feedback
  <2>2. \A w, k : CountsLeft(w, k)' = CountsLeft(w, k)
    BY <2>1 DEF CountsLeft
  <2>3. QED
    BY <2>1, <2>2 DEF HeldOnce, CountsAccounted, CountedOnce
<1>3. QED
  BY <1>1, <1>2 DEF Next, vars

\* However often the provider posts an event, and whichever passes find it,
\* it goes at most once into each counter, and into each of its type if its
\* writes were all made.  (webhook.ts:37 and applyWebhookEvent.)
THEOREM EventsCountOnce == Spec => []CountedOnce
<1>1. TypeOK /\ HeldOnce /\ CountsAccounted /\ [Next]_vars => HeldOnce' /\ CountsAccounted'
  BY CountsKept
<1>2. CountsAccounted => CountedOnce
  BY DEF CountsAccounted
<1>3. QED
  BY TypeCorrect, InitCounts, <1>1, <1>2, PTL DEF Spec

-----------------------------------------------------------------------------
(* What stops all mail.                                                    *)

\* Nothing that a call, a drain or an event does lifts a block of all mail that
\* is not an opt-out.
LEMMA BlockedKept ==
  ASSUME TypeOK, LiftsAsked, NoLifts, [Next]_vars, Blocked
  PROVE  Blocked'
<1>1. \A w \in ContactWrite : Do(w) => Blocked'
  BY DoEffect DEF TypeOK, ContactTypeOK
<1>2. CASE UNCHANGED supp
  BY <1>2 DEF Blocked
<1>3. CASE PauseEnds
  <2>1. supp'["all"] = supp["all"]
    BY <1>3 DEF PauseEnds, TypeOK, ContactTypeOK, Scope, ListScope
  <2>2. QED
    BY <2>1 DEF Blocked
<1>4. CASE JournalNext
  BY <1>1, <1>2, <1>3, <1>4, JournalContact
<1>5. CASE EventsNext
  BY <1>1, <1>2, <1>5, EventContact
<1>6. QED
  BY <1>2, <1>4, <1>5 DEF Next, vars, contact

\* The account of a pass, for what it is about to be.
StopsNext(next) ==
  /\ next.event = {} \/ (\E e \in next.event : about[e].type \in {"hard", "complaint"}) =>
       Blocked' \/ shadowed' \/ \E i \in 1..Len(next.todo) : BlocksAll(next.todo[i])
  /\ next.event = {} => \A i \in 1..Len(next.todo) :
       next.todo[i].do = "count" => i = Len(next.todo)

LEMMA PutStops ==
  ASSUME EventsTypeOK, StopsAccounted, NEW w \in Worker, NEW next, Put(w, next),
         Blocked => Blocked', shadowed => shadowed', UNCHANGED about,
         FinalApplied' => Blocked' \/ shadowed',
         next.phase = "apply" => StopsNext(next)
  PROVE  StopsAccounted'
<1>1. worker'[w] = next /\ \A v \in Worker : v # w => worker'[v] = worker[v]
  BY PutEffect
<1>2. ASSUME NEW v \in Worker, worker'[v].phase = "apply" PROVE StopsNext(worker'[v])
  <2>1. CASE v = w
    BY <1>1, <1>2, <2>1
  <2>2. CASE v # w
    <3>1. worker'[v] = worker[v]
      BY <1>1, <2>2
    <3>2. QED
      BY <1>2, <3>1 DEF StopsAccounted, Stops, StopsNext
  <2>3. QED
    BY <2>1, <2>2
<1>3. QED
  BY <1>2 DEF StopsAccounted, Stops, StopsNext

\* A hard bounce and a complaint have the insert before them.
LEMMA FinalWrites ==
  ASSUME NEW type \in {"hard", "complaint"}, NEW read
  PROVE  \E i \in 1..Len(EventWrites(type, read)) : BlocksAll(EventWrites(type, read)[i])
<1> DEFINE q == EventWrites(type, read)
<1>1. Len(q) \in Nat /\ Len(q) >= 2
  BY DEF EventWrites
<1>2. q[2] = Insert("all", IF type = "hard" THEN "hard_bounce" ELSE "complaint")
  BY DEF EventWrites
<1>3. BlocksAll(q[2])
  BY <1>2 DEF BlocksAll, Insert, Write, Final
<1> HIDE DEF q
<1>4. QED
  BY <1>1, <1>3 DEF q

LEMMA WriteStops ==
  ASSUME TypeOK, LiftsAsked, NoLifts, StopsAccounted, [Next]_vars, NEW w \in Worker, ApplyWrite(w)
  PROVE  StopsAccounted'
<1>5. Blocked => Blocked'
  BY BlockedKept
<1> USE DEF TypeOK
<1> DEFINE q == worker[w].todo
           op == Head(q)
           rest == Tail(q)
           next == IF rest # <<>> THEN [worker[w] EXCEPT !.todo = rest]
                   ELSE IF worker[w].event = {} THEN Idle
                   ELSE [Idle EXCEPT !.phase = "claim", !.batch = worker[w].batch]
<1>0. worker \in [Worker -> WorkerType]
  BY DEF EventsTypeOK, WorkerType
<1>1. worker[w].phase = "apply" /\ q \in Seq(EventWrite) /\ q # <<>>
  BY DEF ApplyWrite, EventsTypeOK
<1>2. Len(q) # 0
  BY <1>1, EmptyLen
<1>3. /\ op = q[1] /\ op \in EventWrite
      /\ Len(q) \in Nat /\ Len(q) > 0 /\ Len(rest) = Len(q) - 1
      /\ \A i \in 1..Len(rest) : i + 1 \in 1..Len(q) /\ rest[i] = q[i + 1]
      /\ \A i \in 1..Len(q) : i # 1 => i - 1 \in 1..Len(rest) /\ rest[i - 1] = q[i]
      /\ rest = <<>> <=> Len(q) = 1
  BY <1>1, <1>2, Shift
<1>4. /\ Put(w, next) /\ Effect(w, op) /\ UNCHANGED about
      /\ applied' = IF rest = <<>> THEN applied \cup worker[w].event ELSE applied
  BY DEF ApplyWrite
<1>6. /\ shadowed => shadowed'
      /\ op.do = "insert" /\ op.value \in Final /\ supp["all"] = "unsubscribed" => shadowed'
      /\ promoted' # promoted => op.do = "count" /\ worker[w].event = {}
      /\ op.do \notin {"send", "count"} => Do(op)
  BY <1>4 DEF Effect
<1>7. /\ next.phase = "apply" => rest # <<>>
      /\ rest # <<>> => next.event = worker[w].event /\ next.todo = rest
  <2>1. CASE rest # <<>>
    BY <1>0, <2>1 DEF WorkerType
  <2>2. CASE rest = <<>>
    BY <2>2 DEF Idle
  <2>3. QED
    BY <2>1, <2>2
<1> HIDE DEF op, rest, next
<1>8. ASSUME BlocksAll(op) PROVE Blocked' \/ shadowed'
  <2>1. op.do = "insert" /\ op.value \in Final
    BY <1>8 DEF BlocksAll
  <2>2. op \in ContactWrite
    BY <1>3, <2>1 DEF EventWrite, MarkSend, Count, Write
  <2>3. QED
    BY <1>6, <1>8, <2>1, <2>2, DoEffect DEF ContactTypeOK
<1>9. /\ Stops(w) => \/ Blocked \/ shadowed \/ \E i \in 1..Len(q) : BlocksAll(q[i])
      /\ worker[w].event = {} => \A i \in 1..Len(q) : q[i].do = "count" => i = Len(q)
  BY <1>1 DEF StopsAccounted
<1> HIDE DEF q
<1>10. Stops(w) => Blocked' \/ shadowed' \/ \E i \in 1..Len(rest) : BlocksAll(rest[i])
  <2>1. ASSUME NEW i \in 1..Len(q), BlocksAll(q[i])
        PROVE  Blocked' \/ shadowed' \/ \E j \in 1..Len(rest) : BlocksAll(rest[j])
    <3>1. CASE i = 1
      BY <1>3, <1>8, <2>1, <3>1
    <3>2. CASE i # 1
      BY <1>3, <2>1, <3>2
    <3>3. QED
      BY <3>1, <3>2
  <2>2. QED
    BY <1>5, <1>6, <1>9, <2>1
<1>11. worker[w].event = {} => \A i \in 1..Len(rest) : rest[i].do = "count" => i = Len(rest)
  BY <1>3, <1>9
<1>12. next.phase = "apply" => StopsNext(next)
  BY <1>7, <1>10, <1>11 DEF StopsNext, Stops
<1>13. FinalApplied' => Blocked' \/ shadowed'
  <2>1. CASE FinalApplied
    BY <1>5, <1>6, <2>1 DEF StopsAccounted
  <2>2. CASE promoted' # promoted
    <3>1. op.do = "count" /\ worker[w].event = {}
      BY <1>6, <2>2
    <3>2. Len(q) = 1 /\ ~BlocksAll(op)
      BY <1>3, <1>9, <3>1 DEF BlocksAll
    <3>3. \A i \in 1..Len(q) : ~BlocksAll(q[i])
      BY <1>3, <3>2
    <3>4. QED
      BY <1>5, <1>6, <1>9, <3>1, <3>3 DEF Stops
  <2>3. ASSUME ~FinalApplied, promoted' = promoted, FinalApplied' PROVE Blocked' \/ shadowed'
    <3>1. PICK e \in applied' : about[e].type \in {"hard", "complaint"}
      BY <1>4, <2>3 DEF FinalApplied
    <3>2. rest = <<>> /\ e \in worker[w].event
      BY <1>4, <2>3, <3>1 DEF FinalApplied
    <3>3. Stops(w)
      BY <3>1, <3>2 DEF Stops
    <3>4. Len(rest) = 0
      BY <1>3, <3>2
    <3>5. QED
      BY <1>10, <3>3, <3>4
  <2>4. QED
    BY <2>1, <2>2, <2>3
<1>14. QED
  BY <1>4, <1>5, <1>6, <1>12, <1>13, PutStops

LEMMA StopsKept ==
  ASSUME TypeOK, LiftsAsked, NoLifts, HeldOnce, StopsAccounted, [Next]_vars
  PROVE  StopsAccounted'
<1> USE DEF TypeOK
<1>1. Blocked => Blocked'
  BY BlockedKept
<1>2. ASSUME UNCHANGED <<about, applied, promoted>>, shadowed => shadowed'
      PROVE  FinalApplied' => Blocked' \/ shadowed'
  BY <1>1, <1>2 DEF FinalApplied, StopsAccounted
<1>3. ASSUME NEW w \in Worker, NEW next, Put(w, next), next.phase # "apply",
             UNCHANGED <<about, applied, promoted, shadowed>>
      PROVE  StopsAccounted'
  BY <1>1, <1>2, <1>3, PutStops
<1>4. CASE UNCHANGED feedback
  <2>1. UNCHANGED <<about, applied, promoted, shadowed, worker>>
    BY <1>4 DEF feedback
  <2>2. QED
    BY <1>1, <1>2, <2>1 DEF StopsAccounted, Stops
<1>5. worker \in [Worker -> WorkerType]
  BY DEF EventsTypeOK, WorkerType
<1>6. CASE EventsNext
  <2>1. ASSUME NEW w \in Worker, FindSend(w) PROVE StopsAccounted'
    <3>1. PICK e \in worker[w].event :
            Put(w, [worker[w] EXCEPT !.phase = "apply",
                                     !.todo = EventWrites(about[e].type, status[about[e].send])])
      BY <2>1 DEF FindSend
    <3> DEFINE writes == EventWrites(about[e].type, status[about[e].send])
               next == [worker[w] EXCEPT !.phase = "apply", !.todo = writes]
    <3>2. worker[w].event = {e}
      BY DEF HeldOnce
    <3>3. about[e].type \in {"hard", "complaint"} =>
            \E i \in 1..Len(writes) : BlocksAll(writes[i])
      BY FinalWrites
    <3> HIDE DEF writes
    <3>4. Put(w, next) /\ next.event = {e} /\ next.todo = writes
      BY <1>5, <3>1, <3>2 DEF writes, WorkerType
    <3> HIDE DEF next
    <3>5. StopsNext(next)
      BY <3>3, <3>4 DEF StopsNext
    <3>6. UNCHANGED <<about, applied, promoted, shadowed>>
      BY <2>1 DEF FindSend
    <3>7. QED
      BY <1>1, <1>2, <3>4, <3>5, <3>6, PutStops
  <2>2. ASSUME NEW w \in Worker, ReadOffenders(w) PROVE StopsAccounted'
    <3> DEFINE writes == <<Insert("all", "hard_bounce"), SetStatus("bounced"), Count("hardBounced")>>
               next == [Idle EXCEPT !.phase = "apply", !.todo = writes]
    <3>1. Len(writes) = 3 /\ BlocksAll(writes[1])
      BY DEF Insert, Write, BlocksAll, Final
    <3>2. writes[1].do # "count" /\ writes[2].do # "count"
      BY DEF Insert, SetStatus, Write
    <3>3. Put(w, next) /\ next.todo = writes
      BY <2>2 DEF ReadOffenders, Idle
    <3> HIDE DEF writes, next
    <3>4. \A i \in 1..Len(writes) : writes[i].do = "count" => i = Len(writes)
      BY <3>1, <3>2
    <3>5. \E i \in 1..Len(writes) : BlocksAll(writes[i])
      BY <3>1
    <3>6. StopsNext(next)
      BY <3>3, <3>4, <3>5 DEF StopsNext
    <3>7. UNCHANGED <<about, applied, promoted, shadowed>>
      BY <2>2 DEF ReadOffenders
    <3>8. QED
      BY <1>1, <1>2, <3>3, <3>6, <3>7, PutStops
  <2>3. ASSUME NEW w \in Worker, ReadBacklog(w) PROVE StopsAccounted'
    <3> DEFINE next == [Idle EXCEPT !.phase = "claim", !.batch = Waiting]
    <3>1. Put(w, next) /\ next.phase # "apply"
      BY <2>3 DEF ReadBacklog, Idle
    <3> HIDE DEF next
    <3>2. QED
      BY <1>3, <2>3, <3>1 DEF ReadBacklog
  <2>4. ASSUME NEW w \in Worker, Claim(w) PROVE StopsAccounted'
    <3>1. PICK e \in worker[w].batch :
            \/ Put(w, [worker[w] EXCEPT !.phase = "find", !.batch = @ \ {e}, !.event = {e}])
            \/ Put(w, [worker[w] EXCEPT !.batch = @ \ {e}])
      BY <2>4 DEF Claim
    <3> DEFINE one == [worker[w] EXCEPT !.phase = "find", !.batch = @ \ {e}, !.event = {e}]
               two == [worker[w] EXCEPT !.batch = @ \ {e}]
    <3>2. one.phase # "apply" /\ two.phase # "apply"
      BY <1>5, <2>4 DEF WorkerType, Claim
    <3>3. UNCHANGED <<about, applied, promoted, shadowed>>
      BY <2>4 DEF Claim
    <3> HIDE DEF one, two
    <3>4. Put(w, one) \/ Put(w, two)
      BY <3>1 DEF one, two
    <3>5. QED
      BY <1>3, <3>2, <3>3, <3>4
  <2>5. ASSUME NEW w \in Worker, EndPass(w) \/ ApplyThrows(w) \/ WorkerDies(w)
        PROVE  StopsAccounted'
    <3> DEFINE next == [Idle EXCEPT !.phase = "claim", !.batch = worker[w].batch]
    <3>1. Idle.phase # "apply" /\ next.phase # "apply"
      BY DEF Idle
    <3>2. Put(w, Idle) \/ Put(w, next)
      BY <2>5 DEF EndPass, ApplyThrows, WorkerDies
    <3>3. UNCHANGED <<about, applied, promoted, shadowed>>
      BY <2>5 DEF EndPass, ApplyThrows, WorkerDies
    <3> HIDE DEF next
    <3>4. CASE Put(w, Idle)
      BY <1>3, <3>1, <3>3, <3>4
    <3>5. CASE Put(w, next)
      BY <1>3, <3>1, <3>3, <3>5
    <3>6. QED
      BY <3>2, <3>4, <3>5
  <2>6. ASSUME NEW e \in Event, Ingest(e) PROVE StopsAccounted'
    <3>1. UNCHANGED <<about, applied, promoted, shadowed, worker>>
      BY <2>6 DEF Ingest
    <3>2. QED
      BY <1>1, <1>2, <3>1 DEF StopsAccounted, Stops
  <2>7. QED
    BY <1>6, <2>1, <2>2, <2>3, <2>4, <2>5, <2>6, WriteStops DEF EventsNext, Work
<1>7. QED
  BY <1>4, <1>6 DEF Next, vars

\* After a hard bounce, a complaint or a promotion was applied no mail of any
\* kind goes to the address, whatever calls, drains and failures there are; but
\* for one that had opted out of 'all'.  (webhook.ts applyWebhookEvent,
\* bounce-promotion.ts, unsubscribe.ts:24.)
THEOREM BouncesBlock == Spec => []FinalBlocks
<1>1. Init => StopsAccounted
  <2>1. SUFFICES ASSUME Init PROVE StopsAccounted
    OBVIOUS
  <2>2. applied = {} /\ promoted = 0 /\ \A w \in Worker : worker[w].phase # "apply"
    BY <2>1 DEF Init, EventsInit, Idle
  <2>3. QED
    BY <2>2 DEF StopsAccounted, FinalApplied
<1>2. TypeOK /\ LiftsAsked /\ NoLifts /\ HeldOnce /\ StopsAccounted /\ [Next]_vars
        => StopsAccounted'
  BY StopsKept
<1>3. TypeOK /\ HeldOnce /\ CountsAccounted /\ [Next]_vars => HeldOnce' /\ CountsAccounted'
  BY CountsKept
<1>4. StopsAccounted => FinalBlocks
  <2>1. Blocked => AllBlocked
    BY DEF Blocked, AllBlocked, IsSuppressed, BlockingScopes
  <2>2. QED
    BY <2>1 DEF StopsAccounted, FinalBlocks
<1>5. QED
  BY LiftsInvariant, InitCounts, <1>1, <1>2, <1>3, <1>4, PTL DEF Spec

-----------------------------------------------------------------------------
(* What was acknowledged.                                                  *)

\* The histories only grow, no file that is not doomed loses a line, and none
\* is doomed by the step.
LEMMA FilesKept ==
  ASSUME landed \subseteq landed', tardy \subseteq tardy',
         \A f \in File : file[f].place # "gone" /\ ~Doomed(f) =>
            file'[f].place # "gone" /\ file[f].lines \subseteq file'[f].lines,
         \A c \in Drainer : drain'[c].phase = "unlink" =>
            drain[c].phase = "unlink" /\ Head(drain'[c].claims) = Head(drain[c].claims),
         \A f \in File, c \in Drainer :
            file'[f].holder = c /\ drain'[c].phase = "unlink" => file[f].holder = c
  PROVE  \A e : Safe(e) => Safe(e)'
<1>1. \A f \in File : Doomed(f)' => Doomed(f)
  BY DEF Doomed
<1>2. QED
  BY <1>1 DEF Safe

\* The drainers but d have what they had; their claims gain late lines only.
LEMMA ClaimsFrame ==
  ASSUME JournalTypeOK, ClaimsAccounted, NEW d,
         landed \subseteq landed', tardy \subseteq tardy',
         \A e : Safe(e) => Safe(e)',
         \A c \in Drainer \ {d} : /\ drain'[c].phase = drain[c].phase
                                  /\ drain'[c].claims = drain[c].claims
                                  /\ drain'[c].batch = drain[c].batch,
         \A f \in File, c \in Drainer \ {d} : file'[f].holder = c =>
            /\ file[f].holder = c
            /\ IsRead(f) => file'[f].lines \subseteq file[f].lines \cup tardy',
         d \in Drainer => Accounted(d)'
  PROVE  ClaimsAccounted'
<1>1. ASSUME NEW c \in Drainer \ {d}, drain[c].phase \in Reading,
             file'[Head(drain[c].claims)].holder = c
      PROVE  /\ drain[c].phase \in {"apply", "return", "append"} =>
                  file'[Head(drain[c].claims)].lines \subseteq landed' \cup tardy' \cup drain[c].batch
             /\ drain[c].phase = "unlink" =>
                  \A e \in file'[Head(drain[c].claims)].lines : Safe(e)'
  <2> DEFINE f == Head(drain[c].claims)
  <2>1. f \in File
    <3>1. drain[c].claims \in Seq(File) /\ drain[c].claims # <<>>
      BY <1>1 DEF JournalTypeOK
    <3>2. QED
      BY <3>1
  <2>2. file[f].holder = c /\ Claimed(c)
    BY <1>1, <2>1 DEF Claimed
  <2>3. IsRead(f)
    BY <1>1, <2>1, <2>2 DEF IsRead
  <2>4. file'[f].lines \subseteq file[f].lines \cup tardy'
    BY <1>1, <2>1, <2>3
  <2>5. Accounted(c)
    BY DEF ClaimsAccounted
  <2>6. \A e \in tardy' : Safe(e)'
    BY DEF Safe
  <2> HIDE DEF f
  <2>7. QED
    BY <1>1, <2>2, <2>4, <2>5, <2>6 DEF Accounted, f
<1>2. \A c \in Drainer \ {d} : Accounted(c)'
  BY <1>1 DEF Accounted, Claimed
<1>3. QED
  BY <1>2 DEF ClaimsAccounted

\* The calls but r have what they had.
LEMMA CallsFrame ==
  ASSUME CallsAccounted, NEW r, landed \subseteq landed', UNCHANGED form,
         \A e : Safe(e) => Safe(e)',
         \A q \in Request \ {r} : http'[q] = http[q] /\ owed'[q] = owed[q] /\ todo'[q] = todo[q],
         r \in Request => CallAccounted(r)'
  PROVE  CallsAccounted'
<1>1. \A q : OptOuts(q)' = OptOuts(q)
  BY DEF OptOuts
<1>2. \A q \in Request \ {r} : CallAccounted(q)'
  BY <1>1 DEF CallsAccounted, CallAccounted
<1>3. QED
  BY <1>2 DEF CallsAccounted

\* A step that touches neither the files nor the drainers.
LEMMA Unfiled ==
  ASSUME JournalTypeOK, ClaimsAccounted, landed \subseteq landed', UNCHANGED <<file, drain, tardy>>
  PROVE  /\ \A e : Safe(e) => Safe(e)'
         /\ ClaimsAccounted'
<1>1. \A e : Safe(e) => Safe(e)'
  BY FilesKept
<1>2. Nobody \notin Drainer
  BY UnsubJournalAssumption
<1>3. QED
  BY <1>1, <1>2, ClaimsFrame

\* Opening a file loses nothing: the one it makes anew was gone.
LEMMA OpenSafe ==
  ASSUME FileOK, NEW a, NEW f \in File, Open(a, f),
         UNCHANGED <<landed, tardy>>,
         \A c \in Drainer : drain'[c].phase = "unlink" =>
            drain[c].phase = "unlink" /\ Head(drain'[c].claims) = Head(drain[c].claims)
  PROVE  /\ \A e : Safe(e) => Safe(e)'
         /\ \A g \in File, c \in Drainer : file'[g].holder = c => file'[g] = file[g]
<1>1. Nobody \notin Drainer /\ NoFile.holder = Nobody
  BY UnsubJournalAssumption DEF NoFile
<1>2. CASE UNCHANGED file
  BY <1>2, FilesKept
<1>3. CASE f \in Free /\ file' = [file EXCEPT ![f] = [NoFile EXCEPT !.place = "live"]]
  <2>1. /\ file'[f].holder = Nobody /\ file[f].place = "gone"
        /\ \A g \in File : g # f => file'[g] = file[g]
    BY <1>3 DEF NoFile, FileOK, Free
  <2>2. \A g \in File, c \in Drainer : file'[g].holder = c => file'[g] = file[g]
    BY <1>1, <2>1
  <2>3. \A g \in File : file[g].place # "gone" => file'[g] = file[g]
    BY <2>1
  <2>4. \A e : Safe(e) => Safe(e)'
    BY <2>2, <2>3, FilesKept
  <2>5. QED
    BY <2>2, <2>4
<1>4. QED
  BY <1>2, <1>3 DEF Open

\* What an append writes is late, or in a file that its holder has yet to read.
LEMMA AppendSafe ==
  ASSUME FileOK, NEW a \in Request \cup Drainer, fd[a] \in File, NEW entries, AppendLines(a, entries)
  PROVE  /\ tardy \subseteq tardy'
         /\ \A g \in File : /\ file'[g].place = file[g].place /\ file'[g].holder = file[g].holder
                            /\ file[g].lines \subseteq file'[g].lines
                            /\ IsRead(g) => file'[g].lines \subseteq file[g].lines \cup tardy'
                            /\ g # fd[a] => file'[g].lines = file[g].lines
         /\ file'[fd[a]].lines = file[fd[a]].lines \cup entries
         /\ IF IsRead(fd[a]) THEN entries \subseteq tardy' ELSE file[fd[a]].place # "gone"
<1>1. /\ file'[fd[a]] = [file[fd[a]] EXCEPT !.lines = @ \cup entries, !.old = FALSE]
      /\ \A g \in File : g # fd[a] => file'[g] = file[g]
      /\ tardy' = IF IsRead(fd[a]) THEN tardy \cup entries ELSE tardy
  BY DEF AppendLines, FileOK
<1>2. /\ file'[fd[a]].place = file[fd[a]].place /\ file'[fd[a]].holder = file[fd[a]].holder
      /\ file'[fd[a]].lines = file[fd[a]].lines \cup entries
  BY <1>1 DEF FileOK
<1>3. ~IsRead(fd[a]) => file[fd[a]].place # "gone"
  BY DEF IsRead
<1>4. QED
  BY <1>1, <1>2, <1>3

\* Steps of a call.
LEMMA CallKeeps ==
  ASSUME TypeOK, ClaimsAccounted, CallsAccounted, NEW r \in Request,
         Submit(r) \/ Call(r) \/ DbFails(r) \/ Timeout(r) \/ JournalFails(r) \/ CallDies(r)
  PROVE  ClaimsAccounted' /\ CallsAccounted'
<1> USE DEF TypeOK
<1>1. r \notin Drainer
  BY UnsubJournalAssumption
<1>2. /\ http \in [Request -> {"none", "waiting", "journal", "ok", "journaled", "failed", "dead"}]
      /\ owed \in [Request -> SUBSET Scope]
      /\ todo \in [Request \cup Drainer -> Seq(ContactWrite)]
  BY DEF JournalTypeOK
<1>3. UNCHANGED <<form, drain>> /\ landed \subseteq landed'
  BY DEF Submit, Call, DbWrite, Answer, JournalOpen, JournalWrite, Journaled, DbFails, Timeout,
         JournalFails, CallDies, journal
<1>4. \A q \in Request \ {r} : http'[q] = http[q] /\ owed'[q] = owed[q] /\ todo'[q] = todo[q]
  BY <1>2 DEF Submit, Call, DbWrite, Answer, JournalOpen, JournalWrite, Journaled, DbFails, Timeout,
              Journaling, JournalFails, CallDies, calls
<1>5. OptOuts(r)' = OptOuts(r)
  BY <1>3 DEF OptOuts
<1>6. CallAccounted(r)
  BY DEF CallsAccounted
<1>7. ASSUME UNCHANGED <<file, tardy>>, CallAccounted(r)' PROVE ClaimsAccounted' /\ CallsAccounted'
  <2>1. (\A e : Safe(e) => Safe(e)') /\ ClaimsAccounted'
    BY <1>3, <1>7, Unfiled
  <2>2. QED
    BY <1>3, <1>4, <1>7, <2>1, CallsFrame
<1>8. CASE Submit(r)
  <2>1. /\ UNCHANGED <<file, tardy>> /\ form[r].kind # "absent"
        /\ http'[r] = "waiting" /\ todo'[r] = Writes(r)
    BY <1>2, <1>8 DEF Submit, journal
  <2>2. \A s \in OptOuts(r) : \E i \in 1..Len(Writes(r)) : s \in Writes(r)[i].ends
    BY <2>1, CallWrites DEF JournalTypeOK
  <2>3. CallAccounted(r)'
    BY <1>5, <2>1, <2>2 DEF CallAccounted
  <2>4. QED
    BY <1>7, <2>1, <2>3
<1>9. CASE DbWrite(r)
  <2> DEFINE q == todo[r]
             rest == Tail(q)
  <2>1. /\ q \in Seq(ContactWrite) /\ q # <<>> /\ todo'[r] = rest
        /\ landed' = landed \cup Ends({r} \X OptOuts(r), Head(q))
        /\ UNCHANGED <<file, tardy, http, owed>>
    BY <1>2, <1>9 DEF DbWrite, calls, journal
  <2>2. Len(q) # 0
    BY <2>1, EmptyLen
  <2>3. /\ Head(q) = q[1]
        /\ \A i \in 1..Len(q) : i # 1 => i - 1 \in 1..Len(rest) /\ rest[i - 1] = q[i]
    BY <2>1, <2>2, Shift
  <2>4. \A s \in OptOuts(r) : s \in q[1].ends => <<r, s>> \in landed'
    BY <2>1, <2>3 DEF Ends
  <2>5. http[r] = "waiting" => \A s \in OptOuts(r) :
          <<r, s>> \in landed \/ \E i \in 1..Len(q) : s \in q[i].ends
    BY <1>6 DEF CallAccounted
  <2> HIDE DEF q, rest
  <2>6. http[r] = "waiting" => \A s \in OptOuts(r) :
          <<r, s>> \in landed' \/ \E i \in 1..Len(rest) : s \in rest[i].ends
    <3>1. ASSUME NEW s \in OptOuts(r), NEW i \in 1..Len(q), s \in q[i].ends
          PROVE  <<r, s>> \in landed' \/ \E j \in 1..Len(rest) : s \in rest[j].ends
      <4>1. CASE i = 1
        BY <2>4, <3>1, <4>1
      <4>2. CASE i # 1
        BY <2>3, <3>1, <4>2
      <4>3. QED
        BY <4>1, <4>2
    <3>2. QED
      BY <2>1, <2>5, <3>1
  <2>7. \A e : Safe(e) => Safe(e)'
    BY <1>3, <2>1, Unfiled
  <2>8. CallAccounted(r)'
    BY <1>3, <1>5, <1>6, <2>1, <2>6, <2>7 DEF CallAccounted
  <2>9. QED
    BY <1>7, <2>1, <2>8
<1>10. CASE Answer(r)
  <2>1. /\ UNCHANGED <<file, tardy, landed>>
        /\ http[r] = "waiting" /\ todo[r] = <<>> /\ http'[r] = "ok"
    BY <1>2, <1>10 DEF Answer, journal
  <2>2. Len(<<>>) = 0
    OBVIOUS
  <2>3. \A s \in OptOuts(r) : <<r, s>> \in landed
    BY <1>6, <2>1, <2>2 DEF CallAccounted
  <2>4. CallAccounted(r)'
    BY <1>5, <2>1, <2>3 DEF CallAccounted
  <2>5. QED
    BY <1>7, <2>1, <2>4
<1>11. CASE DbFails(r) \/ Timeout(r)
  <2>1. /\ UNCHANGED <<file, tardy, landed>>
        /\ IF http[r] = "waiting" THEN Journaling(r) ELSE UNCHANGED calls
    BY <1>11 DEF DbFails, Timeout, journal
  <2>2. CASE http[r] = "waiting"
    <3>1. \/ http'[r] = "journal" /\ owed'[r] = OptOuts(r)
          \/ http'[r] = "failed"
      BY <1>2, <2>1, <2>2 DEF Journaling
    <3>2. CallAccounted(r)'
      BY <1>5, <3>1 DEF CallAccounted
    <3>3. QED
      BY <1>7, <2>1, <3>2
  <2>3. CASE http[r] # "waiting"
    <3>1. UNCHANGED <<http, owed>>
      BY <2>1, <2>3 DEF calls
    <3>2. \A e : Safe(e) => Safe(e)'
      BY <1>3, <2>1, Unfiled
    <3>3. CallAccounted(r)'
      BY <1>5, <1>6, <2>1, <2>3, <3>1, <3>2 DEF CallAccounted
    <3>4. QED
      BY <1>7, <2>1, <3>3
  <2>4. QED
    BY <2>2, <2>3
<1>12. CASE Journaled(r)
  <2>1. /\ UNCHANGED <<file, tardy, landed, owed>>
        /\ http[r] = "journal" /\ owed[r] = {} /\ http'[r] \in {"journaled", "failed"}
    BY <1>2, <1>12 DEF Journaled, journal
  <2>2. \A e : Safe(e) => Safe(e)'
    BY <1>3, <2>1, Unfiled
  <2>3. CallAccounted(r)'
    BY <1>5, <1>6, <2>1, <2>2 DEF CallAccounted
  <2>4. QED
    BY <1>7, <2>1, <2>3
<1>13. CASE JournalFails(r) \/ CallDies(r)
  <2>1. /\ UNCHANGED <<file, tardy, landed, owed>>
        /\ \/ http'[r] \in {"failed", "dead"}
           \/ http'[r] = http[r] /\ http[r] # "waiting"
    BY <1>2, <1>13 DEF JournalFails, CallDies
  <2>2. \A e : Safe(e) => Safe(e)'
    BY <1>3, <2>1, Unfiled
  <2>3. CallAccounted(r)'
    BY <1>5, <1>6, <2>1, <2>2 DEF CallAccounted
  <2>4. QED
    BY <1>7, <2>1, <2>3
<1>14. CASE JournalOpen(r)
  <2>1. PICK f \in File : Open(r, f)
    BY <1>14 DEF JournalOpen
  <2>2. UNCHANGED <<landed, tardy, http, owed, todo>>
    BY <1>14 DEF JournalOpen, calls
  <2>3. /\ \A e : Safe(e) => Safe(e)'
        /\ \A g \in File, c \in Drainer : file'[g].holder = c => file'[g] = file[g]
    BY <1>3, <2>1, <2>2, OpenSafe DEF FileOK, JournalTypeOK
  <2>4. ClaimsAccounted'
    BY <1>1, <1>3, <2>2, <2>3, ClaimsFrame
  <2>5. CallAccounted(r)'
    BY <1>5, <1>6, <2>2, <2>3 DEF CallAccounted
  <2>6. QED
    BY <1>3, <1>4, <2>3, <2>4, <2>5, CallsFrame
<1>15. CASE JournalWrite(r)
  <2>1. PICK s \in owed[r] : /\ AppendLines(r, {<<r, s>>})
                             /\ owed' = [owed EXCEPT ![r] = @ \ {s}]
    BY <1>15 DEF JournalWrite
  <2>2. UNCHANGED <<landed, http, todo>> /\ http[r] = "journal" /\ fd[r] \in File
    BY <1>15 DEF JournalWrite, JournalTypeOK
  <2>. PICK f \in File : f = fd[r]
    BY <2>2
  <2>3. /\ tardy \subseteq tardy'
        /\ \A g \in File : /\ file'[g].place = file[g].place /\ file'[g].holder = file[g].holder
                           /\ file[g].lines \subseteq file'[g].lines
                           /\ IsRead(g) => file'[g].lines \subseteq file[g].lines \cup tardy'
        /\ file'[f].lines = file[f].lines \cup {<<r, s>>}
        /\ IF IsRead(f) THEN {<<r, s>>} \subseteq tardy' ELSE file[f].place # "gone"
    BY <2>1, <2>2, AppendSafe DEF FileOK, JournalTypeOK
  <2>4. \A e : Safe(e) => Safe(e)'
    BY <1>3, <2>2, <2>3, FilesKept
  <2>5. ClaimsAccounted'
    BY <1>1, <1>3, <2>2, <2>3, <2>4, ClaimsFrame
  <2>6. Safe(<<r, s>>)'
    <3>1. CASE IsRead(f)
      BY <2>3, <3>1 DEF Safe
    <3>2. CASE ~IsRead(f)
      <4>1. ~Doomed(f)'
        BY <1>3, <2>2, <2>3, <3>2 DEF Doomed, IsRead, Reading
      <4>2. file'[f].place # "gone" /\ <<r, s>> \in file'[f].lines
        BY <2>2, <2>3, <3>2
      <4>3. QED
        BY <2>2, <4>1, <4>2 DEF Safe
    <3>3. QED
      BY <3>1, <3>2
  <2>7. owed'[r] = owed[r] \ {s}
    BY <1>2, <2>1
  <2>8. CallAccounted(r)'
    BY <1>5, <1>6, <2>2, <2>4, <2>6, <2>7 DEF CallAccounted
  <2>9. QED
    BY <1>3, <1>4, <2>4, <2>5, <2>8, CallsFrame
<1>16. QED
  BY <1>8, <1>9, <1>10, <1>11, <1>12, <1>13, <1>14, <1>15 DEF Call

\* Steps of the drain.
LEMMA StepFields ==
  ASSUME drain \in [Drainer -> DrainType], NEW d \in Drainer, NEW next, Step(d, next)
  PROVE  drain'[d] = next /\ \A c \in Drainer \ {d} : drain'[c] = drain[c]
BY DEF Step

\* A drainer goes on, and the files are as they were.
LEMMA DrainFrame ==
  ASSUME JournalTypeOK, ClaimsAccounted, NEW d \in Drainer, NEW next, Step(d, next),
         landed \subseteq landed', UNCHANGED <<file, tardy>>,
         next.phase = "unlink" => drain[d].phase = "unlink" /\ next.claims = drain[d].claims,
         next.phase \in {"apply", "return", "append"} /\ file[Head(next.claims)].holder = d =>
           file[Head(next.claims)].lines \subseteq landed' \cup tardy \cup next.batch
  PROVE  /\ \A e : Safe(e) => Safe(e)'
         /\ ClaimsAccounted'
<1>1. drain'[d] = next /\ \A c \in Drainer \ {d} : drain'[c] = drain[c]
  BY StepFields DEF JournalTypeOK, DrainType
<1>2. \A e : Safe(e) => Safe(e)'
  BY <1>1, FilesKept
<1>3. Accounted(d)'
  <2>1. CASE next.phase = "unlink"
    <3>1. Accounted(d) /\ drain[d].phase = "unlink" /\ next.claims = drain[d].claims
      BY <2>1 DEF ClaimsAccounted
    <3>2. QED
      BY <1>1, <1>2, <2>1, <3>1 DEF Accounted, Claimed
  <2>2. CASE next.phase # "unlink"
    BY <1>1, <2>2 DEF Accounted, Claimed, Reading
  <2>3. QED
    BY <2>1, <2>2
<1>4. QED
  BY <1>1, <1>2, <1>3, ClaimsFrame

\* What is applied leaves the batch with its last write, which lands it.
LEMMA EntryKeeps ==
  ASSUME TypeOK, ClaimsAccounted, NEW d \in Drainer, ApplyEntry(d)
  PROVE  /\ \A e : Safe(e) => Safe(e)'
         /\ ClaimsAccounted'
<1> USE DEF TypeOK
<1>1. PICK e \in drain[d].batch :
        LET ops == IF todo[d] = <<>> THEN OptOut(e[2]) ELSE todo[d] IN
        /\ todo[d] # <<>> => e[2] \in Last(ops).ends
        /\ landed' = landed \cup Ends({e}, Head(ops))
        /\ IF Len(ops) > 1
           THEN UNCHANGED drain
           ELSE Step(d, [drain[d] EXCEPT !.batch = @ \ {e}, !.left = @ - 1])
  BY DEF ApplyEntry
<1> DEFINE ops == IF todo[d] = <<>> THEN OptOut(e[2]) ELSE todo[d]
           next == [drain[d] EXCEPT !.batch = @ \ {e}, !.left = @ - 1]
<1>2. UNCHANGED <<file, tardy>> /\ drain[d].phase = "apply" /\ landed \subseteq landed'
  BY DEF ApplyEntry
<1>3. drain \in [Drainer -> DrainType]
  BY DEF JournalTypeOK, DrainType
<1>4. /\ next.phase = drain[d].phase /\ next.claims = drain[d].claims
      /\ next.batch = drain[d].batch \ {e}
  BY <1>3 DEF DrainType
<1>5. file[Head(drain[d].claims)].holder = d =>
        file[Head(drain[d].claims)].lines \subseteq landed \cup tardy \cup drain[d].batch
  BY <1>2 DEF ClaimsAccounted, Accounted, Claimed, Reading
<1>6. CASE Len(ops) > 1
  <2>1. UNCHANGED drain
    BY <1>1, <1>6
  <2>2. QED
    BY <1>2, <2>1, Unfiled
<1>7. CASE ~(Len(ops) > 1)
  <2>1. e[2] \in Scope
    BY <1>3 DEF DrainType, Entry
  <2>2. /\ OptOut(e[2]) \in Seq(ContactWrite) /\ OptOut(e[2]) # <<>>
        /\ e[2] \in OptOut(e[2])[Len(OptOut(e[2]))].ends
    BY <2>1, OptOutWrites
  <2>3. ops \in Seq(ContactWrite) /\ ops # <<>> /\ e[2] \in ops[Len(ops)].ends
    BY <1>1, <2>2 DEF JournalTypeOK, Last
  <2> HIDE DEF ops
  <2>4. Len(ops) # 0
    BY <2>3, EmptyLen
  <2>5. Len(ops) = 1 /\ Head(ops) = ops[1]
    BY <1>7, <2>3, <2>4, Shift
  <2>6. landed' = landed \cup Ends({e}, Head(ops))
    BY <1>1 DEF ops
  <2>7. e \in landed'
    BY <2>3, <2>5, <2>6 DEF Ends
  <2>8. Step(d, next)
    BY <1>1, <1>7 DEF ops
  <2> HIDE DEF next
  <2>9. QED
    BY <1>2, <1>4, <1>5, <2>7, <2>8, DrainFrame
<1>8. QED
  BY <1>6, <1>7

\* A drainer that finds its batch done leaves nothing but landed and late lines.
LEMMA DoneKeeps ==
  ASSUME TypeOK, ClaimsAccounted, NEW d \in Drainer, ApplyDone(d)
  PROVE  /\ \A e : Safe(e) => Safe(e)'
         /\ ClaimsAccounted'
<1> USE DEF TypeOK
<1> DEFINE next == [drain[d] EXCEPT !.phase = IF drain[d].batch = {} THEN "unlink" ELSE "return"]
           f == Head(drain[d].claims)
<1>1. UNCHANGED <<file, tardy, landed>> /\ drain[d].phase = "apply" /\ Step(d, next)
  BY DEF ApplyDone, Phase
<1>2. drain \in [Drainer -> DrainType]
  BY DEF JournalTypeOK, DrainType
<1>3. /\ next.phase = IF drain[d].batch = {} THEN "unlink" ELSE "return"
      /\ next.claims = drain[d].claims /\ next.batch = drain[d].batch
  BY <1>2 DEF DrainType
<1>4. file[f].holder = d => file[f].lines \subseteq landed \cup tardy \cup drain[d].batch
  BY <1>1 DEF ClaimsAccounted, Accounted, Claimed, Reading
<1> HIDE DEF next
<1>5. CASE drain[d].batch # {}
  BY <1>1, <1>3, <1>4, <1>5, DrainFrame
<1>6. CASE drain[d].batch = {}
  <2>1. drain'[d] = next /\ \A c \in Drainer \ {d} : drain'[c] = drain[c]
    BY <1>1, <1>2, StepFields
  <2>2. ASSUME NEW g \in File, ~Doomed(g), Doomed(g)' PROVE g = f /\ file[f].holder = d
    BY <1>1, <1>3, <2>1, <2>2 DEF Doomed
  <2>3. \A e : Safe(e) => Safe(e)'
    BY <1>1, <1>4, <1>6, <2>2 DEF Safe
  <2>4. Accounted(d)'
    <3>1. \A e \in landed \cup tardy : Safe(e)'
      BY <1>1 DEF Safe
    <3>2. QED
      BY <1>1, <1>3, <1>4, <1>6, <2>1, <3>1 DEF Accounted, Claimed
  <2>5. QED
    BY <1>1, <2>1, <2>3, <2>4, ClaimsFrame
<1>7. QED
  BY <1>5, <1>6

\* What a drainer returns is late, or in a file that no holder has read; its
\* claim, which it unlinks next, holds nothing else that is not landed.
LEMMA ReturnKeeps ==
  ASSUME TypeOK, ClaimsAccounted, NEW d \in Drainer, ReleaseWrite(d)
  PROVE  /\ \A e : Safe(e) => Safe(e)'
         /\ ClaimsAccounted'
<1> USE DEF TypeOK
<1> DEFINE next == [drain[d] EXCEPT !.phase = "unlink", !.batch = {}]
<1>1. /\ AppendLines(d, drain[d].batch) /\ Step(d, next) /\ UNCHANGED landed
      /\ drain[d].phase = "append" /\ fd[d] \in File
  BY DEF ReleaseWrite, JournalTypeOK
<1>2. drain \in [Drainer -> DrainType]
  BY DEF JournalTypeOK, DrainType
<1>3. next.phase = "unlink" /\ next.claims = drain[d].claims
  BY <1>2 DEF DrainType
<1> HIDE DEF next
<1>4. drain'[d] = next /\ \A c \in Drainer \ {d} : drain'[c] = drain[c]
  BY <1>1, <1>2, StepFields
<1>5. PICK f \in File : f = Head(drain[d].claims)
  <2>1. drain[d].claims \in Seq(File) /\ drain[d].claims # <<>>
    BY <1>1, <1>2 DEF JournalTypeOK, DrainType, Reading
  <2>2. QED
    BY <2>1
<1>6. PICK g \in File : g = fd[d]
  BY <1>1
<1>7. PICK b : b = drain[d].batch
  OBVIOUS
<1>8. /\ tardy \subseteq tardy'
      /\ \A h \in File : /\ file'[h].place = file[h].place /\ file'[h].holder = file[h].holder
                         /\ file[h].lines \subseteq file'[h].lines
                         /\ IsRead(h) => file'[h].lines \subseteq file[h].lines \cup tardy'
                         /\ h # g => file'[h].lines = file[h].lines
      /\ file'[g].lines = file[g].lines \cup b
      /\ IF IsRead(g) THEN b \subseteq tardy' ELSE file[g].place # "gone"
  BY <1>1, <1>6, <1>7, AppendSafe DEF FileOK, JournalTypeOK
<1>9. file[f].holder = d => file[f].lines \subseteq landed \cup tardy \cup b
  BY <1>1, <1>5, <1>7 DEF ClaimsAccounted, Accounted, Claimed, Reading
<1>10. file[f].holder = d => IsRead(f)
  BY <1>1, <1>5 DEF IsRead, Reading
<1>11. \A e \in landed \cup tardy' : Safe(e)'
  BY <1>1 DEF Safe
<1>12. \A e \in b : Safe(e)'
  <2>1. CASE IsRead(g)
    BY <1>8, <1>11, <2>1
  <2>2. CASE ~IsRead(g)
    <3>1. ~Doomed(g)'
      BY <1>1, <1>3, <1>4, <1>8, <2>2 DEF Doomed, IsRead, Reading
    <3>2. file'[g].place # "gone" /\ b \subseteq file'[g].lines
      BY <1>8, <2>2
    <3>3. QED
      BY <3>1, <3>2 DEF Safe
  <2>3. QED
    BY <2>1, <2>2
<1>13. file[f].holder = d => \A e \in file'[f].lines : Safe(e)'
  BY <1>8, <1>9, <1>10, <1>11, <1>12
<1>14. \A e : Safe(e) => Safe(e)'
  <2>1. ASSUME NEW h \in File, ~Doomed(h), Doomed(h)' PROVE h = f /\ file[f].holder = d
    BY <1>3, <1>4, <1>5, <1>8, <2>1 DEF Doomed
  <2>2. ASSUME NEW h \in File, file[h].place # "gone", ~Doomed(h), NEW e \in file[h].lines
        PROVE  Safe(e)'
    <3>1. CASE Doomed(h)'
      BY <1>8, <1>13, <2>1, <2>2, <3>1
    <3>2. CASE ~Doomed(h)'
      BY <1>8, <2>2, <3>2 DEF Safe
    <3>3. QED
      BY <3>1, <3>2
  <2>3. QED
    BY <1>1, <1>8, <1>11, <2>2 DEF Safe
<1>15. Accounted(d)'
  BY <1>3, <1>4, <1>5, <1>8, <1>13 DEF Accounted, Claimed
<1>16. QED
  BY <1>1, <1>4, <1>8, <1>14, <1>15, ClaimsFrame

\* Only a doomed claim is unlinked, and only by the one that holds it.
LEMMA UnlinkKeeps ==
  ASSUME TypeOK, ClaimsAccounted, NEW d \in Drainer, Unlink(d)
  PROVE  /\ \A e : Safe(e) => Safe(e)'
         /\ ClaimsAccounted'
<1> USE DEF TypeOK
<1> DEFINE done == [drain EXCEPT ![d].phase = "next", ![d].claims = Tail(@)]
<1>1. UNCHANGED <<landed, tardy>> /\ drain[d].phase = "unlink"
  BY DEF Unlink
<1>2. drain \in [Drainer -> DrainType]
  BY DEF JournalTypeOK, DrainType
<1>3. PICK f \in File : f = Head(drain[d].claims)
  <2>1. drain[d].claims \in Seq(File) /\ drain[d].claims # <<>>
    BY <1>1, <1>2 DEF JournalTypeOK, DrainType, Reading
  <2>2. QED
    BY <2>1
<1>4. /\ done \in [Drainer -> DrainType]
      /\ done[d].phase = "next" /\ \A c \in Drainer \ {d} : done[c] = drain[c]
  <2>1. drain[d].claims \in Seq(File) /\ drain[d].claims # <<>>
    BY <1>1, <1>2 DEF JournalTypeOK, DrainType, Reading
  <2>2. Tail(drain[d].claims) \in Seq(File)
    BY <2>1
  <2>3. QED
    BY <1>2, <2>2 DEF DrainType
<1>5. \/ file[f].holder = d /\ file' = [file EXCEPT ![f] = NoFile] /\ drain' = Gone(done, f)
      \/ UNCHANGED file /\ drain' = done
  BY <1>3 DEF Unlink, Claimed
<1> HIDE DEF done
<1>6. /\ drain'[d].phase = "next"
      /\ \A c \in Drainer \ {d} : /\ drain'[c].phase = drain[c].phase
                                  /\ drain'[c].claims = drain[c].claims
                                  /\ drain'[c].batch = drain[c].batch
  BY <1>4, <1>5, GoneStep
<1>7. NoFile.holder = Nobody /\ Nobody \notin Drainer
  BY UnsubJournalAssumption DEF NoFile
<1>8. /\ \A g \in File : file[g].place # "gone" /\ ~Doomed(g) => file'[g] = file[g]
      /\ \A g \in File, c \in Drainer : file'[g].holder = c => file'[g] = file[g]
  <2>1. CASE UNCHANGED file
    BY <2>1
  <2>2. CASE file[f].holder = d /\ file' = [file EXCEPT ![f] = NoFile]
    <3>1. Doomed(f)
      BY <1>1, <1>3, <2>2 DEF Doomed
    <3>2. file'[f] = NoFile /\ \A g \in File : g # f => file'[g] = file[g]
      BY <2>2 DEF JournalTypeOK
    <3>3. QED
      BY <1>7, <3>1, <3>2
  <2>3. QED
    BY <1>5, <2>1, <2>2
<1>9. \A c \in Drainer : drain'[c].phase = "unlink" => c # d
  BY <1>6
<1>10. \A e : Safe(e) => Safe(e)'
  BY <1>1, <1>6, <1>8, <1>9, FilesKept
<1>11. Accounted(d)'
  BY <1>6 DEF Accounted, Reading
<1>12. QED
  BY <1>1, <1>6, <1>8, <1>10, <1>11, ClaimsFrame

LEMMA PassKeeps ==
  ASSUME TypeOK, ClaimsAccounted, NEW d \in Drainer, Pass(d) \/ ApplyFails(d) \/ DrainDies(d)
  PROVE  /\ \A e : Safe(e) => Safe(e)'
         /\ ClaimsAccounted'
<1>1. CASE ApplyEntry(d)
  BY <1>1, EntryKeeps
<1>2. CASE ApplyDone(d)
  BY <1>2, DoneKeeps
<1>3. CASE ReleaseWrite(d)
  BY <1>3, ReturnKeeps
<1>4. CASE Unlink(d)
  BY <1>4, UnlinkKeeps
<1> USE DEF TypeOK
<1>5. drain \in [Drainer -> DrainType]
  BY DEF JournalTypeOK, DrainType
<1>6. CASE StartPass(d)
  <2> DEFINE next == [NoPass EXCEPT !.phase = "adopt", !.left = PerPass,
                                    !.listing = {f \in File : file[f].place = "claim"}]
  <2>1. Step(d, next) /\ UNCHANGED <<file, tardy, landed>> /\ next.phase = "adopt"
    BY <1>6 DEF StartPass, NoPass
  <2> HIDE DEF next
  <2>2. QED
    BY <2>1, DrainFrame
<1>7. CASE ReadClaim(d)
  <2> DEFINE read == IF Claimed(d) THEN file[Head(drain[d].claims)].lines ELSE {}
             next == IF drain[d].claims = <<>> THEN NoPass
                     ELSE [drain[d] EXCEPT !.phase = "apply", !.batch = read]
  <2>1. Step(d, next) /\ UNCHANGED <<file, tardy, landed>>
    BY <1>7 DEF ReadClaim
  <2>2. /\ next.phase \notin {"return", "append", "unlink"}
        /\ next.phase = "apply" => next.claims = drain[d].claims /\ next.batch = read
    BY <1>5 DEF DrainType, NoPass
  <2> HIDE DEF next
  <2>3. next.phase = "apply" /\ file[Head(next.claims)].holder = d =>
          file[Head(next.claims)].lines \subseteq next.batch
    BY <2>2 DEF Claimed
  <2>4. QED
    BY <2>1, <2>2, <2>3, DrainFrame
<1>8. CASE ApplyFails(d)
  <2> DEFINE next == [drain[d] EXCEPT !.phase = "return"]
  <2>1. Step(d, next) /\ UNCHANGED <<file, tardy, landed>> /\ drain[d].phase = "apply"
    BY <1>8 DEF ApplyFails, Phase
  <2>2. next.phase = "return" /\ next.claims = drain[d].claims /\ next.batch = drain[d].batch
    BY <1>5 DEF DrainType
  <2>3. file[Head(drain[d].claims)].holder = d =>
          file[Head(drain[d].claims)].lines \subseteq landed \cup tardy \cup drain[d].batch
    BY <2>1 DEF ClaimsAccounted, Accounted, Claimed, Reading
  <2> HIDE DEF next
  <2>4. QED
    BY <2>1, <2>2, <2>3, DrainFrame
<1>9. CASE ReleaseOpen(d)
  <2> DEFINE next == [drain[d] EXCEPT !.phase = "append"]
  <2>1. PICK f \in File : Open(d, f)
    BY <1>9 DEF ReleaseOpen
  <2>2. Step(d, next) /\ UNCHANGED <<tardy, landed>> /\ drain[d].phase = "return"
    BY <1>9 DEF ReleaseOpen, Phase
  <2>3. next.phase = "append" /\ next.claims = drain[d].claims /\ next.batch = drain[d].batch
    BY <1>5 DEF DrainType
  <2> HIDE DEF next
  <2>4. drain'[d] = next /\ \A c \in Drainer \ {d} : drain'[c] = drain[c]
    BY <1>5, <2>2, StepFields
  <2>5. /\ \A e : Safe(e) => Safe(e)'
        /\ \A g \in File, c \in Drainer : file'[g].holder = c => file'[g] = file[g]
    BY <2>1, <2>2, <2>3, <2>4, OpenSafe DEF FileOK, JournalTypeOK
  <2>6. PICK g \in File : g = Head(drain[d].claims)
    <3>1. drain[d].claims \in Seq(File) /\ drain[d].claims # <<>>
      BY <1>5, <2>2 DEF JournalTypeOK, DrainType, Reading
    <3>2. QED
      BY <3>1
  <2>7. file[g].holder = d => file[g].lines \subseteq landed \cup tardy \cup drain[d].batch
    BY <2>2, <2>6 DEF ClaimsAccounted, Accounted, Claimed, Reading
  <2>8. Accounted(d)'
    BY <2>2, <2>3, <2>4, <2>5, <2>6, <2>7 DEF Accounted, Claimed
  <2>9. QED
    BY <2>2, <2>4, <2>5, <2>8, ClaimsFrame
<1>10. CASE Adopt(d)
  <2>1. PICK f \in drain[d].listing :
          /\ file' = [file EXCEPT ![f].holder = d, ![f].old = FALSE]
          /\ drain' = Gone([drain EXCEPT ![d].claims = @ \o <<f>>], f)
    BY <1>10 DEF Adopt
  <2>2. UNCHANGED <<tardy, landed>> /\ drain[d].phase = "adopt" /\ f \in File
    BY <1>5, <1>10 DEF Adopt, DrainType
  <2> DEFINE more == [drain EXCEPT ![d].claims = @ \o <<f>>]
  <2>3. /\ more \in [Drainer -> DrainType] /\ more[d].phase = "adopt"
        /\ \A c \in Drainer \ {d} : more[c] = drain[c]
    <3>1. drain[d].claims \o <<f>> \in Seq(File)
      BY <1>5, <2>2 DEF DrainType
    <3>2. QED
      BY <1>5, <2>2, <3>1 DEF DrainType
  <2>4. drain' = Gone(more, f)
    BY <2>1
  <2> HIDE DEF more
  <2>5. /\ drain'[d].phase = "adopt"
        /\ \A c \in Drainer \ {d} : /\ drain'[c].phase = drain[c].phase
                                    /\ drain'[c].claims = drain[c].claims
                                    /\ drain'[c].batch = drain[c].batch
    BY <2>3, <2>4, GoneStep
  <2>6. \A g \in File : /\ file'[g].place = file[g].place /\ file'[g].lines = file[g].lines
                        /\ file'[g].holder \in {file[g].holder, d}
    <3>1. /\ file'[f] = [file[f] EXCEPT !.holder = d, !.old = FALSE]
          /\ \A g \in File : g # f => file'[g] = file[g]
      BY <2>1, <2>2 DEF JournalTypeOK
    <3>2. file[f] \in [place : {"gone", "live", "claim"}, lines : SUBSET Entry, old : BOOLEAN,
                       holder : Drainer \cup {Nobody}]
      BY <2>2 DEF JournalTypeOK
    <3>3. /\ file'[f].place = file[f].place /\ file'[f].lines = file[f].lines
          /\ file'[f].holder = d
      BY <3>1, <3>2
    <3>4. QED
      BY <3>1, <3>3
  <2>7. \A c \in Drainer : drain'[c].phase = "unlink" => c # d
    BY <2>5
  <2>8. \A e : Safe(e) => Safe(e)'
    BY <2>2, <2>5, <2>6, <2>7, FilesKept
  <2>9. Accounted(d)'
    BY <2>5 DEF Accounted, Reading
  <2>10. QED
    BY <2>2, <2>5, <2>6, <2>8, <2>9, ClaimsFrame
<1>11. CASE ClaimJournal(d)
  <2>1. /\ UNCHANGED <<tardy, landed>>
        /\ \A g \in File : /\ file[g].place # "gone" => file'[g].place # "gone"
                           /\ file'[g].lines = file[g].lines
                           /\ file'[g].holder \in {file[g].holder, d}
    <3>1. CASE Live = {}
      BY <1>11, <3>1 DEF ClaimJournal
    <3>2. CASE Live # {}
      <4>1. PICK f \in Live : file' = [file EXCEPT ![f].place = "claim", ![f].holder = d]
        BY <1>11, <3>2 DEF ClaimJournal
      <4>2. f \in File
        BY DEF Live
      <4>3. /\ file'[f] = [file[f] EXCEPT !.place = "claim", !.holder = d]
            /\ \A g \in File : g # f => file'[g] = file[g]
        BY <4>1, <4>2 DEF JournalTypeOK
      <4>4. file'[f].place = "claim" /\ file'[f].lines = file[f].lines /\ file'[f].holder = d
        BY <4>2, <4>3 DEF JournalTypeOK
      <4>5. QED
        BY <1>11, <4>3, <4>4 DEF ClaimJournal
    <3>3. QED
      BY <3>1, <3>2
  <2>2. \E next : Step(d, next) /\ next.phase = "next"
    <3> DEFINE one == [drain[d] EXCEPT !.phase = "next", !.listing = {}]
    <3>1. one.phase = "next"
      BY <1>5 DEF DrainType
    <3>2. \A f : [drain[d] EXCEPT !.phase = "next", !.listing = {}, !.claims = @ \o <<f>>].phase
                   = "next"
      BY <1>5 DEF DrainType
    <3>3. \/ Step(d, one)
          \/ \E f : Step(d, [drain[d] EXCEPT !.phase = "next", !.listing = {},
                                             !.claims = @ \o <<f>>])
      BY <1>11 DEF ClaimJournal
    <3> HIDE DEF one
    <3>4. QED
      BY <3>1, <3>2, <3>3
  <2>3. PICK next : Step(d, next) /\ next.phase = "next"
    BY <2>2
  <2>4. drain'[d] = next /\ \A c \in Drainer \ {d} : drain'[c] = drain[c]
    BY <1>5, <2>3, StepFields
  <2>5. \A e : Safe(e) => Safe(e)'
    BY <2>1, <2>3, <2>4, FilesKept
  <2>6. Accounted(d)'
    BY <2>3, <2>4 DEF Accounted, Reading
  <2>7. QED
    BY <2>1, <2>4, <2>5, <2>6, ClaimsFrame
<1>12. CASE DrainDies(d)
  <2>1. Step(d, NoPass) /\ UNCHANGED <<landed, tardy>> /\ NoPass.phase = "idle"
    BY <1>12 DEF DrainDies, GiveUp, Step, NoPass
  <2>2. drain'[d] = NoPass /\ \A c \in Drainer \ {d} : drain'[c] = drain[c]
    BY <1>5, <2>1, StepFields
  <2>3. \A g \in File : /\ file'[g].place = file[g].place /\ file'[g].lines = file[g].lines
                        /\ file'[g].holder \in {file[g].holder, Nobody}
    <3>1. SUFFICES ASSUME NEW g \in File
                   PROVE  /\ file'[g].place = file[g].place /\ file'[g].lines = file[g].lines
                          /\ file'[g].holder \in {file[g].holder, Nobody}
      OBVIOUS
    <3>2. file'[g] \in {file[g], [file[g] EXCEPT !.holder = Nobody]}
      BY <1>12 DEF DrainDies, GiveUp
    <3>3. QED
      BY <3>2 DEF JournalTypeOK
  <2>4. Nobody \notin Drainer
    BY UnsubJournalAssumption
  <2>5. \A e : Safe(e) => Safe(e)'
    BY <2>1, <2>2, <2>3, <2>4, FilesKept
  <2>6. Accounted(d)'
    BY <2>1, <2>2 DEF Accounted, Reading
  <2>7. QED
    BY <2>1, <2>2, <2>3, <2>4, <2>5, <2>6, ClaimsFrame
<1>13. QED
  BY <1>1, <1>2, <1>3, <1>4, <1>6, <1>7, <1>8, <1>9, <1>10, <1>11, <1>12 DEF Pass

LEMMA OptOutsKept ==
  ASSUME TypeOK, ClaimsAccounted, CallsAccounted, [Next]_vars
  PROVE  ClaimsAccounted' /\ CallsAccounted'
<1>0. ASSUME UNCHANGED <<form, http, owed, todo, landed>>, \A e : Safe(e) => Safe(e)'
      PROVE  CallsAccounted'
  <2>1. \A r : OptOuts(r)' = OptOuts(r)
    BY <1>0 DEF OptOuts
  <2>2. QED
    BY <1>0, <2>1 DEF CallsAccounted, CallAccounted
<1>1. ASSUME UNCHANGED <<form, http, owed, todo, landed, file, drain, tardy>>
      PROVE  ClaimsAccounted' /\ CallsAccounted'
  <2>1. (\A e : Safe(e) => Safe(e)') /\ ClaimsAccounted'
    BY <1>1, Unfiled DEF TypeOK
  <2>2. QED
    BY <1>0, <1>1, <2>1
<1>2. ASSUME NEW d \in Drainer, Pass(d) \/ ApplyFails(d) \/ DrainDies(d)
      PROVE  ClaimsAccounted' /\ CallsAccounted'
  <2>1. (\A e : Safe(e) => Safe(e)') /\ ClaimsAccounted'
    BY <1>2, PassKeeps
  <2>2. d \notin Request
    BY UnsubJournalAssumption
  <2>3. /\ UNCHANGED <<form, http, owed>> /\ landed \subseteq landed'
        /\ \A r \in Request : todo'[r] = todo[r]
    BY <1>2, <2>2 DEF Pass, StartPass, Adopt, ClaimJournal, ReadClaim, ApplyEntry, ApplyDone,
         ReleaseOpen, ReleaseWrite, Unlink, ApplyFails, DrainDies, GiveUp, calls, TypeOK, JournalTypeOK
  <2>4. QED
    BY <2>1, <2>2, <2>3, CallsFrame
<1>3. ASSUME NEW f \in File, Age(f) PROVE ClaimsAccounted' /\ CallsAccounted'
  <2>1. UNCHANGED <<form, http, owed, todo, landed, drain, tardy>>
    BY <1>3 DEF Age, calls
  <2>2. \A g \in File : /\ file'[g].place = file[g].place /\ file'[g].lines = file[g].lines
                        /\ file'[g].holder = file[g].holder
    <3>1. file'[f] = [file[f] EXCEPT !.old = TRUE] /\ \A g \in File : g # f => file'[g] = file[g]
      BY <1>3 DEF Age, TypeOK, JournalTypeOK
    <3>2. /\ file'[f].place = file[f].place /\ file'[f].lines = file[f].lines
          /\ file'[f].holder = file[f].holder
      BY <3>1 DEF TypeOK, JournalTypeOK
    <3>3. QED
      BY <3>1, <3>2
  <2>3. \A e : Safe(e) => Safe(e)'
    BY <2>1, <2>2, FilesKept
  <2>4. Nobody \notin Drainer
    BY UnsubJournalAssumption
  <2>5. ClaimsAccounted'
    BY <2>1, <2>2, <2>3, <2>4, ClaimsFrame DEF TypeOK
  <2>6. QED
    BY <1>0, <2>1, <2>3, <2>5
<1>4. CASE PauseEnds
  BY <1>1, <1>4 DEF PauseEnds, unsubs, calls, journal
<1>5. CASE UNCHANGED unsubs
  BY <1>1, <1>5 DEF unsubs, calls, journal
<1>6. QED
  BY <1>2, <1>3, <1>4, <1>5, CallKeeps DEF Next, JournalNext, vars

\* Whatever fails, dies, is adopted or is returned in between, an opt-out that
\* was answered with 200 is in the database or on disk, but for a line that
\* was written to a journal that the drain had renamed and read.  (public.ts
\* writeOptOutsDurably, unsub-journal.ts, INVARIANT 8.)
THEOREM OptOutsAreKept == Spec => []AcknowledgedKept
<1>1. Init => ClaimsAccounted /\ CallsAccounted
  <2>1. SUFFICES ASSUME Init PROVE ClaimsAccounted /\ CallsAccounted
    OBVIOUS
  <2>2. \A d \in Drainer : drain[d].phase = "idle"
    BY <2>1 DEF Init, JournalInit, NoPass
  <2>3. \A r \in Request : http[r] = "none"
    BY <2>1 DEF Init, JournalInit
  <2>4. QED
    BY <2>2, <2>3 DEF ClaimsAccounted, Accounted, Reading, CallsAccounted, CallAccounted
<1>2. TypeOK /\ ClaimsAccounted /\ CallsAccounted /\ [Next]_vars
        => ClaimsAccounted' /\ CallsAccounted'
  BY OptOutsKept
<1>3. CallsAccounted => AcknowledgedKept
  BY DEF CallsAccounted, CallAccounted, AcknowledgedKept, Answered200, Safe, OnDisk
<1>4. QED
  BY TypeCorrect, <1>1, <1>2, <1>3, PTL DEF Spec
=============================================================================
