---------------------------- MODULE UnsubJournal ---------------------------
(***************************************************************************)
(* Opt-outs and opt-ins of one address, from the answer the recipient gets *)
(* to the rows in the database: the public routes, which write to the      *)
(* database within a time limit and else append to the journal on disk,    *)
(* the drain of the journal by the tick, and the host's calls.             *)
(*                                                                         *)
(* The journal is modelled by its inodes, for a file that was opened under *)
(* a name is still written to when the name is gone.  Every action is one  *)
(* file operation or one database write.                                   *)
(***************************************************************************)
EXTENDS Suppression, SequencesExt

CONSTANTS
  Request,       \* calls of a route or of the host
  Drainer,       \* processes that drain the journal
  Form,          \* the forms and calls that the cases use
  HasJournal,    \* pendingUnsubsPath is configured
  DoubleOptIn,   \* requireDoubleOptIn
  PerPass,       \* MAX_ENTRIES_PER_PASS
  MaxFile,       \* bound on inodes in use at once
  Nobody

OptOutForms == {"one-click", "unsubscribe-all"}
PageForms   == {"save", "resubscribe"}
OtherForms  == {"pause", "resume", "confirm", "host-resubscribe", "host-suppress"}

ASSUME UnsubJournalAssumption ==
  /\ Form \subseteq [kind : OptOutForms \cup PageForms \cup OtherForms \cup {"absent"},
                     scope : Scope, checked : SUBSET Category]
  /\ HasJournal \in BOOLEAN /\ DoubleOptIn \in BOOLEAN
  /\ {PerPass, MaxFile} \subseteq Nat \ {0}
  /\ Request \cap Drainer = {} /\ Nobody \notin Drainer

VARIABLES
  form,      \* [Request -> Form]: what each call asks for; does not change
  http,      \* where each call stands, and at last what it was answered
  todo,      \* writes that a call or a drainer has yet to make
  owed,      \* opt-outs that a call has yet to journal
  fd,        \* the inode a call or a drainer has open for an append, or 0
  file,      \* the inodes
  drain,     \* the drainers
  landed,    \* history: opt-outs <<request, scope>> whose writes are all made
  tardy      \* history: opt-outs appended to a file that was read before

calls   == <<http, owed>>
journal == <<fd, file, drain, tardy>>
unsubs  == <<form, calls, todo, journal, landed>>

File  == 1..MaxFile
Entry == Request \X Scope

-----------------------------------------------------------------------------
(* Files.                                                                  *)

NoFile == [place |-> "gone", lines |-> {}, old |-> FALSE, holder |-> Nobody]

Live == {f \in File : file[f].place = "live"}
Free == {f \in File : /\ file[f].place = "gone"
                      /\ \A a \in Request \cup Drainer : fd[a] # f
                      /\ \A d \in Drainer : f \notin ToSet(drain[d].claims)}

\* openSync(O_APPEND | O_CREAT): the live journal, or a new one.
Open(a, f) ==
  /\ \/ f \in Live /\ UNCHANGED file
     \/ /\ Live = {} /\ f \in Free /\ \A g \in Free : f <= g
        /\ file' = [file EXCEPT ![f] = [NoFile EXCEPT !.place = "live"]]
  /\ fd' = [fd EXCEPT ![a] = f]

\* The holder of a claim has read it, and will unlink it.
Reading == {"apply", "return", "append", "unlink"}
IsRead(f) ==
  \/ file[f].place = "gone"
  \/ \E d \in Drainer : /\ file[f].holder = d /\ drain[d].phase \in Reading
                        /\ Head(drain[d].claims) = f

\* writeSync and closeSync.
AppendLines(a, entries) ==
  /\ file' = [file EXCEPT ![fd[a]].lines = @ \cup entries, ![fd[a]].old = FALSE]
  /\ tardy' = IF IsRead(fd[a]) THEN tardy \cup entries ELSE tardy
  /\ fd' = [fd EXCEPT ![a] = 0]

OnDisk(e) == \E f \in File : file[f].place # "gone" /\ e \in file[f].lines

-----------------------------------------------------------------------------
(* The calls.                                                              *)

\* The scopes a form opts out of; they are what the route journals.
OptOuts(r) ==
  CASE form[r].kind = "one-click"       -> {form[r].scope}
    [] form[r].kind = "unsubscribe-all" -> {"marketing"}
    [] form[r].kind \in PageForms       -> Category \ form[r].checked
    [] OTHER                            -> {}

\* setPreferences, for each declared category; either takes one write.
CategoryWrites(checked) ==
  [i \in 1..Cardinality(Category) |->
     LET c == SetToSeq(Category)[i]
     IN  IF c \in checked THEN Clear(OptInScopes(c)) ELSE Head(OptOut(c))]

Subscribing == SetStatus(IF DoubleOptIn THEN "pending_doi" ELSE "subscribed")

\* Mutation: every form of the page opts in to marketing.
WritesPageOptsIn(r) ==
  IF form[r].kind \in PageForms
  THEN <<Clear(OptInScopes("marketing"))>> \o CategoryWrites(form[r].checked)
  ELSE OptOut(form[r].scope)
Writes(r) ==
  LET q == form[r] IN
  CASE q.kind = "one-click"        -> OptOut(q.scope)
    [] q.kind = "unsubscribe-all"  -> OptOut("marketing")
    [] q.kind = "save"             -> CategoryWrites(q.checked)
    [] q.kind = "resubscribe"      -> <<Clear(OptInScopes("marketing"))>>
                                      \o CategoryWrites(q.checked)
    [] q.kind = "pause"            -> <<Pause>>
    [] q.kind = "resume"           -> <<Unpause>>
    [] q.kind = "confirm"          -> <<Confirm>>
    [] q.kind = "host-resubscribe" -> <<Clear(OptInScopes(q.scope)), Subscribing>>
    [] q.kind = "host-suppress"    -> <<Insert(q.scope, "manual")>>

Submit(r) ==
  /\ form[r].kind # "absent" /\ http[r] = "none"
  /\ http' = [http EXCEPT ![r] = "waiting"]
  /\ todo' = [todo EXCEPT ![r] = Writes(r)]
  /\ UNCHANGED <<contact, form, owed, journal, landed, budget>>

\* The opt-outs of an actor that a write of it completes.
Ends(entries, w) == {e \in entries : e[2] \in w.ends}

\* A write goes on when its call has been answered.
DbWrite(r) ==
  /\ todo[r] # <<>>
  /\ Do(Head(todo[r]))
  /\ todo' = [todo EXCEPT ![r] = Tail(@)]
  /\ landed' = landed \cup Ends({r} \X OptOuts(r), Head(todo[r]))
  /\ UNCHANGED <<form, calls, journal, budget>>

\* The answer of the database in time.
Answer(r) ==
  /\ http[r] = "waiting" /\ todo[r] = <<>>
  /\ http' = [http EXCEPT ![r] = "ok"]
  /\ UNCHANGED <<contact, form, todo, owed, journal, landed, budget>>

\* No answer that claims success: 503, or an error to the host.
Journaling(r) ==
  IF form[r].kind \in OptOutForms \cup PageForms /\ HasJournal
  THEN /\ http' = [http EXCEPT ![r] = "journal"]
       /\ owed' = [owed EXCEPT ![r] = OptOuts(r)]
  ELSE http' = [http EXCEPT ![r] = "failed"] /\ UNCHANGED owed

\* A write fails, and with it the rest of the call's writes.
DbFails(r) ==
  /\ todo[r] # <<>> /\ Spend("db")
  /\ todo' = [todo EXCEPT ![r] = <<>>]
  /\ IF http[r] = "waiting" THEN Journaling(r) ELSE UNCHANGED calls
  /\ UNCHANGED <<contact, form, journal, landed>>

\* unsubscribeWriteTimeoutMs; the writes are not called off, and may all have
\* been made.
Timeout(r) ==
  /\ http[r] = "waiting" /\ form[r].kind \in OptOutForms \cup PageForms /\ Spend("slow")
  /\ Journaling(r)
  /\ UNCHANGED <<contact, form, todo, journal, landed>>

JournalOpen(r) ==
  /\ http[r] = "journal" /\ owed[r] # {} /\ fd[r] = 0
  /\ \E f \in File : Open(r, f)
  /\ UNCHANGED <<contact, form, calls, todo, drain, landed, tardy, budget>>

JournalWrite(r) ==
  /\ http[r] = "journal" /\ fd[r] # 0
  /\ \E s \in owed[r] : /\ AppendLines(r, {<<r, s>>})
                        /\ owed' = [owed EXCEPT ![r] = @ \ {s}]
  /\ UNCHANGED <<contact, form, http, todo, drain, landed, budget>>

\* An opt-in is not in the journal, so a page with journaled opt-outs is not saved.
Journaled(r) ==
  /\ http[r] = "journal" /\ owed[r] = {} /\ fd[r] = 0
  /\ http' = [http EXCEPT ![r] = IF form[r].kind \in OptOutForms THEN "journaled" ELSE "failed"]
  /\ UNCHANGED <<contact, form, todo, owed, journal, landed, budget>>

JournalFails(r) ==
  /\ http[r] = "journal" /\ owed[r] # {} /\ Spend("disk")
  /\ http' = [http EXCEPT ![r] = "failed"]
  /\ fd' = [fd EXCEPT ![r] = 0]
  /\ UNCHANGED <<contact, form, todo, owed, file, drain, landed, tardy>>

CallDies(r) ==
  /\ (http[r] \in {"waiting", "journal"} \/ todo[r] # <<>>) /\ Spend("crash")
  /\ http' = [http EXCEPT ![r] = IF @ \in {"waiting", "journal"} THEN "dead" ELSE @]
  /\ todo' = [todo EXCEPT ![r] = <<>>]
  /\ fd' = [fd EXCEPT ![r] = 0]
  /\ UNCHANGED <<contact, form, owed, file, drain, landed, tardy>>

\* expiresAt of a pause passes.
PauseEnds ==
  /\ supp["marketing_pause"] # "none"
  /\ supp' = [supp EXCEPT !["marketing_pause"] = "none"]
  /\ UNCHANGED <<subscription, unsubs, budget>>

-----------------------------------------------------------------------------
(* The drain.                                                              *)

NoPass == [phase |-> "idle", listing |-> {}, claims |-> <<>>, batch |-> {}, left |-> 0]

Claimed(d) == file[Head(drain[d].claims)].holder = d
\* A rename or an unlink takes the name away that others have in their listing.
Gone(dr, f) == [d \in Drainer |-> [dr[d] EXCEPT !.listing = @ \ {f}]]
Step(d, next) == drain' = [drain EXCEPT ![d] = next]
Phase(d, p)   == Step(d, [drain[d] EXCEPT !.phase = p])

\* Mutation: a tick without a live journal has nothing to drain.
StartPassOnJournal(d) ==
  /\ drain[d].phase = "idle" /\ Live # {}
  /\ Step(d, [NoPass EXCEPT !.phase = "adopt", !.left = PerPass,
                            !.listing = {f \in File : file[f].place = "claim"}])
  /\ UNCHANGED <<contact, form, calls, todo, fd, file, landed, tardy, budget>>
\* adoptAbandonedClaims: readdir.
StartPass(d) ==
  /\ drain[d].phase = "idle" /\ \E f \in File : file[f].place # "gone"
  /\ Step(d, [NoPass EXCEPT !.phase = "adopt", !.left = PerPass,
                            !.listing = {f \in File : file[f].place = "claim"}])
  /\ UNCHANGED <<contact, form, calls, todo, fd, file, landed, tardy, budget>>

\* An old claim is renamed and touched; who had it finds its name gone.
Adopt(d) ==
  /\ drain[d].phase = "adopt"
  /\ \E f \in drain[d].listing :
       /\ file[f].old
       /\ file' = [file EXCEPT ![f].holder = d, ![f].old = FALSE]
       /\ drain' = Gone([drain EXCEPT ![d].claims = @ \o <<f>>], f)
  /\ UNCHANGED <<contact, form, calls, todo, fd, landed, tardy, budget>>

\* claimJournal: rename and utimes; the live journal may be gone by now.
ClaimJournal(d) ==
  /\ drain[d].phase = "adopt" /\ \A f \in drain[d].listing : ~file[f].old
  /\ IF Live = {}
     THEN Step(d, [drain[d] EXCEPT !.phase = "next", !.listing = {}]) /\ UNCHANGED file
     ELSE \E f \in Live :
            /\ file' = [file EXCEPT ![f].place = "claim", ![f].holder = d]
            /\ Step(d, [drain[d] EXCEPT !.phase = "next", !.listing = {},
                                        !.claims = @ \o <<f>>])
  /\ UNCHANGED <<contact, form, calls, todo, fd, landed, tardy, budget>>

\* readClaim; a claim that was adopted by another reads as empty.
ReadClaim(d) ==
  /\ drain[d].phase = "next"
  /\ IF drain[d].claims = <<>>
     THEN Step(d, NoPass)
     ELSE Step(d, [drain[d] EXCEPT !.phase = "apply",
                     !.batch = IF Claimed(d) THEN file[Head(drain[d].claims)].lines ELSE {}])
  /\ UNCHANGED <<contact, form, calls, todo, fd, file, landed, tardy, budget>>

\* applyUnsubscribe of an entry, its first write or its second.
ApplyEntry(d) ==
  /\ drain[d].phase = "apply" /\ drain[d].left > 0
  /\ \E e \in drain[d].batch :
       LET ops == IF todo[d] = <<>> THEN OptOut(e[2]) ELSE todo[d] IN
       /\ todo[d] # <<>> => e[2] \in Last(ops).ends
       /\ Do(Head(ops))
       /\ todo' = [todo EXCEPT ![d] = Tail(ops)]
       /\ landed' = landed \cup Ends({e}, Head(ops))
       /\ IF Len(ops) > 1
          THEN UNCHANGED drain
          ELSE Step(d, [drain[d] EXCEPT !.batch = @ \ {e}, !.left = @ - 1])
  /\ UNCHANGED <<form, calls, fd, file, tardy, budget>>

\* A write fails: the entry and the rest of the batch are deferred.
ApplyFails(d) ==
  /\ drain[d].phase = "apply" /\ drain[d].left > 0 /\ drain[d].batch # {} /\ Spend("db")
  /\ todo' = [todo EXCEPT ![d] = <<>>]
  /\ Phase(d, "return")
  /\ UNCHANGED <<contact, form, calls, fd, file, landed, tardy>>

\* The batch is done, or the pass has applied its fill.
ApplyDone(d) ==
  /\ drain[d].phase = "apply" /\ (drain[d].batch = {} \/ drain[d].left = 0)
  /\ Phase(d, IF drain[d].batch = {} THEN "unlink" ELSE "return")
  /\ UNCHANGED <<contact, form, calls, todo, fd, file, landed, tardy, budget>>

\* releaseClaim: what is deferred goes to the live journal, then the claim goes.
\* Mutation: the claim is unlinked before the rest is appended.
ReleaseUnlinked(d) ==
  /\ drain[d].phase = "return"
  /\ \E f \in File :
       /\ f \in Live \/ (Live = {} /\ f \in Free)
       /\ file' = [file EXCEPT ![Head(drain[d].claims)] = NoFile, ![f].place = "live"]
       /\ fd' = [fd EXCEPT ![d] = f]
  /\ Phase(d, "append")
  /\ UNCHANGED <<contact, form, calls, todo, landed, tardy, budget>>
ReleaseOpen(d) ==
  /\ drain[d].phase = "return"
  /\ \E f \in File : Open(d, f)
  /\ Phase(d, "append")
  /\ UNCHANGED <<contact, form, calls, todo, landed, tardy, budget>>

ReleaseWrite(d) ==
  /\ drain[d].phase = "append"
  /\ AppendLines(d, drain[d].batch)
  /\ Step(d, [drain[d] EXCEPT !.phase = "unlink", !.batch = {}])
  /\ UNCHANGED <<contact, form, calls, todo, landed, budget>>

Unlink(d) ==
  /\ drain[d].phase = "unlink"
  /\ LET f == Head(drain[d].claims)
         done == [drain EXCEPT ![d].phase = "next", ![d].claims = Tail(@)]
     IN  IF Claimed(d)
         THEN file' = [file EXCEPT ![f] = NoFile] /\ drain' = Gone(done, f)
         ELSE UNCHANGED file /\ drain' = done
  /\ UNCHANGED <<contact, form, calls, todo, fd, landed, tardy, budget>>

\* The process dies, or a file operation throws and the tick gives the pass up:
\* its claims stay on disk.
GiveUp(d) ==
  /\ drain' = [drain EXCEPT ![d] = NoPass]
  /\ file' = [f \in File |-> IF file[f].holder = d THEN [file[f] EXCEPT !.holder = Nobody]
                             ELSE file[f]]
  /\ fd' = [fd EXCEPT ![d] = 0]
  /\ todo' = [todo EXCEPT ![d] = <<>>]
DrainDies(d) ==
  /\ drain[d].phase # "idle" /\ (Spend("crash") \/ Spend("disk"))
  /\ GiveUp(d)
  /\ UNCHANGED <<contact, form, calls, landed, tardy>>

\* ADOPT_AFTER_MS pass; the holder of the claim is dead or, rarely, only slow.
Age(f) ==
  /\ file[f].place = "claim" /\ ~file[f].old
  /\ IF file[f].holder = Nobody THEN UNCHANGED budget ELSE Spend("slow")
  /\ file' = [file EXCEPT ![f].old = TRUE]
  /\ UNCHANGED <<contact, form, calls, todo, fd, drain, landed, tardy>>

-----------------------------------------------------------------------------
JournalInit ==
  /\ http = [r \in Request |-> "none"]
  /\ todo = [a \in Request \cup Drainer |-> <<>>]
  /\ owed = [r \in Request |-> {}]
  /\ fd = [a \in Request \cup Drainer |-> 0]
  /\ file = [f \in File |-> NoFile]
  /\ drain = [d \in Drainer |-> NoPass]
  /\ landed = {} /\ tardy = {}

JournalTypeOK ==
  /\ form \in [Request -> Form]
  /\ http \in [Request -> {"none", "waiting", "journal", "ok", "journaled", "failed", "dead"}]
  /\ todo \in [Request \cup Drainer -> Seq(ContactWrite)]
  /\ owed \in [Request -> SUBSET Scope]
  /\ fd \in [Request \cup Drainer -> File \cup {0}]
  /\ file \in [File -> [place : {"gone", "live", "claim"}, lines : SUBSET Entry,
                        old : BOOLEAN, holder : Drainer \cup {Nobody}]]
  /\ drain \in [Drainer -> [phase : {"idle", "adopt", "next"} \cup Reading, listing : SUBSET File,
                             claims : Seq(File), batch : SUBSET Entry, left : 0..PerPass]]
  /\ \A d \in Drainer : /\ drain[d].phase \in Reading => drain[d].claims # <<>>
                        /\ drain[d].phase = "append" => fd[d] # 0
  /\ landed \subseteq Entry /\ tardy \subseteq Entry
  /\ \A f, g \in Live : f = g

Call(r) == \/ DbWrite(r) \/ Answer(r) \/ JournalOpen(r) \/ JournalWrite(r) \/ Journaled(r)
Pass(d) == \/ StartPass(d) \/ Adopt(d) \/ ClaimJournal(d) \/ ReadClaim(d) \/ ApplyEntry(d)
           \/ ApplyDone(d) \/ ReleaseOpen(d) \/ ReleaseWrite(d) \/ Unlink(d)

JournalNext ==
  \/ \E r \in Request : \/ Submit(r) \/ Call(r) \/ DbFails(r) \/ Timeout(r)
                        \/ JournalFails(r) \/ CallDies(r)
  \/ \E d \in Drainer : Pass(d) \/ ApplyFails(d) \/ DrainDies(d)
  \/ \E f \in File : Age(f)
  \/ PauseEnds
=============================================================================
