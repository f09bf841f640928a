---------------------------- MODULE FlowVersions ----------------------------
(***************************************************************************)
(* The versions of one flow: operators edit a draft, publish it, gate the  *)
(* flow for a canary and take the gate away, on the admin API and the      *)
(* agent API at once, while the trigger scan enters contacts and the       *)
(* runner reads the steps of the version that each run is pinned to.       *)
(* FlowRun has what the steps do and FlowTriggers what the scan reads;     *)
(* here a list of steps is a name.  Every action is one read or write of   *)
(* mailer_flows, mailer_flow_versions or mailer_flow_runs.                 *)
(***************************************************************************)
EXTENDS Naturals, FiniteSets

CONSTANTS
  Caller,      \* requests that publish, gate or ungate
  Run,         \* contacts that may enter
  Body,        \* lists of steps, but for the gate in front
  Empty,       \* the list of no steps
  NoDraft,     \* draft: null, as publishing leaves it
  Unset,       \* no draft field, in a document that a script wrote
  Seed,        \* version of the flow document at first
  Start        \* what the document and the snapshots may be at first

Steps == [body : Body \cup {Empty}, gated : BOOLEAN]
Drafts == Steps \cup {NoDraft, Unset}
NoSteps == [body |-> Empty, gated |-> FALSE]
Rare  == {"calls", "edits", "crash"}

ASSUME FlowVersionsAssumption ==
  /\ Empty \notin Body /\ NoDraft # Unset /\ {NoDraft, Unset} \cap Steps = {} /\ Seed \in Nat
  /\ Start \subseteq [steps : Steps, kept : BOOLEAN, draft : Drafts,
                      enabled : BOOLEAN, bound : [Rare -> Nat]]

VARIABLES
  flow,     \* the document: steps, version, draft, enabled
  snap,     \* the snapshots: a function from versions, as (flowId, version) is unique
  call,     \* each request: where it stands and the document it has read
  run,      \* each run: its version, the document its worker read, what it was given
  bare,     \* history: versions without a snapshot that another has replaced
  mixed,    \* history: a draft that holds a gate was published
  budget

vars == <<flow, snap, call, run, bare, mixed, budget>>

\* What requests, the scan and the runner keep of a document they read.
Copy(doc) == [version |-> doc.version, steps |-> doc.steps]
NoCopy    == [version |-> Seed, steps |-> NoSteps]

Spend(what) == budget[what] > 0 /\ budget' = [budget EXCEPT ![what] = @ - 1]

Idle  == [phase |-> "idle", op |-> "publish", read |-> NoCopy, enabled |-> FALSE,
          steps |-> NoSteps]
NoRun == [phase |-> "none", read |-> NoCopy, pinned |-> NoCopy, given |-> {}]

Init ==
  \E x \in Start :
    /\ flow = [steps |-> x.steps, version |-> Seed, draft |-> x.draft, enabled |-> x.enabled]
    /\ snap = [v \in (IF x.kept THEN {Seed} ELSE {}) |-> x.steps]
    /\ call = [a \in Caller |-> Idle]
    /\ run = [r \in Run |-> NoRun]
    /\ bare = {} /\ mixed = FALSE
    /\ budget = x.bound

-----------------------------------------------------------------------------
(* Operators.                                                              *)

\* PATCH draft.  An editor starts from what is shown, gate and all.  Where the
\* draft is null the database refuses to set draft.steps, and the call fails.
Shown == IF flow.draft \in {NoDraft, Unset} THEN flow.steps ELSE flow.draft
Edit ==
  /\ flow.draft # NoDraft /\ Spend("edits")
  /\ \E b \in Body, g \in BOOLEAN :
       /\ g => Shown.gated
       /\ flow' = [flow EXCEPT !.draft = [body |-> b, gated |-> g]]
  /\ UNCHANGED <<snap, call, run, bare, mixed>>

\* pause and resume, arm and disarm; arm refuses a flow without steps.
SetEnabled ==
  /\ Spend("edits")
  /\ \E on \in BOOLEAN : flow' = [flow EXCEPT !.enabled = on]
  /\ UNCHANGED <<snap, call, run, bare, mixed>>

Gate(s)   == [s EXCEPT !.gated = TRUE]
IsLive(s) == s.body # Empty
IsClean(s) == IsLive(s) /\ ~s.gated

\* A request reads the document, and is refused or goes on with steps to publish.
Begin(a, op, phase, steps) ==
  /\ call[a].phase = "idle" /\ Spend("calls")
  /\ call' = [call EXCEPT ![a] = [phase |-> phase, op |-> op, read |-> Copy(flow),
                                  enabled |-> flow.enabled, steps |-> steps]]
  /\ UNCHANGED <<flow, snap, run, bare, mixed>>

Publish(a)  == IsLive(Shown)       /\ Begin(a, "publish", "insert", Shown)
GateFlow(a) == IsClean(flow.steps) /\ Begin(a, "gate", "keep", Gate(flow.steps))
Ungate(a)   == flow.steps.gated    /\ Begin(a, "ungate", "find", NoSteps)

With(f, v, s) == [w \in DOMAIN f \cup {v} |-> IF w = v THEN s ELSE f[w]]

\* gateFlow: a $setOnInsert of the live steps, for a flow that has no snapshot.
KeepLive(a) ==
  /\ call[a].phase = "keep"
  /\ LET v == call[a].read.version
     IN  snap' = IF v \in DOMAIN snap THEN snap ELSE With(snap, v, call[a].read.steps)
  /\ call' = [call EXCEPT ![a].phase = "insert"]
  /\ UNCHANGED <<flow, run, bare, mixed, budget>>

\* ungateFlow: the newest snapshot that is not gated; none is an error.
\* Mutation: the oldest.
NewestOldest(v) == IsClean(snap[v]) /\ \A w \in DOMAIN snap : IsClean(snap[w]) => w >= v
Newest(v) == IsClean(snap[v]) /\ \A w \in DOMAIN snap : IsClean(snap[w]) => w <= v
FindClean(a) ==
  /\ call[a].phase = "find"
  /\ IF \E v \in DOMAIN snap : Newest(v)
     THEN \E v \in DOMAIN snap :
            /\ Newest(v)
            /\ call' = [call EXCEPT ![a].phase = "insert", ![a].steps = snap[v]]
     ELSE call' = [call EXCEPT ![a] = Idle]
  /\ UNCHANGED <<flow, snap, run, bare, mixed, budget>>

\* The unique index lets one request have a version; the others get an error.
Next_(a) == call[a].read.version + 1
Insert(a) ==
  /\ call[a].phase = "insert"
  /\ IF Next_(a) \in DOMAIN snap
     THEN call' = [call EXCEPT ![a] = Idle] /\ UNCHANGED snap
     ELSE /\ snap' = With(snap, Next_(a), call[a].steps)
          /\ call' = [call EXCEPT ![a].phase = "update"]
  /\ UNCHANGED <<flow, run, bare, mixed, budget>>

\* The document follows; a publish enables the flow unless it is told not to.
Update(a) ==
  /\ call[a].phase = "update"
  /\ \E on \in BOOLEAN :
       /\ on => call[a].op = "publish"
       /\ flow' = [steps |-> call[a].steps, version |-> Next_(a), draft |-> NoDraft,
                   enabled |-> on \/ (IF call[a].op = "publish" THEN call[a].enabled
                                      ELSE flow.enabled)]
  /\ call' = [call EXCEPT ![a] = Idle]
  /\ bare' = IF flow.version \in DOMAIN snap THEN bare ELSE bare \cup {flow.version}
  /\ mixed' = (mixed \/ (call[a].op = "publish" /\ call[a].steps.gated))
  /\ UNCHANGED <<snap, run, budget>>

Dies(a) ==
  /\ call[a].phase # "idle" /\ Spend("crash")
  /\ call' = [call EXCEPT ![a] = Idle]
  /\ UNCHANGED <<flow, snap, run, bare, mixed>>

-----------------------------------------------------------------------------
(* The scan and the runner.                                                *)

Scan(r) ==
  /\ run[r].phase = "none" /\ flow.enabled
  /\ run' = [run EXCEPT ![r].phase = "scanned", ![r].pinned = Copy(flow)]
  /\ UNCHANGED <<flow, snap, call, bare, mixed, budget>>

\* tryEnterFlow: the run is pinned to the version the scan has read.
Enter(r) ==
  /\ run[r].phase = "scanned"
  /\ run' = [run EXCEPT ![r].phase = "active"]
  /\ UNCHANGED <<flow, snap, call, bare, mixed, budget>>

\* processFlowRun reads the document, loadStepsForRun perhaps a snapshot.
ReadFlow(r) ==
  /\ run[r].phase = "active"
  /\ run' = [run EXCEPT ![r].phase = "loading", ![r].read = Copy(flow)]
  /\ UNCHANGED <<flow, snap, call, bare, mixed, budget>>

\* Mutation: the steps of the document, whatever its version.
StepsForLive(r) == run[r].read.steps
StepsFor(r) ==
  LET v == run[r].pinned.version IN
  IF v # run[r].read.version /\ v \in DOMAIN snap THEN snap[v] ELSE run[r].read.steps
LoadSteps(r) ==
  /\ run[r].phase = "loading"
  /\ run' = [run EXCEPT ![r].phase = "active", ![r].read = NoCopy,
                          ![r].given = @ \cup {StepsFor(r)}]
  /\ UNCHANGED <<flow, snap, call, bare, mixed, budget>>

-----------------------------------------------------------------------------
CallStep(a) == Publish(a) \/ GateFlow(a) \/ Ungate(a) \/ KeepLive(a) \/ FindClean(a) \/ Insert(a) \/ Update(a) \/ Dies(a)
RunStep(r)  == Scan(r) \/ Enter(r) \/ ReadFlow(r) \/ LoadSteps(r)

Next == \/ Edit \/ SetEnabled
        \/ \E a \in Caller : CallStep(a)
        \/ \E r \in Run : RunStep(r)

Spec == Init /\ [][Next]_vars

-----------------------------------------------------------------------------
Phase == {"idle", "keep", "find", "insert", "update"}
Read  == [version : Nat, steps : Steps]

TypeOK ==
  /\ flow \in [steps : Steps, version : Nat, draft : Drafts, enabled : BOOLEAN]
  /\ DOMAIN snap \subseteq Nat
  /\ \A v \in DOMAIN snap : snap[v] \in Steps /\ (v # Seed => IsLive(snap[v]))
  /\ call \in [Caller -> [phase : Phase, op : {"publish", "gate", "ungate"},
                          read : Read, enabled : BOOLEAN, steps : Steps]]
  /\ run \in [Run -> [phase : {"none", "scanned", "active", "loading"}, read : Read,
                      pinned : Read, given : SUBSET Steps]]
  /\ bare \subseteq Nat /\ mixed \in BOOLEAN /\ budget \in [Rare -> Nat]

\* A run is given the steps of the version it entered on, and no others, however
\* many requests race to publish the next ones; but for a version that was
\* never kept as a snapshot and was then replaced (see below).  (step.ts
\* loadStepsForRun, arm.ts:270, docs/guide/flows.md:214.)
PinnedSteps ==
  \A r \in Run :
    run[r].pinned.version \in bare \/ run[r].given \subseteq {run[r].pinned.steps}

\* Taking the gate away brings back the steps that were behind it, whoever
\* published what in between, where no gate was published from a draft.
\* (arm.ts ungateFlow: "restores the newest ungated version".)
UngateRestores ==
  [][\A a \in Caller :
       call[a].op = "ungate" /\ call[a].phase = "update" /\ flow'.version # flow.version
         => mixed \/ flow'.steps = [flow.steps EXCEPT !.gated = FALSE]]_vars

-----------------------------------------------------------------------------
(* What is said of the code, and does not hold of it in every case.        *)

\* "Editing a flow doesn't affect contacts already in it." (docs/guide/flows.md:214)
NeverBare == \A r \in Run : run[r].given \subseteq {run[r].pinned.steps}

\* A flow that was published can be edited.  (admin.ts:1424 has the remedy for
\* templates; flows lack it.)
CanEdit == flow.draft # NoDraft

\* A publish that failed half-way can be done again.
CanPublish == (flow.version + 1) \in DOMAIN snap => \E a \in Caller : call[a].phase = "update"
=============================================================================
