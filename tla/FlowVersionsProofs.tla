------------------------- MODULE FlowVersionsProofs -------------------------
(***************************************************************************)
(* Proofs about FlowVersions, for any requests, runs and lists of steps:   *)
(* the types, and that a run gets the steps of its own version.  The       *)
(* invariant says what a version is: whoever has a copy of it has the same *)
(* steps, and a request that may write the next version is alone.          *)
(***************************************************************************)
EXTENDS FlowVersions, TLAPS

-----------------------------------------------------------------------------
(* The inductive invariant.  first: the steps of the document at first.    *)

\* A copy of a version has the steps of that version.
OfVersion(first, c) ==
  /\ c.version \in Seed .. flow.version
  /\ c.steps = IF c.version = Seed THEN first ELSE snap[c.version]

CallOfVersion(first, a) ==
  /\ OfVersion(first, call[a].read)
  /\ call[a].phase \in {"keep", "insert", "update"} => IsLive(call[a].steps)
  /\ call[a].phase = "update" =>
       /\ call[a].read.version = flow.version
       /\ Next_(a) \in DOMAIN snap
       /\ snap[Next_(a)] = call[a].steps
       /\ \A b \in Caller : call[b].phase = "update" => b = a

RunOfVersion(first, r) ==
  /\ OfVersion(first, run[r].pinned)
  /\ run[r].phase = "loading" => OfVersion(first, run[r].read)

VersionsOf(first) ==
  /\ OfVersion(first, flow)
  /\ \A v \in Seed + 1 .. flow.version : v \in DOMAIN snap
  /\ Seed \in DOMAIN snap => snap[Seed] = first
  /\ flow.version # Seed /\ Seed \notin DOMAIN snap => Seed \in bare
  /\ \A a \in Caller : call[a].phase # "idle" => CallOfVersion(first, a)
  /\ \A r \in Run : IF run[r].phase = "none" THEN run[r].given = {}
                    ELSE RunOfVersion(first, r)

\* The newest steps without a gate, of the versions there have been.
CleanNow(w) ==
  /\ w \in DOMAIN snap /\ w <= flow.version /\ IsClean(snap[w])
  /\ \A x \in DOMAIN snap : x <= flow.version /\ IsClean(snap[x]) => x <= w

\* What a request that changes the gate knows.
GateCall(a) ==
  /\ call[a].phase = "keep" => call[a].op = "gate"
  /\ call[a].phase = "find" => call[a].op = "ungate"
  /\ call[a].op = "gate" => IsClean(call[a].read.steps) /\ call[a].steps = Gate(call[a].read.steps)
  /\ call[a].op = "gate" /\ call[a].phase # "keep" => call[a].read.version \in DOMAIN snap
  /\ call[a].op = "ungate" => call[a].read.steps.gated
  /\ call[a].op = "ungate" /\ call[a].phase # "find" => IsClean(call[a].steps)
  /\ call[a].op = "ungate" /\ (call[a].phase = "update" \/ (call[a].phase = "insert" /\ Next_(a) \notin DOMAIN snap))
       => mixed \/ call[a].steps.body = call[a].read.steps.body

Gates(first) ==
  /\ \A v \in DOMAIN snap : v <= flow.version + 1
  /\ \A a \in Caller : call[a].phase # "idle" => GateCall(a)
  /\ flow.version # Seed /\ Seed \notin DOMAIN snap /\ IsClean(first) => mixed \/ IsClean(snap[Seed + 1])
  /\ flow.steps.gated => \A w \in DOMAIN snap : CleanNow(w) => mixed \/ snap[w].body = flow.steps.body

IInv == TypeOK /\ PinnedSteps /\ \E first \in Steps : VersionsOf(first) /\ Gates(first)

-----------------------------------------------------------------------------
(* Types.                                                                  *)

LEMMA InitTypes == Init => TypeOK
<1> SUFFICES ASSUME NEW x \in Start,
                    flow = [steps |-> x.steps, version |-> Seed, draft |-> x.draft, enabled |-> x.enabled],
                    snap = [v \in (IF x.kept THEN {Seed} ELSE {}) |-> x.steps],
                    call = [a \in Caller |-> Idle], run = [r \in Run |-> NoRun],
                    bare = {}, mixed = FALSE, budget = x.bound
             PROVE  TypeOK
  BY DEF Init
<1>1. x \in [steps : Steps, kept : BOOLEAN, draft : Drafts, enabled : BOOLEAN, bound : [Rare -> Nat]]
  BY FlowVersionsAssumption
<1>2. Seed \in Nat /\ NoSteps \in Steps
  BY FlowVersionsAssumption DEF Steps, NoSteps
<1>3. flow \in [steps : Steps, version : Nat, draft : Drafts, enabled : BOOLEAN]
  BY <1>1, <1>2
<1>4. Idle \in [phase : Phase, op : {"publish", "gate", "ungate"}, read : Read, enabled : BOOLEAN, steps : Steps]
  BY <1>2 DEF Idle, Phase, Read, NoCopy
<1>5. NoRun \in [phase : {"none", "scanned", "active", "loading"}, read : Read, pinned : Read, given : SUBSET Steps]
  BY <1>2 DEF NoRun, Read, NoCopy
<1> QED
  BY <1>1, <1>2, <1>3, <1>4, <1>5 DEF TypeOK

CallType == [phase : Phase, op : {"publish", "gate", "ungate"}, read : Read, enabled : BOOLEAN,
             steps : Steps]
RunType  == [phase : {"none", "scanned", "active", "loading"}, read : Read, pinned : Read,
             given : SUBSET Steps]

LEMMA SpendTypes ==
  ASSUME NEW what \in Rare, budget \in [Rare -> Nat], Spend(what)
  PROVE  budget' \in [Rare -> Nat]
<1>1. budget[what] \in Nat /\ budget[what] > 0
  BY DEF Spend
<1>2. budget[what] - 1 \in Nat
  BY <1>1
<1> QED
  BY <1>2 DEF Spend

LEMMA BlankTypes == NoSteps \in Steps /\ NoCopy \in Read /\ Idle \in CallType /\ NoRun \in RunType
<1>1. NoSteps \in Steps
  BY DEF NoSteps, Steps
<1>2. NoCopy \in Read
  BY <1>1, FlowVersionsAssumption DEF NoCopy, Read
<1> QED
  BY <1>1, <1>2 DEF Idle, NoRun, CallType, RunType, Phase

\* A request that goes on, one that ends, a run that goes on.
LEMMA CallTypes ==
  ASSUME NEW a \in Caller, call \in [Caller -> CallType]
  PROVE  /\ call' = [call EXCEPT ![a] = Idle] => call' \in [Caller -> CallType]
         /\ \A p \in Phase : call' = [call EXCEPT ![a].phase = p] => call' \in [Caller -> CallType]
         /\ \A p \in Phase, s \in Steps :
              call' = [call EXCEPT ![a].phase = p, ![a].steps = s] => call' \in [Caller -> CallType]
BY BlankTypes DEF CallType

LEMMA TypesKept ==
  ASSUME NEW first \in Steps, TypeOK, VersionsOf(first), [Next]_vars
  PROVE  TypeOK'
<1> DEFINE flowT == flow \in [steps : Steps, version : Nat, draft : Drafts, enabled : BOOLEAN]
           snapT == DOMAIN snap \subseteq Nat /\ \A v \in DOMAIN snap : snap[v] \in Steps /\ (v # Seed => IsLive(snap[v]))
           callT == call \in [Caller -> CallType]
           runT  == run \in [Run -> RunType]
           histT == bare \subseteq Nat /\ mixed \in BOOLEAN
           budT  == budget \in [Rare -> Nat]
<1>1. flowT /\ snapT /\ callT /\ runT /\ histT /\ budT
  BY DEF TypeOK, CallType, RunType
<1>2. SUFFICES flowT' /\ snapT' /\ callT' /\ runT' /\ histT' /\ budT'
  BY DEF TypeOK, CallType, RunType
<1>3. Copy(flow) \in Read
  BY <1>1 DEF Copy, Read
<1>4. CASE Edit
  <2>1. PICK b \in Body, g \in BOOLEAN : flow' = [flow EXCEPT !.draft = [body |-> b, gated |-> g]]
    BY <1>4 DEF Edit
  <2>2. [body |-> b, gated |-> g] \in Drafts
    BY DEF Drafts, Steps
  <2>3. flowT'
    BY <1>1, <2>1, <2>2
  <2>4. budT'
    BY <1>1, <1>4, SpendTypes DEF Edit, Rare
  <2> QED
    BY <1>1, <1>4, <2>3, <2>4 DEF Edit
<1>5. CASE SetEnabled
  <2>1. budT'
    BY <1>1, <1>5, SpendTypes DEF SetEnabled, Rare
  <2> QED
    BY <1>1, <1>5, <2>1 DEF SetEnabled
<1>6. ASSUME NEW a \in Caller, NEW op \in {"publish", "gate", "ungate"}, NEW phase \in Phase,
             NEW steps \in Steps, Begin(a, op, phase, steps)
      PROVE  callT' /\ budT'
  <2>1. budT'
    BY <1>1, <1>6, SpendTypes DEF Begin, Rare
  <2>2. [phase |-> phase, op |-> op, read |-> Copy(flow), enabled |-> flow.enabled, steps |-> steps] \in CallType
    BY <1>1, <1>3 DEF CallType
  <2> QED
    BY <1>1, <1>6, <2>1, <2>2 DEF Begin
<1>7. ASSUME NEW a \in Caller, Publish(a) \/ GateFlow(a) \/ Ungate(a)
      PROVE  flowT' /\ snapT' /\ callT' /\ runT' /\ histT' /\ budT'
  <2>1. Shown \in Steps /\ Gate(flow.steps) \in Steps /\ NoSteps \in Steps
    BY <1>1, BlankTypes DEF Shown, Drafts, Gate, Steps
  <2>2. callT' /\ budT'
    BY <1>6, <1>7, <2>1 DEF Publish, GateFlow, Ungate, Phase
  <2> QED
    BY <1>1, <1>7, <2>2 DEF Publish, GateFlow, Ungate, Begin
<1>8. ASSUME NEW a \in Caller, KeepLive(a)
      PROVE  flowT' /\ snapT' /\ callT' /\ runT' /\ histT' /\ budT'
  <2>1. call[a].read.version \in Seed .. flow.version
    BY <1>8 DEF KeepLive, VersionsOf, CallOfVersion, OfVersion
  <2>2. flow.version \in Nat /\ Seed \in Nat
    BY <1>1, FlowVersionsAssumption
  <2>3. call[a].read.version = Seed \/ call[a].read.version \in Seed + 1 .. flow.version
    BY <2>1, <2>2
  <2>4. call[a].read.version = Seed \/ call[a].read.version \in DOMAIN snap
    BY <2>3 DEF VersionsOf
  <2>5. call[a].read.steps \in Steps
    BY <1>1 DEF CallType, Read
  <2>6. snapT'
    BY <1>1, <1>8, <2>2, <2>4, <2>5 DEF KeepLive, With
  <2>7. callT'
    BY <1>1, <1>8, CallTypes DEF KeepLive, Phase
  <2> QED
    BY <1>1, <1>8, <2>6, <2>7 DEF KeepLive
<1>9. ASSUME NEW a \in Caller, FindClean(a)
      PROVE  flowT' /\ snapT' /\ callT' /\ runT' /\ histT' /\ budT'
  <2>1. CASE call' = [call EXCEPT ![a] = Idle]
    BY <1>1, <1>9, <2>1, CallTypes DEF FindClean
  <2>2. ASSUME NEW v \in DOMAIN snap, call' = [call EXCEPT ![a].phase = "insert", ![a].steps = snap[v]]
        PROVE  flowT' /\ snapT' /\ callT' /\ runT' /\ histT' /\ budT'
    <3>1. snap[v] \in Steps /\ "insert" \in Phase
      BY <1>1 DEF Phase
    <3>2. callT'
      BY <1>1, <2>2, <3>1, CallTypes
    <3> QED
      BY <1>1, <1>9, <3>2 DEF FindClean
  <2> QED
    BY <1>9, <2>1, <2>2 DEF FindClean
<1>10. ASSUME NEW a \in Caller, Insert(a)
       PROVE  flowT' /\ snapT' /\ callT' /\ runT' /\ histT' /\ budT'
  <2>1. CASE Next_(a) \in DOMAIN snap
    BY <1>1, <1>10, <2>1, CallTypes DEF Insert
  <2>2. CASE Next_(a) \notin DOMAIN snap
    <3>1. IsLive(call[a].steps)
      BY <1>10 DEF Insert, VersionsOf, CallOfVersion
    <3>2. call[a].steps \in Steps /\ Next_(a) \in Nat
      BY <1>1 DEF Next_, CallType, Read
    <3>3. snapT'
      BY <1>1, <1>10, <2>2, <3>1, <3>2 DEF Insert, With
    <3>4. callT'
      BY <1>1, <1>10, <2>2, CallTypes DEF Insert, Phase
    <3> QED
      BY <1>1, <1>10, <3>3, <3>4 DEF Insert
  <2> QED
    BY <2>1, <2>2
<1>11. ASSUME NEW a \in Caller, Update(a)
       PROVE  flowT' /\ snapT' /\ callT' /\ runT' /\ histT' /\ budT'
  <2>1. call[a].steps \in Steps /\ call[a].enabled \in BOOLEAN /\ Next_(a) \in Nat /\ flow.version \in Nat
        /\ flow.enabled \in BOOLEAN /\ NoDraft \in Drafts
    BY <1>1 DEF Next_, CallType, Read, Drafts
  <2>2. PICK on \in BOOLEAN :
          flow' = [steps |-> call[a].steps, version |-> Next_(a), draft |-> NoDraft,
                   enabled |-> on \/ (IF call[a].op = "publish" THEN call[a].enabled ELSE flow.enabled)]
    BY <1>11 DEF Update
  <2>3. (on \/ (IF call[a].op = "publish" THEN call[a].enabled ELSE flow.enabled)) \in BOOLEAN
    BY <2>1
  <2>4. flowT'
    BY <2>1, <2>2, <2>3
  <2>5. histT'
    BY <1>1, <1>11, <2>1 DEF Update
  <2>6. callT'
    BY <1>1, <1>11, CallTypes DEF Update
  <2> QED
    BY <1>1, <1>11, <2>4, <2>5, <2>6 DEF Update
<1>12. ASSUME NEW a \in Caller, Dies(a)
       PROVE  flowT' /\ snapT' /\ callT' /\ runT' /\ histT' /\ budT'
  <2>1. budT'
    BY <1>1, <1>12, SpendTypes DEF Dies, Rare
  <2>2. callT'
    BY <1>1, <1>12, CallTypes DEF Dies
  <2> QED
    BY <1>1, <1>12, <2>1, <2>2 DEF Dies
<1>13. ASSUME NEW r \in Run, Scan(r) \/ Enter(r) \/ ReadFlow(r)
       PROVE  flowT' /\ snapT' /\ callT' /\ runT' /\ histT' /\ budT'
  <2>1. runT'
    BY <1>1, <1>3, <1>13 DEF Scan, Enter, ReadFlow, RunType
  <2> QED
    BY <1>1, <1>13, <2>1 DEF Scan, Enter, ReadFlow
<1>14. ASSUME NEW r \in Run, LoadSteps(r)
       PROVE  flowT' /\ snapT' /\ callT' /\ runT' /\ histT' /\ budT'
  <2>1. StepsFor(r) \in Steps
    BY <1>1 DEF StepsFor, RunType, Read
  <2>2. runT'
    BY <1>1, <1>14, <2>1, BlankTypes DEF LoadSteps, RunType
  <2> QED
    BY <1>1, <1>14, <2>2 DEF LoadSteps
<1>15. CASE UNCHANGED vars
  BY <1>1, <1>15 DEF vars
<1> QED
  BY <1>4, <1>5, <1>7, <1>8, <1>9, <1>10, <1>11, <1>12, <1>13, <1>14, <1>15 DEF Next, CallStep, RunStep

-----------------------------------------------------------------------------
(* Versions.                                                               *)

LEMMA InitVersions == Init => \E first \in Steps : VersionsOf(first)
<1> SUFFICES ASSUME NEW x \in Start,
                    flow = [steps |-> x.steps, version |-> Seed, draft |-> x.draft, enabled |-> x.enabled],
                    snap = [v \in (IF x.kept THEN {Seed} ELSE {}) |-> x.steps],
                    call = [a \in Caller |-> Idle], run = [r \in Run |-> NoRun],
                    bare = {}, mixed = FALSE, budget = x.bound
             PROVE  \E first \in Steps : VersionsOf(first)
  BY DEF Init
<1>1. x.steps \in Steps /\ Seed \in Nat
  BY FlowVersionsAssumption
<1>2. OfVersion(x.steps, flow)
  BY <1>1 DEF OfVersion
<1>3. VersionsOf(x.steps)
  BY <1>1, <1>2 DEF VersionsOf, Idle, NoRun
<1> QED
  BY <1>1, <1>3

LEMMA VersionsKept ==
  ASSUME NEW first \in Steps, TypeOK, TypeOK', VersionsOf(first), [Next]_vars
  PROVE  VersionsOf(first)'
<1> DEFINE Good(c) == /\ c.version \in Seed .. flow'.version
                      /\ c.steps = (IF c.version = Seed THEN first ELSE snap'[c.version])
           GoodCall(a) ==
             /\ Good(call'[a].read)
             /\ call'[a].phase \in {"keep", "insert", "update"} => IsLive(call'[a].steps)
             /\ call'[a].phase = "update" =>
                  /\ call'[a].read.version = flow'.version
                  /\ call'[a].read.version + 1 \in DOMAIN snap'
                  /\ snap'[call'[a].read.version + 1] = call'[a].steps
                  /\ \A b \in Caller : call'[b].phase = "update" => b = a
           GoodCalls == \A a \in Caller : call'[a].phase # "idle" => GoodCall(a)
           GoodRuns  == \A r \in Run :
             IF run'[r].phase = "none" THEN run'[r].given = {}
             ELSE Good(run'[r].pinned) /\ (run'[r].phase = "loading" => Good(run'[r].read))
           GoodFlow ==
             /\ Good(flow')
             /\ \A v \in Seed + 1 .. flow'.version : v \in DOMAIN snap'
             /\ Seed \in DOMAIN snap' => snap'[Seed] = first
             /\ flow'.version # Seed /\ Seed \notin DOMAIN snap' => Seed \in bare'
           Goal == GoodFlow /\ GoodCalls /\ GoodRuns
           Same == flow'.version = flow.version /\ flow'.steps = flow.steps /\ bare' = bare
<1>1. SUFFICES Goal
  BY DEF VersionsOf, CallOfVersion, RunOfVersion, OfVersion, Next_, IsLive
<1>2. Seed \in Nat /\ flow.version \in Nat /\ flow'.version \in Nat
      /\ DOMAIN snap \subseteq Nat /\ DOMAIN snap' \subseteq Nat
  BY FlowVersionsAssumption DEF TypeOK
<1>3. /\ OfVersion(first, flow)
      /\ \A v \in Seed + 1 .. flow.version : v \in DOMAIN snap
      /\ Seed \in DOMAIN snap => snap[Seed] = first
      /\ flow.version # Seed /\ Seed \notin DOMAIN snap => Seed \in bare
      /\ \A a \in Caller : call[a].phase # "idle" => CallOfVersion(first, a)
      /\ \A r \in Run : IF run[r].phase = "none" THEN run[r].given = {} ELSE RunOfVersion(first, r)
  BY DEF VersionsOf
<1>4. call \in [Caller -> CallType] /\ run \in [Run -> RunType]
  BY DEF TypeOK, CallType, RunType
\* While versions are only added, a copy stays what it was.
<1>5. ASSUME flow'.version >= flow.version,
             \A v \in DOMAIN snap : v \in DOMAIN snap' /\ snap'[v] = snap[v]
      PROVE  \A c : OfVersion(first, c) => Good(c)
  <2> SUFFICES ASSUME NEW c, OfVersion(first, c)
               PROVE  Good(c)
    OBVIOUS
  <2>1. c.version \in Seed .. flow.version /\ c.steps = (IF c.version = Seed THEN first ELSE snap[c.version])
    BY DEF OfVersion
  <2>2. c.version # Seed => c.version \in DOMAIN snap
    BY <1>2, <1>3, <2>1
  <2>3. c.version \in Seed .. flow'.version
    BY <1>2, <1>5, <2>1
  <2> QED
    BY <1>5, <2>1, <2>2, <2>3
<1>6. ASSUME Same, UNCHANGED snap
      PROVE  GoodFlow /\ \A c : OfVersion(first, c) <=> Good(c)
  BY <1>2, <1>3, <1>6 DEF OfVersion
<1>7. ASSUME UNCHANGED run, \A c : OfVersion(first, c) => Good(c)
      PROVE  GoodRuns
  BY <1>3, <1>7 DEF RunOfVersion
<1>8. ASSUME UNCHANGED <<call, snap>>, Same
      PROVE  GoodCalls
  BY <1>3, <1>6, <1>8 DEF CallOfVersion, Next_
\* A request other than a goes on as it was.
<1>9. ASSUME NEW a \in Caller, NEW b \in Caller, b # a, flow'.version = flow.version,
             \A v \in DOMAIN snap : v \in DOMAIN snap' /\ snap'[v] = snap[v],
             \A x \in Caller \ {a} : call'[x] = call[x],
             call'[a].phase = "update" => call[b].phase # "update",
             call[b].phase # "idle"
      PROVE  GoodCall(b)
  <2>1. CallOfVersion(first, b) /\ call'[b] = call[b]
    BY <1>3, <1>9
  <2>2. Good(call[b].read)
    BY <1>2, <1>5, <1>9, <2>1 DEF CallOfVersion
  <2>3. call[b].phase = "update" => \A x \in Caller : call'[x].phase = "update" => x = b
    BY <1>9, <2>1 DEF CallOfVersion
  <2> QED
    BY <1>9, <2>1, <2>2, <2>3 DEF CallOfVersion, Next_
<1>10. CASE Edit \/ SetEnabled
  <2>1. Same
    BY <1>10 DEF Edit, SetEnabled, TypeOK
  <2> QED
    BY <1>6, <1>7, <1>8, <1>10, <2>1 DEF Edit, SetEnabled
<1>11. ASSUME NEW a \in Caller, NEW op, NEW phase \in {"insert", "keep", "find"}, NEW steps \in Steps,
              Begin(a, op, phase, steps), phase \in {"keep", "insert"} => IsLive(steps)
       PROVE  Goal
  <2>1. Same /\ UNCHANGED <<snap, run>>
    BY <1>11 DEF Begin
  <2>2. call'[a] = [phase |-> phase, op |-> op, read |-> Copy(flow), enabled |-> flow.enabled, steps |-> steps]
        /\ \A x \in Caller \ {a} : call'[x] = call[x]
    BY <1>4, <1>11 DEF Begin
  <2>3. OfVersion(first, Copy(flow))
    BY <1>3 DEF OfVersion, Copy
  <2>4. GoodCall(a)
    BY <1>6, <1>11, <2>1, <2>2, <2>3
  <2>5. \A b \in Caller \ {a} : call'[b].phase # "idle" => GoodCall(b)
    BY <1>9, <2>1, <2>2
  <2> QED
    BY <1>6, <1>7, <2>1, <2>4, <2>5
<1>12. ASSUME NEW a \in Caller, Publish(a) \/ GateFlow(a) \/ Ungate(a)
       PROVE  Goal
  <2>1. Shown \in Steps /\ Gate(flow.steps) \in Steps /\ NoSteps \in Steps
    BY BlankTypes DEF TypeOK, Shown, Drafts, Gate, Steps
  <2>2. IsClean(flow.steps) => IsLive(Gate(flow.steps))
    BY DEF IsClean, IsLive, Gate, TypeOK, Steps
  <2> QED
    BY <1>11, <1>12, <2>1, <2>2 DEF Publish, GateFlow, Ungate
<1>13. ASSUME NEW a \in Caller, call' = [call EXCEPT ![a] = Idle], Same, UNCHANGED <<snap, run>>
       PROVE  Goal
  <2>1. call'[a].phase = "idle" /\ \A x \in Caller \ {a} : call'[x] = call[x]
    BY <1>4, <1>13 DEF Idle
  <2>2. \A b \in Caller \ {a} : call'[b].phase # "idle" => GoodCall(b)
    BY <1>9, <1>13, <2>1
  <2> QED
    BY <1>6, <1>7, <1>13, <2>1, <2>2
<1>14. ASSUME NEW a \in Caller, KeepLive(a)
       PROVE  Goal
  <2>1. CallOfVersion(first, a) /\ call[a].phase = "keep"
    BY <1>3, <1>14 DEF KeepLive
  <2>2. call'[a] = [call[a] EXCEPT !.phase = "insert"] /\ \A x \in Caller \ {a} : call'[x] = call[x]
    BY <1>4, <1>14 DEF KeepLive
  <2>3. \A v \in DOMAIN snap : v \in DOMAIN snap' /\ snap'[v] = snap[v]
    BY <1>14 DEF KeepLive, With
  <2>4. call[a].read.version = Seed \/ call[a].read.version \in DOMAIN snap
    BY <1>2, <1>3, <2>1 DEF CallOfVersion, OfVersion
  <2>5. Seed \in DOMAIN snap' => snap'[Seed] = first
    BY <1>3, <1>14, <2>1, <2>4 DEF KeepLive, With, CallOfVersion, OfVersion
  <2>6. \A c : OfVersion(first, c) => Good(c)
    BY <1>2, <1>5, <1>14, <2>3 DEF KeepLive
  <2>7. GoodFlow
    BY <1>3, <1>14, <2>3, <2>5, <2>6 DEF KeepLive
  <2>8. GoodCall(a)
    BY <1>4, <2>1, <2>2, <2>6 DEF CallOfVersion, CallType
  <2>9. \A b \in Caller \ {a} : call'[b].phase # "idle" => GoodCall(b)
    BY <1>4, <1>9, <1>14, <2>2, <2>3 DEF KeepLive, CallType
  <2>10. GoodRuns
    BY <1>7, <1>14, <2>6 DEF KeepLive
  <2> QED
    BY <2>7, <2>8, <2>9, <2>10
<1>15. ASSUME NEW a \in Caller, FindClean(a)
       PROVE  Goal
  <2>1. CASE call' = [call EXCEPT ![a] = Idle]
    BY <1>13, <1>15, <2>1 DEF FindClean
  <2>2. ASSUME NEW v \in DOMAIN snap, Newest(v), call' = [call EXCEPT ![a].phase = "insert", ![a].steps = snap[v]]
        PROVE  Goal
    <3>1. CallOfVersion(first, a) /\ Same /\ UNCHANGED <<snap, run>>
      BY <1>3, <1>15 DEF FindClean
    <3>2. call'[a] = [call[a] EXCEPT !.phase = "insert", !.steps = snap[v]] /\ \A x \in Caller \ {a} : call'[x] = call[x]
      BY <1>4, <2>2
    <3>3. IsLive(snap[v])
      BY <2>2 DEF Newest, IsClean
    <3>4. GoodCall(a)
      BY <1>4, <1>6, <3>1, <3>2, <3>3 DEF CallOfVersion, CallType
    <3>5. \A b \in Caller \ {a} : call'[b].phase # "idle" => GoodCall(b)
      <4>1. call'[a].phase # "update"
        BY <1>4, <3>2 DEF CallType
      <4> QED
        BY <1>9, <3>1, <3>2, <4>1
    <3> QED
      BY <1>6, <1>7, <3>1, <3>4, <3>5
  <2> QED
    BY <1>15, <2>1, <2>2 DEF FindClean
<1>16. ASSUME NEW a \in Caller, Insert(a)
       PROVE  Goal
  <2>1. CASE Next_(a) \in DOMAIN snap
    BY <1>13, <1>16, <2>1 DEF Insert
  <2>2. CASE Next_(a) \notin DOMAIN snap
    <3>1. CallOfVersion(first, a) /\ call[a].phase = "insert"
      BY <1>3, <1>16 DEF Insert
    <3>2. call[a].read.version = flow.version /\ Next_(a) = flow.version + 1
      BY <1>2, <1>3, <2>2, <3>1 DEF CallOfVersion, OfVersion, Next_
    <3>3. snap' = With(snap, Next_(a), call[a].steps) /\ call' = [call EXCEPT ![a].phase = "update"]
      BY <1>16, <2>2 DEF Insert
    <3>4. \A v \in DOMAIN snap : v \in DOMAIN snap' /\ snap'[v] = snap[v]
      BY <2>2, <3>3 DEF With
    <3>5. call'[a] = [call[a] EXCEPT !.phase = "update"] /\ \A x \in Caller \ {a} : call'[x] = call[x]
      BY <1>4, <3>3
    <3>6. \A x \in Caller : call[x].phase # "update"
      BY <1>3, <2>2, <3>2 DEF CallOfVersion, Next_
    <3>7. \A c : OfVersion(first, c) => Good(c)
      BY <1>2, <1>5, <1>16, <3>4 DEF Insert
    <3>8. Seed \in DOMAIN snap' => snap'[Seed] = first
      BY <1>2, <1>3, <3>2, <3>3 DEF With, OfVersion
    <3>9. GoodFlow
      BY <1>2, <1>3, <1>16, <3>4, <3>7, <3>8 DEF Insert
    <3>10. Next_(a) \in DOMAIN snap' /\ snap'[Next_(a)] = call[a].steps
      BY <3>3 DEF With
    <3>11. GoodCall(a)
      BY <1>4, <1>16, <3>1, <3>2, <3>5, <3>6, <3>7, <3>10 DEF Insert, CallOfVersion, CallType, Next_
    <3>12. \A b \in Caller \ {a} : call'[b].phase # "idle" => GoodCall(b)
      BY <1>9, <1>16, <3>4, <3>5, <3>6 DEF Insert
    <3> QED
      BY <1>7, <1>16, <3>7, <3>9, <3>11, <3>12 DEF Insert
  <2> QED
    BY <2>1, <2>2
<1>17. ASSUME NEW a \in Caller, Update(a)
       PROVE  Goal
  <2>1. CallOfVersion(first, a) /\ call[a].phase = "update" /\ UNCHANGED <<snap, run>>
    BY <1>3, <1>17 DEF Update
  <2>2. /\ Next_(a) = flow.version + 1 /\ Next_(a) \in DOMAIN snap /\ snap[Next_(a)] = call[a].steps
        /\ \A b \in Caller : call[b].phase = "update" => b = a
    BY <2>1 DEF CallOfVersion, Next_
  <2>3. flow'.version = flow.version + 1 /\ flow'.steps = call[a].steps
    BY <1>17, <2>2 DEF Update
  <2>4. \A c : OfVersion(first, c) => Good(c)
    BY <1>2, <1>5, <2>1, <2>3
  <2>5. flow.version # Seed /\ Seed \notin DOMAIN snap => Seed \in bare'
    BY <1>3, <1>17 DEF Update
  <2>6. flow.version = Seed /\ Seed \notin DOMAIN snap => Seed \in bare'
    BY <1>17 DEF Update
  <2>7. GoodFlow
    <3>1. Seed <= flow.version
      BY <1>2, <1>3 DEF OfVersion
    <3>2. Good(flow')
      BY <1>2, <2>1, <2>2, <2>3, <3>1
    <3>3. \A v \in Seed + 1 .. flow'.version : v \in DOMAIN snap'
      BY <1>2, <1>3, <2>1, <2>2, <2>3
    <3>4. Seed \in DOMAIN snap' => snap'[Seed] = first
      BY <1>3, <2>1
    <3>5. Seed \notin DOMAIN snap' => Seed \in bare'
      BY <2>1, <2>5, <2>6
    <3> QED
      BY <3>2, <3>3, <3>4, <3>5
  <2>8. call'[a].phase = "idle" /\ \A x \in Caller \ {a} : call'[x] = call[x]
    BY <1>4, <1>17 DEF Update, Idle
  <2>9. \A b \in Caller \ {a} : call'[b].phase # "idle" => GoodCall(b)
    BY <1>3, <2>2, <2>4, <2>8 DEF CallOfVersion
  <2> QED
    BY <1>7, <2>1, <2>4, <2>7, <2>8, <2>9
<1>18. ASSUME NEW a \in Caller, Dies(a)
       PROVE  Goal
  BY <1>13, <1>18 DEF Dies
<1>19. ASSUME NEW r \in Run, RunStep(r)
       PROVE  Goal
  <2>1. UNCHANGED <<flow, snap, call, bare>>
    BY <1>19 DEF RunStep, Scan, Enter, ReadFlow, LoadSteps
  <2>2. OfVersion(first, Copy(flow))
    BY <1>3 DEF OfVersion, Copy
  <2>3. \A q \in Run \ {r} : run'[q] = run[q]
    BY <1>4, <1>19 DEF RunStep, Scan, Enter, ReadFlow, LoadSteps
  <2>4. IF run'[r].phase = "none" THEN run'[r].given = {}
        ELSE OfVersion(first, run'[r].pinned) /\ (run'[r].phase = "loading" => OfVersion(first, run'[r].read))
    <3>1. CASE Scan(r)
      BY <1>4, <2>2, <3>1 DEF Scan, RunType
    <3>2. CASE Enter(r) \/ ReadFlow(r) \/ LoadSteps(r)
      BY <1>3, <1>4, <2>2, <3>2 DEF Enter, ReadFlow, LoadSteps, RunOfVersion, RunType
    <3> QED
      BY <1>19, <3>1, <3>2 DEF RunStep
  <2>5. GoodRuns
    BY <1>3, <1>6, <2>1, <2>3, <2>4 DEF RunOfVersion
  <2> QED
    BY <1>6, <1>8, <2>1, <2>5
<1>20. CASE UNCHANGED vars
  BY <1>6, <1>7, <1>8, <1>20 DEF vars
<1> QED
  BY <1>10, <1>12, <1>14, <1>15, <1>16, <1>17, <1>18, <1>19, <1>20 DEF Next, CallStep

-----------------------------------------------------------------------------
(* Runs.                                                                   *)

\* The steps a run is given, with the snapshot of its version or without.
LEMMA StepsOfVersion ==
  ASSUME NEW first \in Steps, TypeOK, VersionsOf(first), NEW r \in Run, run[r].phase = "loading"
  PROVE  run[r].pinned.version \in bare \/ StepsFor(r) = run[r].pinned.steps
<1> DEFINE v == run[r].pinned.version
<1>1. OfVersion(first, run[r].pinned) /\ OfVersion(first, run[r].read)
  BY DEF VersionsOf, RunOfVersion
<1>2. Seed \in Nat /\ flow.version \in Nat
  BY FlowVersionsAssumption DEF TypeOK
<1>3. CASE v = run[r].read.version
  BY <1>1, <1>3 DEF OfVersion, StepsFor
<1>4. CASE v # run[r].read.version /\ v \in DOMAIN snap
  BY <1>1, <1>4 DEF OfVersion, StepsFor, VersionsOf
<1>5. CASE v # run[r].read.version /\ v \notin DOMAIN snap
  <2>1. v = Seed
    BY <1>1, <1>2, <1>5 DEF OfVersion, VersionsOf
  <2>2. flow.version # Seed
    BY <1>1, <1>2, <1>5, <2>1 DEF OfVersion
  <2> QED
    BY <1>5, <2>1, <2>2 DEF VersionsOf
<1> QED
  BY <1>3, <1>4, <1>5

LEMMA PinnedKept ==
  ASSUME NEW first \in Steps, TypeOK, VersionsOf(first), PinnedSteps, [Next]_vars
  PROVE  PinnedSteps'
<1>1. run \in [Run -> RunType]
  BY DEF TypeOK, RunType
<1>2. bare \subseteq bare'
  <2>1. ASSUME NEW a \in Caller, CallStep(a)
        PROVE  bare \subseteq bare'
    BY <2>1 DEF CallStep, Publish, GateFlow, Ungate, Begin, KeepLive, FindClean, Insert, Update, Dies
  <2>2. ASSUME NEW r \in Run, RunStep(r)
        PROVE  bare \subseteq bare'
    BY <2>2 DEF RunStep, Scan, Enter, ReadFlow, LoadSteps
  <2> QED
    BY <2>1, <2>2 DEF Next, Edit, SetEnabled, vars
<1>3. CASE UNCHANGED run
  BY <1>2, <1>3 DEF PinnedSteps
<1>4. ASSUME NEW r \in Run, RunStep(r)
      PROVE  PinnedSteps'
  <2>1. \A q \in Run \ {r} : run'[q] = run[q]
    BY <1>1, <1>4 DEF RunStep, Scan, Enter, ReadFlow, LoadSteps
  <2>2. run'[r].pinned.version \in bare' \/ run'[r].given \subseteq {run'[r].pinned.steps}
    <3>1. CASE Scan(r)
      BY <1>1, <3>1 DEF Scan, VersionsOf, RunType
    <3>2. CASE Enter(r) \/ ReadFlow(r)
      BY <1>1, <1>2, <3>2 DEF Enter, ReadFlow, PinnedSteps, RunType
    <3>3. CASE LoadSteps(r)
      <4>1. run'[r].pinned = run[r].pinned /\ run'[r].given = run[r].given \cup {StepsFor(r)}
        BY <1>1, <3>3 DEF LoadSteps, RunType
      <4>2. run[r].pinned.version \in bare \/ StepsFor(r) = run[r].pinned.steps
        BY <3>3, StepsOfVersion DEF LoadSteps
      <4> QED
        BY <1>2, <4>1, <4>2 DEF PinnedSteps
    <3> QED
      BY <1>4, <3>1, <3>2, <3>3 DEF RunStep
  <2> QED
    BY <1>2, <2>1, <2>2 DEF PinnedSteps
<1>5. (\E r \in Run : RunStep(r)) \/ UNCHANGED run
  BY DEF Next, vars, Edit, SetEnabled, CallStep, Publish, GateFlow, Ungate, Begin, KeepLive,
         FindClean, Insert, Update, Dies
<1> QED
  BY <1>3, <1>4, <1>5

-----------------------------------------------------------------------------
(* Gates.                                                                  *)

LEMMA InitGates == Init => \A first \in Steps : Gates(first)
<1> SUFFICES ASSUME NEW x \in Start,
                    flow = [steps |-> x.steps, version |-> Seed, draft |-> x.draft, enabled |-> x.enabled],
                    snap = [v \in (IF x.kept THEN {Seed} ELSE {}) |-> x.steps],
                    call = [a \in Caller |-> Idle],
                    NEW first \in Steps
             PROVE  Gates(first)
  BY DEF Init
<1>1. Seed \in Nat /\ DOMAIN snap \subseteq {Seed} /\ \A v \in DOMAIN snap : snap[v] = flow.steps
  BY FlowVersionsAssumption
<1> QED
  BY <1>1 DEF Gates, Idle, CleanNow

\* A request that may still publish has read the document as it is.
LEMMA StillCurrent ==
  ASSUME NEW first \in Steps, TypeOK, VersionsOf(first), NEW a \in Caller, call[a].phase # "idle",
         call[a].phase = "update" \/ Next_(a) \notin DOMAIN snap
  PROVE  call[a].read.version = flow.version /\ call[a].read.steps = flow.steps
<1>1. CallOfVersion(first, a) /\ OfVersion(first, flow) /\ Seed \in Nat /\ flow.version \in Nat
  BY FlowVersionsAssumption DEF VersionsOf, TypeOK
<1>2. call[a].read.version = flow.version
  BY <1>1 DEF CallOfVersion, OfVersion, VersionsOf, Next_
<1> QED
  BY <1>1, <1>2 DEF CallOfVersion, OfVersion

LEMMA GatesKept ==
  ASSUME NEW first \in Steps, TypeOK, TypeOK', VersionsOf(first), Gates(first), [Next]_vars
  PROVE  Gates(first)'
<1> DEFINE Bounded == \A v \in DOMAIN snap : v <= flow.version + 1
           Calls == \A a \in Caller : call[a].phase # "idle" => GateCall(a)
           FirstKept == flow.version # Seed /\ Seed \notin DOMAIN snap /\ IsClean(first)
                          => mixed \/ IsClean(snap[Seed + 1])
           Behind == flow.steps.gated => \A w \in DOMAIN snap : CleanNow(w) => mixed \/ snap[w].body = flow.steps.body
           Grows == \A v \in DOMAIN snap : v \in DOMAIN snap' /\ snap'[v] = snap[v]
           Same == flow'.version = flow.version /\ flow'.steps = flow.steps /\ mixed' = mixed
<1>1. Bounded /\ Calls /\ FirstKept /\ Behind
  BY DEF Gates
<1>2. SUFFICES Bounded' /\ Calls' /\ FirstKept' /\ Behind'
  BY DEF Gates
<1>3. Seed \in Nat /\ flow.version \in Nat /\ flow'.version \in Nat /\ Seed <= flow.version
      /\ DOMAIN snap \subseteq Nat /\ DOMAIN snap' \subseteq Nat
  BY FlowVersionsAssumption DEF TypeOK, VersionsOf, OfVersion
<1>4. call \in [Caller -> CallType] /\ mixed \in BOOLEAN /\ mixed' \in BOOLEAN
  BY DEF TypeOK, CallType
<1>5. flow.version # Seed => Seed + 1 \in DOMAIN snap /\ Seed + 1 <= flow.version
  BY <1>3 DEF VersionsOf
<1>6. ASSUME UNCHANGED snap, Same
      PROVE  Bounded' /\ FirstKept' /\ Behind'
  BY <1>1, <1>6 DEF CleanNow, IsClean, IsLive
\* A request other than a.
<1>7. ASSUME NEW b \in Caller, call[b].phase # "idle", call'[b] = call[b], Grows, mixed => mixed'
      PROVE  GateCall(b)'
  <2>1. GateCall(b)
    BY <1>1, <1>7
  <2> QED
    BY <1>7, <2>1 DEF GateCall, Next_, IsClean, IsLive, Gate
<1>8. ASSUME UNCHANGED call, UNCHANGED snap, Same
      PROVE  Calls'
  BY <1>7, <1>8
<1>9. CASE Edit \/ SetEnabled
  <2>1. Same
    BY <1>9 DEF Edit, SetEnabled, TypeOK
  <2> QED
    BY <1>6, <1>8, <1>9, <2>1 DEF Edit, SetEnabled
<1>10. ASSUME NEW a \in Caller, Publish(a) \/ GateFlow(a) \/ Ungate(a)
       PROVE  Bounded' /\ Calls' /\ FirstKept' /\ Behind'
  <2>1. UNCHANGED snap /\ Same /\ \A x \in Caller \ {a} : call'[x] = call[x]
    BY <1>4, <1>10 DEF Publish, GateFlow, Ungate, Begin
  <2>2. call'[a].read.steps = flow.steps
    BY <1>4, <1>10 DEF Publish, GateFlow, Ungate, Begin, Copy
  <2>3. \/ call'[a].op = "publish" /\ call'[a].phase = "insert"
        \/ /\ call'[a].op = "gate" /\ call'[a].phase = "keep"
           /\ IsClean(flow.steps) /\ call'[a].steps = Gate(flow.steps)
        \/ call'[a].op = "ungate" /\ call'[a].phase = "find" /\ flow.steps.gated
    BY <1>4, <1>10 DEF Publish, GateFlow, Ungate, Begin
  <2>4. GateCall(a)'
    BY <2>2, <2>3 DEF GateCall, IsClean, IsLive, Gate
  <2>5. Calls'
    BY <1>7, <2>1, <2>4
  <2> QED
    BY <1>6, <2>1, <2>5
<1>11. ASSUME NEW a \in Caller, call' = [call EXCEPT ![a] = Idle], Grows, mixed => mixed'
       PROVE  Calls'
  <2>1. call'[a].phase = "idle" /\ \A x \in Caller \ {a} : call'[x] = call[x]
    BY <1>4, <1>11 DEF Idle
  <2> QED
    BY <1>7, <1>11, <2>1
<1>12. ASSUME NEW a \in Caller, KeepLive(a)
       PROVE  Bounded' /\ Calls' /\ FirstKept' /\ Behind'
  <2>1. GateCall(a) /\ CallOfVersion(first, a) /\ call[a].phase = "keep" /\ call[a].op = "gate"
    BY <1>1, <1>12 DEF KeepLive, GateCall, VersionsOf
  <2>2. call'[a] = [call[a] EXCEPT !.phase = "insert"] /\ \A x \in Caller \ {a} : call'[x] = call[x]
    BY <1>4, <1>12 DEF KeepLive
  <2>3. Grows /\ Same /\ call[a].read.version \in DOMAIN snap'
    BY <1>12 DEF KeepLive, With
  <2>4. GateCall(a)'
    BY <1>4, <2>1, <2>2, <2>3 DEF GateCall, CallType, IsClean, IsLive, Gate
  <2>5. Calls'
    BY <1>7, <2>2, <2>3, <2>4
  <2>6. Bounded'
    BY <1>1, <1>3, <1>12, <2>1 DEF KeepLive, With, CallOfVersion, OfVersion
  <2>7. FirstKept'
    BY <1>1, <1>5, <2>3 DEF IsClean, IsLive
  <2>8. CASE call[a].read.version \in DOMAIN snap
    BY <1>6, <1>12, <2>3, <2>5, <2>8 DEF KeepLive
  <2>9. CASE call[a].read.version \notin DOMAIN snap
    <3>1. call[a].read.version = Seed /\ IsClean(first)
      BY <1>3, <2>1, <2>9 DEF GateCall, CallOfVersion, OfVersion, VersionsOf
    <3>2. CASE flow.version = Seed
      <4>1. ~flow'.steps.gated
        BY <2>3, <3>1, <3>2 DEF VersionsOf, OfVersion, IsClean
      <4> QED
        BY <2>5, <2>6, <2>7, <4>1
    <3>3. CASE flow.version # Seed
      <4> SUFFICES ASSUME flow.steps.gated, ~mixed, NEW w \in DOMAIN snap', CleanNow(w)'
                   PROVE  snap'[w].body = flow.steps.body
        BY <2>3, <2>5, <2>6, <2>7
      <4>1. IsClean(snap[Seed + 1]) /\ snap'[Seed + 1] = snap[Seed + 1] /\ Seed + 1 \in DOMAIN snap'
        BY <1>1, <1>5, <2>3, <2>9, <3>1, <3>3
      <4>2. w >= Seed + 1
        BY <1>3, <1>5, <2>3, <3>3, <4>1 DEF CleanNow, IsClean, IsLive
      <4>3. DOMAIN snap' = DOMAIN snap \cup {Seed}
        BY <1>12, <2>9, <3>1 DEF KeepLive, With
      <4>4. w \in DOMAIN snap
        BY <1>3, <4>2, <4>3
      <4>5. CleanNow(w)
        BY <2>3, <4>4 DEF CleanNow, IsClean, IsLive
      <4> QED
        BY <1>1, <2>3, <4>4, <4>5
    <3> QED
      BY <2>5, <2>6, <2>7, <3>2, <3>3
  <2> QED
    BY <2>8, <2>9
<1>13. ASSUME NEW a \in Caller, FindClean(a)
       PROVE  Bounded' /\ Calls' /\ FirstKept' /\ Behind'
  <2>1. UNCHANGED snap /\ Same
    BY <1>13 DEF FindClean
  <2>2. CASE call' = [call EXCEPT ![a] = Idle]
    BY <1>6, <1>11, <2>1, <2>2
  <2>3. ASSUME NEW v \in DOMAIN snap, Newest(v), call' = [call EXCEPT ![a].phase = "insert", ![a].steps = snap[v]]
        PROVE  Calls'
    <3>1. GateCall(a) /\ call[a].phase = "find" /\ call[a].op = "ungate"
      BY <1>1, <1>13 DEF FindClean, GateCall
    <3>2. call'[a] = [call[a] EXCEPT !.phase = "insert", !.steps = snap[v]] /\ \A x \in Caller \ {a} : call'[x] = call[x]
      BY <1>4, <2>3
    <3>3. ASSUME Next_(a) \notin DOMAIN snap, ~mixed
          PROVE  snap[v].body = call[a].read.steps.body
      <4>1. call[a].read.version = flow.version /\ call[a].read.steps = flow.steps
        BY <3>1, <3>3, StillCurrent
      <4>2. CleanNow(v)
        BY <1>1, <1>3, <2>3, <3>3, <4>1 DEF CleanNow, Newest, Next_
      <4> QED
        BY <1>1, <3>1, <3>3, <4>1, <4>2 DEF GateCall
    <3>4. IsClean(snap[v])
      BY <2>3 DEF Newest
    <3>5. /\ call'[a].phase = "insert" /\ call'[a].op = "ungate" /\ call'[a].read = call[a].read
          /\ call'[a].steps = snap[v]
      BY <1>4, <3>1, <3>2 DEF CallType
    <3>6. GateCall(a)'
      BY <2>1, <3>1, <3>3, <3>4, <3>5 DEF GateCall, Next_, IsClean, IsLive
    <3> QED
      BY <1>7, <2>1, <3>2, <3>6
  <2> QED
    BY <1>6, <1>13, <2>1, <2>2, <2>3 DEF FindClean
<1>14. ASSUME NEW a \in Caller, Insert(a)
       PROVE  Bounded' /\ Calls' /\ FirstKept' /\ Behind'
  <2>1. CASE Next_(a) \in DOMAIN snap
    <3>1. UNCHANGED snap /\ Same /\ call' = [call EXCEPT ![a] = Idle]
      BY <1>14, <2>1 DEF Insert
    <3> QED
      BY <1>6, <1>11, <3>1
  <2>2. CASE Next_(a) \notin DOMAIN snap
    <3>1. GateCall(a) /\ call[a].phase = "insert"
      BY <1>1, <1>14 DEF Insert
    <3>2. snap' = With(snap, Next_(a), call[a].steps) /\ call' = [call EXCEPT ![a].phase = "update"] /\ Same
      BY <1>14, <2>2 DEF Insert
    <3>3. Next_(a) = flow.version + 1
      BY <2>2, <3>1, StillCurrent DEF Next_
    <3>4. Grows /\ DOMAIN snap' = DOMAIN snap \cup {flow.version + 1}
      BY <2>2, <3>2, <3>3 DEF With
    <3>5. /\ \A x \in Caller \ {a} : call'[x] = call[x]
          /\ call'[a].phase = "update" /\ call'[a].op = call[a].op /\ call'[a].read = call[a].read
          /\ call'[a].steps = call[a].steps
      BY <1>4, <3>2 DEF CallType
    <3>6. GateCall(a)'
      BY <2>2, <3>1, <3>2, <3>4, <3>5 DEF GateCall, Next_, IsClean, IsLive, Gate
    <3>7. Calls'
      BY <1>7, <3>2, <3>4, <3>5, <3>6
    <3>8. Bounded'
      BY <1>1, <1>3, <3>2, <3>4
    <3>9. FirstKept'
      BY <1>1, <1>5, <3>2, <3>4 DEF IsClean, IsLive
    <3>10. ASSUME NEW w \in DOMAIN snap', CleanNow(w)'
           PROVE  w \in DOMAIN snap /\ CleanNow(w) /\ snap'[w] = snap[w]
      <4>1. w \in DOMAIN snap
        BY <1>3, <3>2, <3>4, <3>10 DEF CleanNow
      <4> QED
        BY <3>2, <3>4, <3>10, <4>1 DEF CleanNow, IsClean, IsLive
    <3>11. Behind'
      BY <1>1, <3>2, <3>10
    <3> QED
      BY <3>7, <3>8, <3>9, <3>11
  <2> QED
    BY <2>1, <2>2
<1>15. ASSUME NEW a \in Caller, Update(a)
       PROVE  Bounded' /\ Calls' /\ FirstKept' /\ Behind'
  <2>1. GateCall(a) /\ CallOfVersion(first, a) /\ call[a].phase = "update" /\ UNCHANGED snap
    BY <1>1, <1>15 DEF Update, VersionsOf
  <2>2. call[a].read.version = flow.version /\ call[a].read.steps = flow.steps
    BY <2>1, StillCurrent
  <2>3. Next_(a) = flow.version + 1 /\ Next_(a) \in DOMAIN snap /\ snap[Next_(a)] = call[a].steps
    BY <2>1, <2>2 DEF CallOfVersion, Next_
  <2>4. flow'.version = flow.version + 1 /\ flow'.steps = call[a].steps
        /\ mixed' = (mixed \/ (call[a].op = "publish" /\ call[a].steps.gated))
    BY <1>15, <2>3 DEF Update
  <2>5. Calls'
    BY <1>11, <1>15, <2>1, <2>4 DEF Update
  <2>6. Bounded'
    BY <1>1, <1>3, <2>1, <2>4
  <2>7. call[a].op \in {"publish", "gate", "ungate"} /\ IsLive(call[a].steps)
    BY <1>4, <2>1 DEF CallType, CallOfVersion
  <2>8. FirstKept'
    <3> SUFFICES ASSUME Seed \notin DOMAIN snap, IsClean(first), ~mixed'
                 PROVE  IsClean(snap[Seed + 1])
      BY <2>1 DEF IsClean, IsLive
    <3>1. CASE flow.version # Seed
      BY <1>1, <2>4, <3>1
    <3>2. CASE flow.version = Seed
      <4>1. call[a].read.steps = first /\ call[a].read.version = Seed
        BY <2>1, <2>2, <3>2 DEF CallOfVersion, OfVersion
      <4>2. call[a].op = "publish"
        BY <2>1, <2>7, <4>1 DEF GateCall, IsClean
      <4>3. ~call[a].steps.gated
        BY <2>4, <4>2
      <4> QED
        BY <2>3, <2>7, <3>2, <4>3 DEF IsClean
    <3> QED
      BY <3>1, <3>2
  <2>9. Behind'
    <3> SUFFICES ASSUME call[a].steps.gated, ~mixed', NEW w \in DOMAIN snap, CleanNow(w)'
                 PROVE  snap[w].body = call[a].steps.body
      BY <2>1, <2>4
    <3>1. call[a].op = "gate"
      BY <2>1, <2>4, <2>7 DEF GateCall, IsClean
    <3>2. IsClean(flow.steps) /\ call[a].steps = Gate(flow.steps) /\ flow.version \in DOMAIN snap
      BY <2>1, <2>2, <3>1 DEF GateCall
    <3>3. snap[flow.version] = flow.steps
      BY <3>2 DEF VersionsOf, OfVersion
    <3>4. w >= flow.version /\ w <= flow.version + 1 /\ IsClean(snap[w])
      BY <1>3, <2>1, <2>4, <3>2, <3>3 DEF CleanNow, IsClean, IsLive
    <3>5. w # flow.version + 1
      BY <2>3, <3>4 DEF IsClean
    <3>6. w = flow.version
      BY <1>3, <3>4, <3>5
    <3>7. flow.steps \in Steps
      BY DEF TypeOK
    <3> QED
      BY <3>2, <3>3, <3>6, <3>7 DEF Gate, Steps
  <2> QED
    BY <2>5, <2>6, <2>8, <2>9
<1>16. ASSUME NEW a \in Caller, Dies(a)
       PROVE  Bounded' /\ Calls' /\ FirstKept' /\ Behind'
  BY <1>6, <1>11, <1>16 DEF Dies
<1>17. CASE (\E r \in Run : RunStep(r)) \/ UNCHANGED vars
  BY <1>6, <1>8, <1>17 DEF RunStep, Scan, Enter, ReadFlow, LoadSteps, vars
<1> QED
  BY <1>9, <1>10, <1>12, <1>13, <1>14, <1>15, <1>16, <1>17 DEF Next, CallStep

\* What an ungate restores.
LEMMA RestoresGate ==
  ASSUME NEW first \in Steps, TypeOK, VersionsOf(first), Gates(first), [Next]_vars
  PROVE  \A a \in Caller :
           call[a].op = "ungate" /\ call[a].phase = "update" /\ flow'.version # flow.version
             => mixed \/ flow'.steps = [flow.steps EXCEPT !.gated = FALSE]
<1> SUFFICES ASSUME NEW a \in Caller, call[a].op = "ungate", call[a].phase = "update",
                    flow'.version # flow.version, ~mixed
             PROVE  flow'.steps = [flow.steps EXCEPT !.gated = FALSE]
  OBVIOUS
<1>1. PICK b \in Caller : Update(b)
  <2>1. ASSUME NEW c \in Caller, CallStep(c), ~Update(c)
        PROVE  flow' = flow
    BY <2>1 DEF CallStep, Publish, GateFlow, Ungate, Begin, KeepLive, FindClean, Insert, Dies
  <2>2. ASSUME NEW r \in Run, RunStep(r)
        PROVE  flow' = flow
    BY <2>2 DEF RunStep, Scan, Enter, ReadFlow, LoadSteps
  <2>3. Edit \/ SetEnabled \/ UNCHANGED vars => flow'.version = flow.version
    BY DEF Edit, SetEnabled, vars, TypeOK
  <2> QED
    BY <2>1, <2>2, <2>3 DEF Next
<1>2. b = a
  BY <1>1 DEF Update, VersionsOf, CallOfVersion
<1>3. flow'.steps = call[a].steps
  BY <1>1, <1>2 DEF Update
<1>4. call[a].read.steps = flow.steps
  BY StillCurrent
<1>5. IsClean(call[a].steps) /\ call[a].steps.body = flow.steps.body
  BY <1>4 DEF Gates, GateCall
<1>6. flow.steps \in Steps /\ call[a].steps \in Steps
  BY DEF TypeOK
<1> QED
  BY <1>3, <1>5, <1>6 DEF IsClean, Steps

-----------------------------------------------------------------------------
(* Theorems.                                                               *)

LEMMA Inductive == Init => IInv
<1>1. ASSUME Init
      PROVE  PinnedSteps
  BY <1>1, FlowVersionsAssumption DEF Init, PinnedSteps, NoRun
<1> QED
  BY <1>1, InitTypes, InitVersions, InitGates DEF IInv

LEMMA Kept == IInv /\ [Next]_vars => IInv'
<1> SUFFICES ASSUME TypeOK, PinnedSteps, NEW first \in Steps, VersionsOf(first), Gates(first), [Next]_vars
             PROVE  IInv'
  BY DEF IInv
<1>1. TypeOK'
  BY TypesKept
<1>2. VersionsOf(first)' /\ Gates(first)' /\ PinnedSteps'
  BY <1>1, VersionsKept, GatesKept, PinnedKept
<1> QED
  BY <1>1, <1>2 DEF IInv

LEMMA Invariant == Spec => []IInv
  BY Inductive, Kept, PTL DEF Spec

\* Types: no version without steps, whoever publishes, gates, dies or enters.
\* (admin.ts publish, arm.ts gateFlow and ungateFlow.)
THEOREM TypeCorrect == Spec => []TypeOK
  BY Invariant, PTL DEF IInv

\* A run is given the steps of the version it entered on, for any number of
\* requests that race to publish the next ones.  (step.ts loadStepsForRun.)
THEOREM RunsKeepTheirVersion == Spec => []PinnedSteps
  BY Invariant, PTL DEF IInv

\* Taking the gate away restores the steps behind it.  (arm.ts ungateFlow.)
THEOREM UngateBringsBack == Spec => UngateRestores
<1>1. IInv /\ [Next]_vars
        => [\A a \in Caller :
              call[a].op = "ungate" /\ call[a].phase = "update" /\ flow'.version # flow.version
                => mixed \/ flow'.steps = [flow.steps EXCEPT !.gated = FALSE]]_vars
  BY RestoresGate DEF IInv
<1> QED
  BY <1>1, Invariant, PTL DEF Spec, UngateRestores
=============================================================================
