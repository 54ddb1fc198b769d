--------------------------- MODULE AnalysisProofs ---------------------------
(***************************************************************************)
(* Proofs about the analysis of requests, for every number of requests,    *)
(* every registry of providers and any changes of readiness.  The          *)
(* invariant says what a request knows of itself where it is, and what the *)
(* trace holds of it: nothing before its append, its entry at the end of   *)
(* the log while the append is under way, and after that the entry that    *)
(* was acknowledged or one that nobody was told of.                        *)
(*                                                                         *)
(* Then the plans and pairs decided before a request runs, and the page of *)
(* the browser where it is asked; the three share no variable.             *)
(***************************************************************************)
EXTENDS Analysis, Decisions, Workspace, SequenceTheorems, FiniteSetTheorems, TLAPS

Entries == [request : Requests, mode : {"live", "cached_result"}, model : BOOLEAN,
            capability : Capabilities]
Pcs == {"idle", "build", "guards", "recheck", "replay", "execute", "infer",
        "append", "fsync", "answered"}

\* The types that the proofs use.
LocalTypes ==
  /\ pc \in [Requests -> Pcs]
  /\ input \in [Requests -> Inputs]
  /\ entry \in [Requests -> Entries \cup {NoEntry}]
  /\ DOMAIN planned = Requests /\ DOMAIN steps = Requests
  /\ DOMAIN fits = Requests /\ DOMAIN ran = Requests /\ DOMAIN status = Requests
TraceTypes ==
  /\ log \in Seq(Entries)
  /\ acked \subseteq Nat \X Entries
  /\ appending \in Requests \cup {Nobody}

\* What the proofs use of the constants.
LEMMA Constants ==
  /\ Inputs \subseteq Input
  /\ \A i \in Inputs : i.combined => i.capability = "change_vqa"
  /\ Nobody \notin Requests
  BY ConstantsAssumption DEF Nobody

-----------------------------------------------------------------------------
\* The plan of every request is well formed: one step, or a change and then
\* its localisation, which waits for it (build_execution_plan, validate_plan).
LEMMA PlansAreValid ==
  ASSUME NEW c \in Capabilities, NEW combined \in BOOLEAN
  PROVE  /\ ValidPlan(PlanSteps(Chain(c, combined)))
         /\ ~combined => SingleStep(PlanSteps(Chain(c, combined)))
<1> DEFINE chain == Chain(c, combined)
           plan == PlanSteps(chain)
<1>1. CASE ~combined
  <2>1. chain = <<c>>  BY <1>1 DEF Chain
  <2>2. /\ DOMAIN plan = {1} /\ Len(plan) = 1
        /\ plan[1] = [id |-> 1, capability |-> c, dependsOn |-> {}, inputs |-> Needs[c]]
    BY <2>1, SMT DEF PlanSteps
  <2> HIDE DEF plan
  <2>3. Ids(plan) = {1} /\ Position(plan, 1) = 1  BY <2>2 DEF Ids, Position
  <2>4. Acyclic(plan)
    <3> SUFFICES ASSUME NEW S \in (SUBSET Ids(plan)) \ {{}}
                 PROVE  \E i \in S : plan[Position(plan, i)].dependsOn \cap S = {}
      BY DEF Acyclic
    <3>1. 1 \in S  BY <2>3
    <3> QED  BY <2>2, <2>3, <3>1
  <2>5. plan # <<>>  BY <2>2, SMT
  <2>6. ValidPlan(plan)  BY <2>2, <2>3, <2>4, <2>5 DEF ValidPlan
  <2> QED  BY <1>1, <2>2, <2>6 DEF SingleStep, plan
<1>2. CASE combined
  <2>1. chain = <<"change_vqa", "grounding">>  BY <1>2 DEF Chain
  <2>2. /\ DOMAIN plan = {1, 2}
        /\ plan[1] = [id |-> 1, capability |-> "change_vqa", dependsOn |-> {},
                      inputs |-> Needs["change_vqa"]]
        /\ plan[2] = [id |-> 2, capability |-> "grounding", dependsOn |-> {1},
                      inputs |-> <<"step_1.output">>]
    BY <2>1, SMT DEF PlanSteps
  <2> HIDE DEF plan
  <2>3. Ids(plan) = {1, 2} /\ Position(plan, 1) = 1 /\ Position(plan, 2) = 2
    BY <2>2 DEF Ids, Position
  <2>4. Acyclic(plan)
    <3> SUFFICES ASSUME NEW S \in (SUBSET Ids(plan)) \ {{}}
                 PROVE  \E i \in S : plan[Position(plan, i)].dependsOn \cap S = {}
      BY DEF Acyclic
    <3>0. 1 \in S \/ S = {2}  BY <2>3
    <3>1. CASE 1 \in S  BY <2>2, <2>3, <3>1
    <3>2. CASE S = {2}  BY <2>2, <2>3, <3>2
    <3> QED  BY <3>0, <3>1, <3>2
  <2>5. plan # <<>>  BY <2>2, SMT
  <2>6. ValidPlan(plan)
    BY <2>2, <2>3, <2>4, <2>5, SMT DEF ValidPlan, Capabilities
  <2> QED  BY <1>2, <2>6 DEF plan
<1> QED  BY <1>1, <1>2

-----------------------------------------------------------------------------
\* What an entry of request r says is so.
Truthful(e, r) ==
  /\ e \in Entries /\ e.request = r
  /\ e.mode = "live" <=> input[r].live
  /\ e.mode = "live" /\ e.model => ran[r] = <<e.capability>>
  /\ e.mode = "live" /\ ~e.model => ran[r] = <<>>
  /\ e.mode = "cached_result" => ran[r] = <<>> /\ ~input[r].live /\ input[r].golden

\* What a request knows of itself, where it is.
Local(r) ==
  /\ status[r] # 0 => pc[r] = "answered"
  /\ pc[r] \notin {"infer", "append", "fsync", "answered"} => ran[r] = <<>>
  /\ pc[r] \in {"recheck", "execute", "infer"} => input[r].live
  /\ pc[r] = "replay" => ~input[r].live
  /\ pc[r] \in {"execute", "infer"} => Executable(r)
  /\ pc[r] = "infer" => ran[r] = <<input[r].capability>>
  /\ ran[r] # <<>> =>
       /\ ran[r] = <<input[r].capability>> /\ input[r].live
       /\ ~MissingInputs(input[r]) /\ ~Unsupported(input[r])
  /\ pc[r] \in {"append", "fsync"} => Truthful(entry[r], r)
LocalInv == \A r \in Requests : Local(r)

\* What the trace holds of the requests.
Recorded(r) ==
  \E k \in DOMAIN log :
    /\ Records(r) = {k} /\ <<k, log[k]>> \in acked
    /\ log[k].model /\ (log[k].mode = "live" <=> input[r].live)
TraceInv ==
  /\ \A r \in Requests : pc[r] = "fsync" <=> appending = r
  /\ \A r \in Requests : pc[r] = "fsync" =>
       log # <<>> /\ log[Len(log)] = entry[r] /\ Records(r) = {Len(log)}
  /\ \A r \in Requests : pc[r] \notin {"fsync", "answered"} => Records(r) = {}
  /\ \A a \in acked : Audit!Holds(log, a)
  /\ \A a \in acked : appending # Nobody => a[1] # Len(log)
  /\ \A k \in DOMAIN log :
       /\ Truthful(log[k], log[k].request)
       /\ ~log[k].model => status[log[k].request] # 200
  /\ \A r \in Requests : status[r] = 200 => Recorded(r)

\* A step of one request leaves the locals of the others.
LEMMA OthersStay ==
  ASSUME LocalTypes, NEW r \in Requests, Step(r)
  PROVE  /\ input' = input
         /\ \A q \in Requests \ {r} :
              /\ pc'[q] = pc[q] /\ planned'[q] = planned[q] /\ steps'[q] = steps[q]
              /\ entry'[q] = entry[q] /\ ran'[q] = ran[q] /\ status'[q] = status[q]
<1> USE DEF Goto, Answer, Unavailable, LocalTypes
<1>1. CASE RefuseQuestion(r) \/ PlanRequest(r) \/ ResolveStep(r)
  BY <1>1 DEF RefuseQuestion, PlanRequest, ResolveStep
<1>2. CASE RefuseInputs(r) \/ SceneMissing(r) \/ PassGuards(r)
  BY <1>2 DEF RefuseInputs, SceneMissing, PassGuards
<1>3. CASE RecheckUnready(r) \/ RecheckReady(r)
  BY <1>3 DEF RecheckUnready, RecheckReady
<1>4. CASE Replay(r) \/ ArtifactInvalid(r) \/ NoReplay(r)
  BY <1>4 DEF Replay, ArtifactInvalid, NoReplay
<1>5. CASE InputsMissing(r) \/ ProviderLost(r) \/ Invoke(r)
  BY <1>5 DEF InputsMissing, ProviderLost, Invoke
<1>6. CASE Result(r) \/ Late(r) \/ NoResult(r)
  BY <1>6 DEF Result, Late, NoResult
<1>7. CASE AppendRefused(r) \/ AppendRecord(r) \/ Acknowledge(r) \/ AppendFails(r)
  BY <1>7 DEF AppendRefused, AppendRecord, Acknowledge, AppendFails
<1> QED  BY <1>1, <1>2, <1>3, <1>4, <1>5, <1>6, <1>7 DEF Step

\* A request whose locals stay knows what it knew.
LEMMA LocalStays ==
  ASSUME input' = input, NEW q \in Requests, Local(q),
         pc'[q] = pc[q], planned'[q] = planned[q], steps'[q] = steps[q],
         entry'[q] = entry[q], ran'[q] = ran[q], status'[q] = status[q]
  PROVE  Local(q)'
  BY DEF Local, Truthful, Executable, PlanExecutable

\* A request that is answered, having run what it had run.
LEMMA AnsweredKnows ==
  ASSUME LocalTypes, NEW r \in Requests, NEW code, Local(r), Answer(r, code),
         UNCHANGED <<input, ran>>
  PROVE  Local(r)'
<1>1. pc'[r] = "answered" /\ status'[r] = code  BY DEF Answer, Goto, LocalTypes
<1> QED  BY <1>1 DEF Local
\* The first step of a plan is of the capability that was selected.
LEMMA FirstStep ==
  ASSUME NEW i \in Inputs
  PROVE  Capability(i)[1] = i.capability /\ i.capability \in Capabilities
<1>1. i \in Input  BY Constants
<1>2. i.capability \in Capabilities  BY <1>1 DEF Input
<1>3. CASE i.combined  BY <1>2, <1>3, Constants DEF Capability, Chain
<1>4. CASE ~i.combined  BY <1>2, <1>4 DEF Capability, Chain
<1> QED  BY <1>2, <1>3, <1>4

\* The entries that requests append are entries of the trace.
LEMMA EntryTypes ==
  ASSUME NEW r \in Requests, NEW c \in Capabilities
  PROVE  /\ [request |-> r, mode |-> "live", model |-> FALSE, capability |-> c] \in Entries
         /\ [request |-> r, mode |-> "live", model |-> TRUE, capability |-> c] \in Entries
         /\ [request |-> r, mode |-> "cached_result", model |-> TRUE,
             capability |-> "single_image_vqa"] \in Entries
  BY DEF Entries, Capabilities

\* The locals keep their types.
LEMMA LocalTypesStep == LocalTypes /\ [Next]_vars => LocalTypes'
<1> SUFFICES ASSUME LocalTypes, [Next]_vars PROVE LocalTypes'  OBVIOUS
<1>1. CASE UNCHANGED vars  BY <1>1 DEF vars, shared, locals, LocalTypes
<1>2. CASE Flip  BY <1>2 DEF Flip, locals, LocalTypes
<1>3. ASSUME NEW r \in Requests, Step(r) PROVE LocalTypes'
  <2> USE DEF Goto, Answer, LocalTypes
  <2>a. Capability(input[r])[1] \in Capabilities /\ input[r].capability \in Capabilities
    BY FirstStep
  <2>1. CASE RefuseQuestion(r) \/ PlanRequest(r) \/ ResolveStep(r)
    BY <2>1 DEF RefuseQuestion, PlanRequest, ResolveStep, Pcs
  <2>2. CASE RefuseInputs(r) \/ SceneMissing(r) \/ PassGuards(r)
    BY <2>2 DEF RefuseInputs, SceneMissing, PassGuards, Pcs
  <2>3. CASE RecheckReady(r) \/ ArtifactInvalid(r) \/ NoReplay(r)
    BY <2>3 DEF RecheckReady, ArtifactInvalid, NoReplay, Pcs
  <2>4. CASE InputsMissing(r) \/ Invoke(r) \/ Late(r) \/ NoResult(r)
    BY <2>4 DEF InputsMissing, Invoke, Late, NoResult, Pcs
  <2>5. CASE AppendRefused(r) \/ AppendRecord(r) \/ Acknowledge(r) \/ AppendFails(r)
    BY <2>5 DEF AppendRefused, AppendRecord, Acknowledge, AppendFails, Pcs
  <2>6. CASE RecheckUnready(r) \/ ProviderLost(r) \/ Replay(r) \/ Result(r)
    <3>1. PICK e \in Entries : entry' = [entry EXCEPT ![r] = e]
      BY <2>6, <2>a, EntryTypes DEF RecheckUnready, ProviderLost, Unavailable,
                                    Replay, Result
    <3>2. pc' = [pc EXCEPT ![r] = "append"]
      BY <2>6 DEF RecheckUnready, ProviderLost, Unavailable, Replay, Result
    <3>3. UNCHANGED <<input, planned, steps, ran, status>> /\ DOMAIN fits' = DOMAIN fits
      BY <2>6 DEF RecheckUnready, ProviderLost, Unavailable, Replay, Result
    <3> QED  BY <3>1, <3>2, <3>3 DEF Pcs
  <2> QED  BY <1>3, <2>1, <2>2, <2>3, <2>4, <2>5, <2>6 DEF Step
<1> QED  BY <1>1, <1>2, <1>3 DEF Next

\* Every step keeps what each request knows.
LEMMA LocalStep == LocalTypes /\ LocalInv /\ [Next]_vars => LocalInv'
<1> SUFFICES ASSUME LocalTypes, LocalInv, [Next]_vars, NEW q \in Requests PROVE Local(q)'
  BY DEF LocalInv
<1>0. Local(q)  BY DEF LocalInv
<1>1. CASE UNCHANGED vars \/ Flip
  <2>1. UNCHANGED <<input, pc, planned, steps, entry, ran, status>>
    BY <1>1 DEF vars, shared, locals, Flip
  <2> QED  BY <1>0, <2>1, LocalStays
<1>2. ASSUME NEW r \in Requests, Step(r), r # q PROVE Local(q)'
  BY <1>0, <1>2, OthersStay, LocalStays
<1>3. ASSUME Step(q) PROVE Local(q)'
  <2> USE DEF Goto, LocalTypes
  <2>a. input[q] \in Input /\ Capability(input[q])[1] = input[q].capability
        /\ input[q].capability \in Capabilities
    BY Constants, FirstStep
  <2>1. CASE \/ RefuseQuestion(q) \/ RefuseInputs(q) \/ SceneMissing(q) \/ RecheckReady(q)
             \/ ArtifactInvalid(q) \/ InputsMissing(q) \/ Late(q) \/ NoResult(q)
             \/ AppendRefused(q) \/ Acknowledge(q) \/ AppendFails(q) \/ NoReplay(q)
    <3>1. PICK code : Answer(q, code) /\ UNCHANGED <<input, ran>>
      BY <2>1 DEF RefuseQuestion, RefuseInputs, SceneMissing, RecheckReady,
                  ArtifactInvalid, InputsMissing, Late, NoResult, AppendRefused,
                  Acknowledge, AppendFails, NoReplay
    <3> QED  BY <1>0, <3>1, AnsweredKnows
  <2>2. CASE PlanRequest(q) \/ ResolveStep(q)
    <3>1. pc'[q] \in {"build", "guards"} /\ pc[q] \in {"idle", "build"}
          /\ UNCHANGED <<input, ran, status>>
      BY <2>2 DEF PlanRequest, ResolveStep
    <3> QED  BY <1>0, <3>1 DEF Local
  <2>3. CASE PassGuards(q)
    <3>1. /\ pc[q] = "guards" /\ UNCHANGED <<input, ran, status, planned, steps>>
          /\ pc'[q] = IF ~input[q].live THEN "replay"
                      ELSE IF Executable(q) THEN "execute" ELSE "recheck"
      BY <2>3 DEF PassGuards
    <3> QED  BY <1>0, <3>1 DEF Local, Executable, PlanExecutable
  <2>4. CASE RecheckUnready(q) \/ ProviderLost(q)
    <3>1. PICK c \in Capabilities :
            entry' = [entry EXCEPT ![q] =
              [request |-> q, mode |-> "live", model |-> FALSE, capability |-> c]]
      BY <2>4, <2>a DEF RecheckUnready, ProviderLost, Unavailable
    <3>2. pc[q] \in {"recheck", "execute"} /\ pc'[q] = "append"
          /\ UNCHANGED <<input, ran, status>>
      BY <2>4 DEF RecheckUnready, ProviderLost, Unavailable
    <3>3. entry'[q] = [request |-> q, mode |-> "live", model |-> FALSE, capability |-> c]
      BY <3>1
    <3>4. Truthful(entry[q], q)'
      <4>1. ran'[q] = <<>> /\ input'[q].live  BY <1>0, <3>2 DEF Local
      <4>2. PICK e \in Entries : /\ e = entry'[q] /\ e.request = q /\ e.mode = "live"
                                 /\ ~e.model /\ e.capability = c
        BY <3>3, EntryTypes
      <4>3. (e.mode = "live") <=> input'[q].live  BY <4>1, <4>2
      <4> QED  BY <4>1, <4>2, <4>3 DEF Truthful
    <3> QED  BY <1>0, <3>2, <3>4 DEF Local
  <2>5. CASE Replay(q)
    <3>1. /\ entry'[q] = [request |-> q, mode |-> "cached_result", model |-> TRUE,
                          capability |-> "single_image_vqa"]
          /\ pc[q] = "replay" /\ pc'[q] = "append" /\ input[q].golden
          /\ UNCHANGED <<input, ran, status>>
      BY <2>5 DEF Replay
    <3>2. Truthful(entry[q], q)'
      <4>1. ran'[q] = <<>> /\ ~input'[q].live /\ input'[q].golden
        BY <1>0, <3>1 DEF Local
      <4>2. PICK e \in Entries : /\ e = entry'[q] /\ e.request = q
                                 /\ e.mode = "cached_result"
        BY <2>a, <3>1, EntryTypes
      <4>3. (e.mode = "live") <=> input'[q].live  BY <4>1, <4>2
      <4> QED  BY <4>1, <4>2, <4>3 DEF Truthful
    <3> QED  BY <1>0, <3>1, <3>2 DEF Local
  <2>6. CASE Invoke(q)
    <3>1. /\ pc[q] = "execute" /\ pc'[q] = "infer" /\ MayExecute(q)
          /\ ran' = [ran EXCEPT ![q] = Append(@, Capability(input[q])[1])]
          /\ UNCHANGED <<input, status, planned, steps>>
      BY <2>6 DEF Invoke
    <3>2. ran'[q] = <<input[q].capability>>
      <4>1. ran[q] = <<>>  BY <1>0, <3>1 DEF Local
      <4> QED  BY <2>a, <3>1, <4>1
    <3>3. Executable(q)' /\ PlanExecutable(q)
      BY <1>0, <3>1 DEF Local, Executable, PlanExecutable
    <3> QED  BY <1>0, <3>1, <3>2, <3>3 DEF Local, PlanExecutable
  <2>7. CASE Result(q)
    <3>1. /\ entry'[q] = [request |-> q, mode |-> "live", model |-> TRUE,
                          capability |-> input[q].capability]
          /\ pc[q] = "infer" /\ pc'[q] = "append" /\ UNCHANGED <<input, ran, status>>
      BY <2>7, <2>a DEF Result
    <3>2. Truthful(entry[q], q)'
      <4>1. ran'[q] = <<input[q].capability>> /\ input'[q].live
        BY <1>0, <3>1 DEF Local
      <4>2. PICK e \in Entries : /\ e = entry'[q] /\ e.request = q /\ e.mode = "live"
                                 /\ e.model /\ e.capability = input[q].capability
        BY <2>a, <3>1, EntryTypes
      <4>3. (e.mode = "live") <=> input'[q].live  BY <4>1, <4>2
      <4> QED  BY <4>1, <4>2, <4>3 DEF Truthful
    <3> QED  BY <1>0, <3>1, <3>2 DEF Local
  <2>8. CASE AppendRecord(q)
    <3>1. /\ pc[q] = "append" /\ pc'[q] = "fsync"
          /\ UNCHANGED <<input, ran, status, entry>>
      BY <2>8 DEF AppendRecord
    <3> QED  BY <1>0, <3>1 DEF Local, Truthful
  <2> QED  BY <1>3, <2>1, <2>2, <2>3, <2>4, <2>5, <2>6, <2>7, <2>8 DEF Step
<1> QED  BY <1>1, <1>2, <1>3 DEF Next
-----------------------------------------------------------------------------
\* Every entry of the trace is of a request.
LEMMA LogEntries ==
  ASSUME TraceTypes, NEW k \in DOMAIN log
  PROVE  log[k] \in Entries /\ log[k].request \in Requests
<1>1. log[k] \in Entries  BY SMT DEF TraceTypes
<1> QED  BY <1>1 DEF Entries

\* A step outside the append leaves what the trace holds, as the request it is
\* of has nothing in it yet.
LEMMA TraceStays ==
  ASSUME LocalTypes, TraceTypes, TraceInv, NEW r \in Requests,
         UNCHANGED <<input, log, acked, appending>>,
         pc[r] \notin {"fsync", "answered"}, pc'[r] # "fsync", status'[r] # 200,
         \A q \in Requests \ {r} : /\ pc'[q] = pc[q] /\ entry'[q] = entry[q]
                                  /\ ran'[q] = ran[q] /\ status'[q] = status[q]
  PROVE  TraceInv'
<1>0. Records(r) = {}  BY DEF TraceInv
<1>1. \A k \in DOMAIN log : log[k].request \in Requests \ {r}
  <2> TAKE k \in DOMAIN log
  <2> QED  BY <1>0, LogEntries DEF Records
<1>2. \A q \in Requests : Records(q)' = Records(q)  BY DEF Records
<1>3. \A q \in Requests : pc'[q] = "fsync" <=> appending' = q
  BY DEF TraceInv
<1>4. \A q \in Requests : pc'[q] = "fsync" =>
        /\ log' # <<>> /\ log'[Len(log')] = entry'[q] /\ Records(q)' = {Len(log')}
  BY <1>2 DEF TraceInv
<1>5. \A q \in Requests : pc'[q] \notin {"fsync", "answered"} => Records(q)' = {}
  BY <1>0, <1>2 DEF TraceInv
<1>6. /\ \A a \in acked' : Audit!Holds(log', a)
      /\ \A a \in acked' : appending' # Nobody => a[1] # Len(log')
  BY DEF TraceInv
<1>7. ASSUME NEW k \in DOMAIN log'
      PROVE  /\ Truthful(log[k], log[k].request)'
             /\ ~log'[k].model => status'[log'[k].request] # 200
  <2>1. /\ Truthful(log[k], log[k].request)
        /\ ~log[k].model => status[log[k].request] # 200
    BY DEF TraceInv
  <2> QED  BY <1>1, <2>1 DEF Truthful
<1>8. \A q \in Requests : status'[q] = 200 => Recorded(q)'
  BY <1>2 DEF TraceInv, Recorded
<1> QED  BY <1>3, <1>4, <1>5, <1>6, <1>7, <1>8 DEF TraceInv

\* append_record, up to the fsync: the entry is the last one of the log.
LEMMA AppendKeeps ==
  ASSUME LocalTypes, TraceTypes, LocalInv, TraceInv, NEW r \in Requests,
         AppendRecord(r)
  PROVE  TraceTypes' /\ TraceInv'
<1>a. /\ pc[r] = "append" /\ pc'[r] = "fsync" /\ appending = Nobody /\ appending' = r
      /\ log' = Append(log, entry[r])
      /\ UNCHANGED <<input, acked, entry, ran, status>>
      /\ \A q \in Requests \ {r} : pc'[q] = pc[q]
  BY DEF AppendRecord, Goto, LocalTypes
<1>b. Truthful(entry[r], r) /\ status[r] = 0  BY <1>a DEF LocalInv, Local
<1>c. entry[r] \in Entries /\ entry[r].request = r  BY <1>b DEF Truthful
<1>d. /\ log' \in Seq(Entries) /\ Len(log') = Len(log) + 1
      /\ DOMAIN log' = DOMAIN log \cup {Len(log')}
      /\ log'[Len(log')] = entry[r] /\ Len(log') \notin DOMAIN log
      /\ \A k \in DOMAIN log : log'[k] = log[k]
  BY <1>a, <1>c, SMT DEF TraceTypes
<1>1. TraceTypes'  BY <1>a, <1>d DEF TraceTypes
<1>2. Records(r)' = {Len(log')}
  <2>1. Records(r) = {}  BY <1>a DEF TraceInv
  <2> QED  BY <1>c, <1>d, <2>1 DEF Records
<1>3. \A q \in Requests \ {r} : Records(q)' = Records(q)
  BY <1>c, <1>d DEF Records
<1>4. \A q \in Requests : pc'[q] = "fsync" <=> appending' = q
  <2>1. \A q \in Requests : pc[q] # "fsync"  BY <1>a, Constants DEF TraceInv
  <2> QED  BY <1>a, <2>1
<1>5. \A q \in Requests : pc'[q] = "fsync" =>
        /\ log' # <<>> /\ log'[Len(log')] = entry'[q] /\ Records(q)' = {Len(log')}
  BY <1>a, <1>d, <1>2, <1>4, SMT
<1>6. \A q \in Requests : pc'[q] \notin {"fsync", "answered"} => Records(q)' = {}
  BY <1>a, <1>3 DEF TraceInv
<1>7. ASSUME NEW a \in acked'
      PROVE  Audit!Holds(log', a) /\ a[1] # Len(log')
  <2>1. a[1] \in DOMAIN log /\ log[a[1]] = a[2]
    BY <1>a DEF TraceInv, Audit!Holds
  <2> QED  BY <1>d, <2>1 DEF Audit!Holds
<1>8. ASSUME NEW k \in DOMAIN log'
      PROVE  /\ Truthful(log[k], log[k].request)'
             /\ ~log'[k].model => status'[log'[k].request] # 200
  <2>1. CASE k \in DOMAIN log
    <3>1. /\ Truthful(log[k], log[k].request)
          /\ ~log[k].model => status[log[k].request] # 200
      BY <2>1 DEF TraceInv
    <3> QED  BY <1>a, <1>d, <2>1, <3>1 DEF Truthful
  <2>2. CASE k = Len(log')  BY <1>a, <1>b, <1>c, <1>d, <2>2 DEF Truthful
  <2> QED  BY <1>d, <2>1, <2>2
<1>9. ASSUME NEW q \in Requests, status'[q] = 200 PROVE Recorded(q)'
  <2>1. q # r /\ status[q] = 200  BY <1>a, <1>b, <1>9
  <2>2. PICK k \in DOMAIN log :
          /\ Records(q) = {k} /\ <<k, log[k]>> \in acked
          /\ log[k].model /\ (log[k].mode = "live" <=> input[q].live)
    BY <2>1 DEF TraceInv, Recorded
  <2>3. k \in DOMAIN log' /\ log'[k] = log[k] /\ Records(q)' = {k}
    BY <1>3, <1>d, <2>1, <2>2
  <2>4. log'[k].model /\ (log'[k].mode = "live" <=> input'[q].live)
    BY <1>a, <2>2, <2>3
  <2> QED  BY <1>a, <2>2, <2>3, <2>4 DEF Recorded
<1> QED  BY <1>1, <1>4, <1>5, <1>6, <1>7, <1>8, <1>9 DEF TraceInv

\* The append is acknowledged, and its request answered.
LEMMA AcknowledgeKeeps ==
  ASSUME LocalTypes, TraceTypes, LocalInv, TraceInv, NEW r \in Requests,
         Acknowledge(r)
  PROVE  TraceTypes' /\ TraceInv'
<1>a. /\ pc[r] = "fsync" /\ pc'[r] = "answered" /\ appending' = Nobody
      /\ acked' = acked \cup {<<Len(log), log[Len(log)]>>}
      /\ UNCHANGED <<input, log, entry, ran>>
      /\ \A q \in Requests \ {r} : pc'[q] = pc[q] /\ status'[q] = status[q]
      /\ status'[r] = 200 => entry[r].model
  <2>1. status' = [status EXCEPT ![r] = IF ~entry[r].model THEN 503
                                       ELSE IF fits[r] THEN 200 ELSE 502]
    BY DEF Acknowledge, Answer
  <2>2. status'[r] = 200 => entry[r].model  BY <2>1 DEF LocalTypes
  <2> QED  BY <2>1, <2>2 DEF Acknowledge, Answer, Goto, LocalTypes
<1>b. /\ appending = r /\ log # <<>> /\ log[Len(log)] = entry[r]
      /\ Records(r) = {Len(log)}
  BY <1>a DEF TraceInv
<1>c. Truthful(entry[r], r)  BY <1>a DEF LocalInv, Local
<1>d. Len(log) \in DOMAIN log /\ Len(log) \in Nat /\ log[Len(log)] \in Entries
  BY <1>b, SMT DEF TraceTypes
<1>1. TraceTypes'  BY <1>a, <1>d DEF TraceTypes
<1>2. \A q \in Requests : Records(q)' = Records(q)  BY <1>a DEF Records
<1>3. \A q \in Requests : pc'[q] # "fsync"
  BY <1>a, <1>b DEF TraceInv
<1>4. \A q \in Requests : pc'[q] = "fsync" <=> appending' = q
  BY <1>a, <1>3, Constants
<1>5. \A q \in Requests : pc'[q] \notin {"fsync", "answered"} => Records(q)' = {}
  BY <1>a, <1>2 DEF TraceInv
<1>6. \A a \in acked' : Audit!Holds(log', a)
  BY <1>a, <1>d DEF TraceInv, Audit!Holds
<1>7. ASSUME NEW k \in DOMAIN log'
      PROVE  /\ Truthful(log[k], log[k].request)'
             /\ ~log'[k].model => status'[log'[k].request] # 200
  <2>1. /\ Truthful(log[k], log[k].request)
        /\ ~log[k].model => status[log[k].request] # 200
    BY <1>a DEF TraceInv
  <2>2. log[k].request \in Requests  BY <1>a, LogEntries
  <2>3. log[k].request = r => k = Len(log)
    BY <1>a, <1>b DEF Records
  <2> QED  BY <1>a, <1>b, <2>1, <2>2, <2>3 DEF Truthful
<1>8. ASSUME NEW q \in Requests, status'[q] = 200 PROVE Recorded(q)'
  <2>1. CASE q = r
    <3>1. entry[r].model /\ (entry[r].mode = "live" <=> input[r].live)
      BY <1>a, <1>c, <1>8, <2>1 DEF Truthful
    <3>2. <<Len(log), log[Len(log)]>> \in acked'  BY <1>a
    <3> QED  BY <1>a, <1>b, <1>d, <1>2, <2>1, <3>1, <3>2 DEF Recorded
  <2>2. CASE q # r
    <3>1. Recorded(q)  BY <1>a, <1>8, <2>2 DEF TraceInv
    <3> QED  BY <1>a, <1>2, <3>1 DEF Recorded
  <2> QED  BY <2>1, <2>2
<1> QED  BY <1>1, <1>3, <1>4, <1>5, <1>6, <1>7, <1>8, <1>a DEF TraceInv

\* The log without its last entry.
LEMMA WithoutLast ==
  ASSUME NEW l \in Seq(Entries), l # <<>>
  PROVE  /\ SubSeq(l, 1, Len(l) - 1) \in Seq(Entries)
         /\ Len(SubSeq(l, 1, Len(l) - 1)) = Len(l) - 1
         /\ DOMAIN SubSeq(l, 1, Len(l) - 1) = DOMAIN l \ {Len(l)}
         /\ \A k \in DOMAIN l \ {Len(l)} : SubSeq(l, 1, Len(l) - 1)[k] = l[k]
         /\ Len(l) - 1 \in 0 .. Len(l)
<1> DEFINE n == Len(l) - 1
<1>1. Len(l) \in Nat \ {0} /\ DOMAIN l = 1 .. Len(l)
  BY EmptySeq, LenProperties
<1>2. n \in 0 .. Len(l) /\ 1 .. n = DOMAIN l \ {Len(l)}  BY <1>1
<1>3. \A k \in 1 .. n : l[k] \in Entries  BY <1>1, <1>2, ElementOfSeq
<1> HIDE DEF n
<1>4. SubSeq(l, 1, n) = [k \in 1 .. n |-> l[k]]
  BY <1>1, <1>2, SMT
<1>5. Len(SubSeq(l, 1, n)) = n  BY <1>1, <1>2, <1>4, SMT
<1>6. SubSeq(l, 1, n) \in Seq(Entries)  BY <1>1, <1>2, <1>3, <1>4, SMT
<1> QED  BY <1>1, <1>2, <1>4, <1>5, <1>6 DEF n

\* The log with an entry at its end.
LEMMA AppendIsWhole ==
  ASSUME NEW l \in Seq(Entries), NEW e \in Entries
  PROVE  /\ Len(Append(l, e)) = Len(l) + 1
         /\ Append(l, e)[Len(Append(l, e))] = e
         /\ SubSeq(Append(l, e), 1, Len(l)) = l
  BY SMT

\* The append fails: its entry stays or goes, and its request is refused.
LEMMA FailureKeeps ==
  ASSUME LocalTypes, TraceTypes, LocalInv, TraceInv, NEW r \in Requests,
         AppendFails(r)
  PROVE  TraceTypes' /\ TraceInv'
<1>a. /\ pc[r] = "fsync" /\ pc'[r] = "answered" /\ appending' = Nobody
      /\ log' \in {log, SubSeq(log, 1, Len(log) - 1)}
      /\ UNCHANGED <<input, acked, entry, ran>>
      /\ \A q \in Requests \ {r} : pc'[q] = pc[q] /\ status'[q] = status[q]
      /\ status'[r] = 503
  BY DEF AppendFails, Answer, Goto, LocalTypes
<1>b. /\ appending = r /\ log # <<>> /\ log[Len(log)] = entry[r]
      /\ Records(r) = {Len(log)}
  BY <1>a DEF TraceInv
<1>d. /\ log' \in Seq(Entries)
      /\ DOMAIN log' \subseteq DOMAIN log
      /\ \A k \in DOMAIN log : k # Len(log) => k \in DOMAIN log'
      /\ \A k \in DOMAIN log' : log'[k] = log[k]
  <2>1. CASE log' = log  BY <2>1 DEF TraceTypes
  <2>2. CASE log' = SubSeq(log, 1, Len(log) - 1)
    BY <1>b, <2>2, WithoutLast DEF TraceTypes
  <2> QED  BY <1>a, <2>1, <2>2
<1>1. TraceTypes'  BY <1>a, <1>d DEF TraceTypes
<1>2. \A q \in Requests \ {r} : Records(q)' = Records(q)
  <2> TAKE q \in Requests \ {r}
  <2>1. Len(log) \in Records(r)  BY <1>b
  <2>2. Len(log) \notin Records(q)  BY <2>1 DEF Records
  <2> QED  BY <1>d, <2>2 DEF Records
<1>3. \A q \in Requests : pc'[q] # "fsync"
  BY <1>a, <1>b DEF TraceInv
<1>4. \A q \in Requests : pc'[q] = "fsync" <=> appending' = q
  BY <1>a, <1>3, Constants
<1>5. \A q \in Requests : pc'[q] \notin {"fsync", "answered"} => Records(q)' = {}
  BY <1>a, <1>2 DEF TraceInv
<1>6. \A a \in acked' : Audit!Holds(log', a)
  <2> TAKE a \in acked'
  <2>1. a[1] \in DOMAIN log /\ log[a[1]] = a[2] /\ a[1] # Len(log)
    BY <1>a, <1>b, Constants DEF TraceInv, Audit!Holds
  <2> QED  BY <1>d, <2>1 DEF Audit!Holds
<1>7. ASSUME NEW k \in DOMAIN log'
      PROVE  /\ Truthful(log[k], log[k].request)'
             /\ ~log'[k].model => status'[log'[k].request] # 200
  <2>1. /\ Truthful(log[k], log[k].request)
        /\ ~log[k].model => status[log[k].request] # 200
    BY <1>d DEF TraceInv
  <2>2. log[k].request \in Requests /\ log'[k] = log[k]
    BY <1>d, LogEntries
  <2> QED  BY <1>a, <2>1, <2>2 DEF Truthful
<1>8. ASSUME NEW q \in Requests, status'[q] = 200 PROVE Recorded(q)'
  <2>1. q # r /\ status[q] = 200  BY <1>a, <1>8
  <2>2. PICK k \in DOMAIN log :
          /\ Records(q) = {k} /\ <<k, log[k]>> \in acked
          /\ log[k].model /\ (log[k].mode = "live" <=> input[q].live)
    BY <2>1 DEF TraceInv, Recorded
  <2>3. k \in DOMAIN log' /\ log'[k] = log[k] /\ Records(q)' = {k}
    <3>1. Records(q)' = {k}  BY <1>2, <2>1, <2>2
    <3>2. k \in DOMAIN log'  BY <3>1 DEF Records
    <3> QED  BY <1>d, <3>1, <3>2
  <2>4. log'[k].model /\ (log'[k].mode = "live" <=> input'[q].live)
    BY <1>a, <2>2, <2>3
  <2> QED  BY <1>a, <2>2, <2>3, <2>4 DEF Recorded
<1> QED  BY <1>1, <1>3, <1>4, <1>5, <1>6, <1>7, <1>8, <1>a DEF TraceInv

\* Every step keeps what the trace holds.
LEMMA TraceStep ==
  LocalTypes /\ TraceTypes /\ LocalInv /\ TraceInv /\ [Next]_vars
    => TraceTypes' /\ TraceInv'
<1> SUFFICES ASSUME LocalTypes, TraceTypes, LocalInv, TraceInv, [Next]_vars
             PROVE  TraceTypes' /\ TraceInv'
  OBVIOUS
<1>1. CASE UNCHANGED vars \/ Flip
  <2>1. UNCHANGED <<input, pc, entry, ran, status, log, acked, appending>>
    BY <1>1 DEF vars, shared, locals, Flip
  <2>2. TraceTypes'  BY <2>1 DEF TraceTypes
  <2>3. TraceInv'
    BY <2>1 DEF TraceInv, Truthful, Records, Recorded
  <2> QED  BY <2>2, <2>3
<1>2. ASSUME NEW r \in Requests, Step(r) PROVE TraceTypes' /\ TraceInv'
  <2>1. CASE AppendRecord(r)  BY <2>1, AppendKeeps
  <2>2. CASE Acknowledge(r)  BY <2>2, AcknowledgeKeeps
  <2>3. CASE AppendFails(r)  BY <2>3, FailureKeeps
  <2>4. CASE ~(AppendRecord(r) \/ Acknowledge(r) \/ AppendFails(r))
    <3> USE DEF Goto, Answer, LocalTypes
    <3>a. Local(r)  BY DEF LocalInv
    <3>1. /\ UNCHANGED <<log, acked, appending>>
          /\ pc[r] \notin {"fsync", "answered"} /\ pc'[r] # "fsync"
          /\ status'[r] # status[r] => status'[r] # 200
      <4>1. CASE RefuseQuestion(r) \/ PlanRequest(r) \/ ResolveStep(r)
        BY <4>1 DEF RefuseQuestion, PlanRequest, ResolveStep, shared
      <4>2. CASE RefuseInputs(r) \/ SceneMissing(r) \/ PassGuards(r)
        BY <4>2 DEF RefuseInputs, SceneMissing, PassGuards, shared
      <4>3. CASE RecheckUnready(r) \/ RecheckReady(r)
        BY <4>3 DEF RecheckUnready, RecheckReady, Unavailable, shared
      <4>4. CASE Replay(r) \/ ArtifactInvalid(r) \/ NoReplay(r)
        BY <4>4 DEF Replay, ArtifactInvalid, NoReplay, shared
      <4>5. CASE InputsMissing(r) \/ ProviderLost(r) \/ Invoke(r)
        BY <4>5 DEF InputsMissing, ProviderLost, Invoke, Unavailable, shared
      <4>6. CASE Result(r) \/ Late(r) \/ NoResult(r)
        BY <4>6 DEF Result, Late, NoResult, shared
      <4>7. CASE AppendRefused(r)  BY <4>7 DEF AppendRefused, shared
      <4> QED
        BY <1>2, <2>4, <4>1, <4>2, <4>3, <4>4, <4>5, <4>6, <4>7 DEF Step
    <3>2. status[r] = 0  BY <3>a, <3>1 DEF Local
    <3>3. status'[r] # 200  BY <3>1, <3>2
    <3>4. TraceInv'  BY <1>2, <3>1, <3>3, OthersStay, TraceStays
    <3> QED  BY <3>1, <3>4 DEF TraceTypes
  <2> QED  BY <2>1, <2>2, <2>3, <2>4
<1> QED  BY <1>1, <1>2 DEF Next

-----------------------------------------------------------------------------
\* The inductive invariant.
IInv == LocalTypes /\ TraceTypes /\ LocalInv /\ TraceInv

LEMMA InitInv == Init => IInv
<1> SUFFICES ASSUME Init PROVE IInv  OBVIOUS
<1> USE DEF Init
<1>1. LocalTypes  BY DEF LocalTypes, Pcs
<1>2. log = <<>> /\ DOMAIN log = {} /\ acked = {}  BY EmptySeq
<1>3. TraceTypes  BY <1>2, EmptySeq DEF TraceTypes
<1>4. LocalInv  BY DEF LocalInv, Local
<1>5. \A r \in Requests : Records(r) = {}  BY <1>2 DEF Records
<1>6. TraceInv
  BY <1>2, <1>5, Constants DEF TraceInv
<1> QED  BY <1>1, <1>3, <1>4, <1>6 DEF IInv

LEMMA Invariance == Spec => []IInv
<1>1. IInv /\ [Next]_vars => IInv'
  BY LocalTypesStep, LocalStep, TraceStep DEF IInv
<1> QED  BY <1>1, InitInv, PTL DEF Spec

\* A client that gets an answer has exactly one record of it in the trace,
\* acknowledged and of the mode it asked for (analyze_scene, append_record).
THEOREM AnswersAreRecorded == Spec => []AnswerIsRecorded
<1>1. IInv => AnswerIsRecorded
  BY DEF IInv, TraceInv, Recorded, AnswerIsRecorded
<1> QED  BY <1>1, Invariance, PTL

\* The trace holds no record of what did not happen, whatever fails and
\* however many requests run (execute_plan, _record_unavailable,
\* _cached_response).
THEOREM RecordsAreTrue == Spec => []RecordIsTrue
<1>1. IInv => RecordIsTrue
  BY DEF IInv, TraceInv, Truthful, RecordIsTrue
<1> QED  BY <1>1, Invariance, PTL

\* A model runs at most once for a request, the one selected, and only for a
\* request that can be served as a whole; execute_plan refuses nothing that
\* analyze_scene lets through.
THEOREM RunsAreSupported == Spec => []RunIsSupported
<1>1. ASSUME IInv, NEW r \in Requests
      PROVE  /\ pc[r] = "guards" => ValidPlan(PlanSteps(Capability(input[r])))
             /\ pc[r] = "execute" => MayExecute(r)
             /\ ran[r] # <<>> =>
                  /\ ran[r] = <<input[r].capability>>
                  /\ input[r].live /\ ~input[r].combined
                  /\ input[r].capability = "single_image_vqa" => ~input[r].sar
                  /\ input[r].capability \in PairCapabilities => input[r].pair
  <2>1. input[r] \in Input  BY <1>1, Constants DEF IInv, LocalTypes
  <2>2. input[r].capability \in Capabilities /\ input[r].combined \in BOOLEAN
    BY <2>1 DEF Input
  <2>3. /\ ValidPlan(PlanSteps(Capability(input[r])))
        /\ ~input[r].combined => SingleStep(PlanSteps(Capability(input[r])))
    BY <2>2, PlansAreValid DEF Capability
  <2>4. Local(r)  BY <1>1 DEF IInv, LocalInv
  <2>5. ASSUME pc[r] = "execute" PROVE MayExecute(r)
    <3>1. Executable(r)  BY <2>4, <2>5 DEF Local
    <3>2. ~input[r].combined  BY <3>1 DEF Executable, PlanExecutable, Unsupported
    <3> QED  BY <2>3, <3>1, <3>2 DEF MayExecute, Executable
  <2>6. ASSUME ran[r] # <<>>
        PROVE  /\ ran[r] = <<input[r].capability>>
               /\ input[r].live /\ ~input[r].combined
               /\ input[r].capability = "single_image_vqa" => ~input[r].sar
               /\ input[r].capability \in PairCapabilities => input[r].pair
    BY <2>4, <2>6 DEF Local, Unsupported, MissingInputs
  <2> QED  BY <2>3, <2>5, <2>6
<1>2. IInv => RunIsSupported  BY <1>1 DEF RunIsSupported
<1> QED  BY <1>2, Invariance, PTL

-----------------------------------------------------------------------------
\* Every step on the trace is one that AuditLog allows, or leaves it alone.
LEMMA StepsUseTrace ==
  IInv /\ [Next]_vars => [Audit!Next]_<<log, acked>>
<1> SUFFICES ASSUME IInv, [Next]_vars, ~UNCHANGED <<log, acked>> PROVE Audit!Next
  OBVIOUS
<1>1. CASE UNCHANGED vars \/ Flip  BY <1>1 DEF vars, shared, Flip
<1>2. ASSUME NEW r \in Requests, Step(r) PROVE Audit!Next
  <2>1. CASE AppendRecord(r)
    <3>1. pc[r] = "append" /\ log' = Append(log, entry[r]) /\ UNCHANGED acked
      BY <2>1 DEF AppendRecord
    <3>2. entry[r] \in Entries  BY <3>1 DEF IInv, LocalInv, Local, Truthful
    <3>3. log \in Seq(Entries)  BY DEF IInv, TraceTypes
    <3>4. /\ Len(log') = Len(log) + 1 /\ log'[Len(log')] = entry[r]
          /\ SubSeq(log', 1, Len(log)) = log
      BY <3>1, <3>2, <3>3, AppendIsWhole
    <3> QED  BY <3>1, <3>2, <3>4 DEF Audit!Next, Audit!Record, Entries
  <2>2. CASE Acknowledge(r)
    <3>1. /\ pc[r] = "fsync" /\ UNCHANGED log
          /\ acked' = acked \cup {<<Len(log), log[Len(log)]>>}
      BY <2>2 DEF Acknowledge
    <3>2. log # <<>>  BY <3>1 DEF IInv, TraceInv
    <3> QED  BY <3>1, <3>2 DEF Audit!Next, Audit!Acknowledge
  <2>3. CASE AppendFails(r)
    <3>1. /\ log' = SubSeq(log, 1, Len(log) - 1) /\ UNCHANGED acked
          /\ pc[r] = "fsync"
      BY <2>3 DEF AppendFails
    <3>2. log # <<>> /\ appending = r  BY <3>1 DEF IInv, TraceInv
    <3>3. Len(log) - 1 \in 0 .. Len(log)
      BY <3>2, WithoutLast DEF IInv, TraceTypes
    <3>4. TraceInv'  BY TraceStep DEF IInv
    <3>5. \A a \in acked : Audit!Holds(log', a)  BY <3>1, <3>4 DEF TraceInv
    <3>6. Audit!Forget(Len(log) - 1)  BY <3>1, <3>5 DEF Audit!Forget
    <3> QED  BY <3>3, <3>6 DEF Audit!Next
  <2>4. CASE ~(AppendRecord(r) \/ Acknowledge(r) \/ AppendFails(r))
    BY <1>2, <2>4 DEF Step, RefuseQuestion, PlanRequest, ResolveStep, RefuseInputs,
       SceneMissing, PassGuards, RecheckUnready, RecheckReady, Replay, ArtifactInvalid,
       NoReplay, InputsMissing, ProviderLost, Invoke, Result, Late, NoResult,
       AppendRefused, shared
  <2> QED  BY <2>1, <2>2, <2>3, <2>4
<1> QED  BY <1>1, <1>2 DEF Next

\* Requests use the trace as AuditLog allows: one entry at a time is written at
\* its end, the entry acknowledged is the last one, and what a failed append
\* takes back was told to nobody (append_record under _append_lock).
THEOREM TraceIsUsedAsAllowed == Spec => UsesTrace
<1>1. Init => Audit!Init  BY DEF Init, Audit!Init
<1> QED  BY <1>1, Invariance, StepsUseTrace, PTL DEF Spec, UsesTrace, Audit!Spec

-----------------------------------------------------------------------------
(* Rules in order.                                                         *)

\* No rule before the one chosen has a condition that holds.
LEMMA FirstIs ==
  ASSUME NEW rules, NEW n \in Nat, DOMAIN rules = 1 .. n, NEW i \in 1 .. n,
         rules[i][1], \A j \in 1 .. i - 1 : ~rules[j][1]
  PROVE  FirstOf(rules) = rules[i][2]
<1> DEFINE Is(k) == rules[k][1] /\ \A j \in 1 .. k - 1 : ~rules[j][1]
<1>1. \A k \in 1 .. n : Is(k) => k = i
  OBVIOUS
<1>2. i = CHOOSE k \in DOMAIN rules : Is(k)
  BY <1>1
<1> QED  BY <1>2 DEF FirstOf

\* The intent of a question is that of the first condition it meets.
LEMMA IntentIs ==
  ASSUME NEW q
  PROVE  LET w == q.words IN
         Intent(q) =
           IF JoinsSensors(w) THEN "optical_sar"
           ELSE IF FloodEvent(q) /\ q.dates # <<>> THEN "flood_change"
           ELSE IF OpticalSarIntent(w) \/ NamesBothSensors(w) THEN "optical_sar"
           ELSE IF FloodEvent(q) THEN "flood_change"
           ELSE IF ChangeIntent(q) \/ Len(q.dates) >= 2 \/ Comparison(w) THEN "change"
           ELSE IF GroundingIntent(w) \/ ImperativeLocate(w) THEN "locate"
           ELSE IF Describe(w) THEN "describe" ELSE "unknown"
<1> DEFINE w == q.words
           rules == Rules(q)
           c(i) == rules[i][1]
<1>1. DOMAIN rules = 1 .. 8
  BY DEF Rules
<1>2. /\ rules[1] = <<JoinsSensors(w), "optical_sar">>
      /\ rules[2] = <<FloodEvent(q) /\ q.dates # <<>>, "flood_change">>
      /\ rules[3] = <<OpticalSarIntent(w) \/ NamesBothSensors(w), "optical_sar">>
      /\ rules[4] = <<FloodEvent(q), "flood_change">>
      /\ rules[5] = <<ChangeIntent(q) \/ Len(q.dates) >= 2 \/ Comparison(w), "change">>
      /\ rules[6] = <<GroundingIntent(w) \/ ImperativeLocate(w), "locate">>
      /\ rules[7] = <<Describe(w), "describe">>
      /\ rules[8] = <<TRUE, "unknown">>
  BY DEF Rules
<1> HIDE DEF rules
<1>3. \A i \in 1 .. 8 :
        rules[i][1] /\ (\A j \in 1 .. i - 1 : ~rules[j][1]) => FirstOf(rules) = rules[i][2]
  BY <1>1, FirstIs
<1>4. FirstOf(rules) =
        IF c(1) THEN rules[1][2] ELSE IF c(2) THEN rules[2][2]
        ELSE IF c(3) THEN rules[3][2] ELSE IF c(4) THEN rules[4][2]
        ELSE IF c(5) THEN rules[5][2] ELSE IF c(6) THEN rules[6][2]
        ELSE IF c(7) THEN rules[7][2] ELSE rules[8][2]
  <2>1. c(8)  BY <1>2
  <2> QED  BY <1>3, <2>1
<1>5. Intent(q) = FirstOf(rules)
  BY DEF Intent, rules
<1>6. /\ c(1) = JoinsSensors(w) /\ c(2) = (FloodEvent(q) /\ q.dates # <<>>)
      /\ c(3) = (OpticalSarIntent(w) \/ NamesBothSensors(w))
      /\ c(4) = FloodEvent(q)
      /\ c(5) = (ChangeIntent(q) \/ Len(q.dates) >= 2 \/ Comparison(w))
      /\ c(6) = (GroundingIntent(w) \/ ImperativeLocate(w)) /\ c(7) = Describe(w)
  BY <1>2
<1>7. /\ rules[1][2] = "optical_sar" /\ rules[2][2] = "flood_change"
      /\ rules[3][2] = "optical_sar" /\ rules[4][2] = "flood_change"
      /\ rules[5][2] = "change" /\ rules[6][2] = "locate"
      /\ rules[7][2] = "describe" /\ rules[8][2] = "unknown"
  BY <1>2
<1> HIDE DEF c
<1> QED  BY <1>4, <1>5, <1>6, <1>7

\* The keywords choose by the first condition they meet.
LEMMA KeywordIs ==
  ASSUME NEW q
  PROVE  KeywordSelection(q) =
           IF OpticalSarIntent(q.words)
             THEN [capability |-> "optical_sar", rule |-> "optical_sar_cross_modal"]
           ELSE IF CombinedIntent(q.words) THEN [capability |-> "change_vqa", rule |-> Combined]
           ELSE IF ChangeIntent(q)
             THEN [capability |-> "change_vqa", rule |-> "change_temporal_compare"]
           ELSE IF GroundingIntent(q.words)
             THEN [capability |-> "grounding", rule |-> "grounding_spatial_localization"]
           ELSE [capability |-> "single_image_vqa", rule |-> "default_single_image_vqa"]
<1> DEFINE to(c, r) == [capability |-> c, rule |-> r]
           rules == << <<OpticalSarIntent(q.words), to("optical_sar", "optical_sar_cross_modal")>>,
                       <<CombinedIntent(q.words), to("change_vqa", Combined)>>,
                       <<ChangeIntent(q), to("change_vqa", "change_temporal_compare")>>,
                       <<GroundingIntent(q.words), to("grounding", "grounding_spatial_localization")>>,
                       <<TRUE, to("single_image_vqa", "default_single_image_vqa")>> >>
           c(i) == rules[i][1]
<1>1. KeywordSelection(q) = FirstOf(rules)
  BY DEF KeywordSelection
<1> HIDE DEF to
<1>2. DOMAIN rules = 1 .. 5
  OBVIOUS
<1>3. /\ c(1) = OpticalSarIntent(q.words) /\ c(2) = CombinedIntent(q.words)
      /\ c(3) = ChangeIntent(q) /\ c(4) = GroundingIntent(q.words) /\ c(5)
  OBVIOUS
<1>4. /\ rules[1][2] = to("optical_sar", "optical_sar_cross_modal")
      /\ rules[2][2] = to("change_vqa", Combined)
      /\ rules[3][2] = to("change_vqa", "change_temporal_compare")
      /\ rules[4][2] = to("grounding", "grounding_spatial_localization")
      /\ rules[5][2] = to("single_image_vqa", "default_single_image_vqa")
  OBVIOUS
<1> HIDE DEF rules
<1>5. \A i \in 1 .. 5 :
        c(i) /\ (\A j \in 1 .. i - 1 : ~c(j)) => FirstOf(rules) = rules[i][2]
  BY <1>2, FirstIs
<1>6. FirstOf(rules) =
        IF c(1) THEN rules[1][2] ELSE IF c(2) THEN rules[2][2]
        ELSE IF c(3) THEN rules[3][2] ELSE IF c(4) THEN rules[4][2] ELSE rules[5][2]
  BY <1>3, <1>5
<1> HIDE DEF c
<1> QED  BY <1>1, <1>3, <1>4, <1>6 DEF to

-----------------------------------------------------------------------------
\* The capability that answers a request is one of the four, and no question
\* is routed lower than its keywords ask, save a dated flood.
LEMMA Selected ==
  ASSUME NEW r, ~Refused(r)
  PROVE  LET s == Selection(r, Intent(r.question)) IN
         /\ s.capability \in Capabilities
         /\ r.requested = "none" =>
              LET keyword == KeywordSelection(r.question).capability IN
              Rank[s.capability] < Rank[keyword] =>
                /\ keyword = "optical_sar" /\ s.capability = "change_vqa"
                /\ FloodEvent(r.question) /\ r.question.dates # <<>>
                /\ ~JoinsSensors(r.question.words)
<1> DEFINE q == r.question
           w == q.words
           intent == Intent(q)
           keyword == KeywordSelection(q)
           s == Selection(r, intent)
<1>1. CASE r.requested # "none"
  BY <1>1 DEF Selection, Refused
<1>2. CASE r.requested = "none"
  <2>1. s = ParsedSelection(intent, keyword, SceneIds(r) = 2 /\ r.sar)
    BY <1>2 DEF Selection
  <2>2. s = keyword \/ (intent # "unknown" /\ s = [capability |-> CapabilityOf[intent],
                                                 rule |-> "parsed"])
    BY <2>1 DEF ParsedSelection, Overrides
  <2> HIDE DEF s
  <2>3. intent = "flood_change" \/ keyword.rule # Combined \/ s = keyword
    BY <2>1 DEF ParsedSelection, Overrides
  <2>4. /\ OpticalSarIntent(w) =>
             /\ keyword.capability = "optical_sar"
             /\ \/ intent = "optical_sar"
                \/ intent = "flood_change" /\ FloodEvent(q) /\ q.dates # <<>> /\ ~JoinsSensors(w)
        /\ ~OpticalSarIntent(w) /\ CombinedIntent(w) =>
             keyword.capability = "change_vqa" /\ keyword.rule = Combined
        /\ ~OpticalSarIntent(w) /\ ~CombinedIntent(w) /\ ChangeIntent(q) =>
             /\ keyword.capability = "change_vqa"
             /\ intent \in {"optical_sar", "flood_change", "change"}
        /\ ~OpticalSarIntent(w) /\ ~CombinedIntent(w) /\ ~ChangeIntent(q)
           /\ GroundingIntent(w) =>
             /\ keyword.capability = "grounding"
             /\ intent \in {"optical_sar", "flood_change", "change", "locate"}
        /\ ~OpticalSarIntent(w) /\ ~CombinedIntent(w) /\ ~ChangeIntent(q)
           /\ ~GroundingIntent(w) =>
             keyword.capability = "single_image_vqa"
        /\ intent \in {"optical_sar", "flood_change", "change", "locate", "describe",
                      "unknown"}
    BY IntentIs, KeywordIs
  <2> HIDE DEF intent, keyword, w, q
  <2>5. s.capability \in Capabilities
    BY <2>2, <2>4 DEF CapabilityOf, Capabilities
  <2>6. Rank[s.capability] < Rank[keyword.capability] =>
          /\ keyword.capability = "optical_sar" /\ s.capability = "change_vqa"
          /\ FloodEvent(q) /\ q.dates # <<>> /\ ~JoinsSensors(w)
    BY <2>2, <2>3, <2>4 DEF CapabilityOf, Rank, Combined
  <2> QED  BY <2>5, <2>6 DEF s, intent, keyword, w, q
<1> QED  BY <1>1, <1>2

-----------------------------------------------------------------------------
(* Dates.                                                                  *)

\* A set of numbers that is not empty has a least one.
LEMMA LeastNumber ==
  ASSUME NEW T \in SUBSET Nat, T # {}
  PROVE  \E m \in T : \A n \in T : m <= n
<1>1. IsWellFoundedOn(OpToRel(<, Nat), Nat)
  BY NatLessThanWellFounded
<1>2. PICK m \in T : \A n \in T : ~ (<<n, m>> \in OpToRel(<, Nat))
  BY <1>1, WFMin
<1>3. \A n \in T : ~ (n < m)
  BY <1>2 DEF OpToRel
<1> QED  BY <1>3

\* A finite set of numbers that is not empty has a greatest one: of the sets
\* of its numbers from one of them on, the smallest holds that one alone.
LEMMA GreatestNumber ==
  ASSUME NEW T \in SUBSET Nat, T # {}, IsFiniteSet(T)
  PROVE  \E m \in T : \A n \in T : n <= m
<1> DEFINE From(m) == {n \in T : m <= n}
           sizes == {Cardinality(From(m)) : m \in T}
<1>1. \A m \in T : IsFiniteSet(From(m)) /\ Cardinality(From(m)) \in Nat
  BY FS_Subset, FS_CardinalityType
<1>2. PICK k \in sizes : \A l \in sizes : k <= l
  <2>1. sizes \in SUBSET Nat /\ sizes # {}  BY <1>1
  <2> QED  BY <2>1, LeastNumber
<1>3. PICK m \in T : k = Cardinality(From(m))
  BY <1>2
<1>4. ASSUME NEW n \in T, m < n PROVE FALSE
  <2>1. From(n) \in SUBSET From(m)
    <3>1. \A x \in T : n <= x => m <= x  BY <1>4
    <3> QED  BY <3>1
  <2>2. m \in From(m) /\ m \notin From(n)
    BY <1>4, SMT
  <2>3. /\ Cardinality(From(n)) <= Cardinality(From(m))
        /\ Cardinality(From(n)) # Cardinality(From(m))
    BY <1>1, <2>1, <2>2, FS_Subset
  <2>4. Cardinality(From(m)) <= Cardinality(From(n))
    BY <1>2, <1>3
  <2>5. Cardinality(From(n)) \in Nat /\ Cardinality(From(m)) \in Nat
    BY <1>1
  <2> HIDE DEF From
  <2> QED  BY <2>3, <2>4, <2>5
<1> QED  BY <1>3, <1>4

\* The earliest and the latest of some dates.
LEMMA Extremes ==
  ASSUME NEW T \in SUBSET Nat, T # {}, IsFiniteSet(T)
  PROVE  /\ Min(T) \in T /\ Max(T) \in T
         /\ \A n \in T : Min(T) <= n /\ n <= Max(T)
<1>1. Min(T) \in T /\ \A n \in T : Min(T) <= n
  BY LeastNumber DEF Min
<1>2. \E m \in T : \A n \in T : m >= n
  BY GreatestNumber
<1>3. Max(T) \in T /\ \A n \in T : Max(T) >= n
  BY <1>2 DEF Max
<1> QED  BY <1>1, <1>3

\* The values of a sequence under a function are finitely many.
LEMMA FiniteValues ==
  ASSUME NEW s, Len(s) \in Nat, DOMAIN s = 1 .. Len(s), NEW f, ToSet(s) \subseteq DOMAIN f
  PROVE  IsFiniteSet({f[x] : x \in ToSet(s)})
<1> DEFINE T == {f[x] : x \in ToSet(s)}
           g == [i \in 1 .. Len(s) |-> f[s[i]]]
<1>1. g \in Surjection(1 .. Len(s), T)
  BY DEF ToSet, Surjection
<1>2. IsFiniteSet(1 .. Len(s))
  BY FS_Interval
<1> QED  BY <1>1, <1>2, FS_Surjection

\* A question as it is parsed: its dates in order, and the years apart.
Asked(q) == q.dates \in Seq([year : Nat, day : 0 .. 366]) /\ q.years \subseteq YearsSeen

\* The dates of a question.
LEMMA SeqToSet ==
  ASSUME NEW S, NEW s \in Seq(S)
  PROVE  /\ Len(s) \in Nat /\ DOMAIN s = 1 .. Len(s)
         /\ ToSet(s) \subseteq S /\ \A x \in ToSet(s) : Len(s) > 0
  BY DEF ToSet

\* An interval is finite.
LEMMA IntervalIsFinite ==
  \A a, b \in Int : IsFiniteSet(a .. b)
  BY FS_Interval

\* The years seen are those stated, finitely many, and one that is alone is
\* the greatest.
LEMMA YearsAre ==
  ASSUME NEW q, Asked(q)
  PROVE  /\ Years(q) = StatedYears(q) /\ Years(q) \in SUBSET Nat
         /\ Cardinality(Years(q)) = 1 <=> \E y : Years(q) = {y}
         /\ \A y : Years(q) = {y} => Max(Years(q)) = y
<1>1. Years(q) = StatedYears(q)
  BY DEF Years, StatedYears, YearsSeen
<1>2. Years(q) \in SUBSET YearsSeen /\ YearsSeen \in SUBSET Nat /\ IsFiniteSet(YearsSeen)
  <2>1. IsFiniteSet(1900 .. 2099)
    <3> DEFINE first == 1900  last == 2099
    <3>1. first \in Int /\ last \in Int
      OBVIOUS
    <3> HIDE DEF first, last
    <3>2. IsFiniteSet(first .. last)
      BY <3>1, IntervalIsFinite
    <3> QED  BY <3>2 DEF first, last
  <2> QED  BY <2>1 DEF Years, YearsSeen
<1>3. IsFiniteSet(Years(q))
  BY <1>2, FS_Subset
<1>4. Cardinality(Years(q)) = 1 <=> \E y : Years(q) = {y}
  BY <1>3, FS_Singleton
<1>5. ASSUME NEW y, Years(q) = {y} PROVE Max(Years(q)) = y
  <2>1. Max(Years(q)) \in Years(q)
    BY <1>2, <1>3, <1>5, Extremes
  <2> QED  BY <1>5, <2>1
<1> QED  BY <1>1, <1>2, <1>4, <1>5

\* A date resolves to its day in the year it is in, and to none if it is in none.
LEMMA Resolves ==
  ASSUME NEW q, Asked(q), NEW x \in [year : Nat, day : 0 .. 366]
  PROVE  LET v == Resolve(x, Years(q)) IN
         /\ v \in Nat
         /\ v # NoDate => \E y \in YearOf(q, x) : v = DateOf(y, x.day)
         /\ x.year = NoYear /\ Cardinality(Years(q)) # 1 => v = NoDate
<1> DEFINE year == IF x.year # NoYear THEN x.year
                   ELSE IF Cardinality(Years(q)) = 1 THEN Max(Years(q)) ELSE NoYear
           v == Resolve(x, Years(q))
<1>1. v = IF year # NoYear /\ HasDay(year, x.day) THEN DateOf(year, x.day) ELSE NoDate
  BY DEF Resolve
<1>2. year # NoYear => year \in Nat /\ (x.year = NoYear => StatedYears(q) = {year})
                       /\ (x.year # NoYear => year = x.year)
  BY YearsAre
<1>3. x.year = NoYear /\ Cardinality(Years(q)) # 1 => year = NoYear
  OBVIOUS
<1> HIDE DEF year, v
<1>4. year # NoYear /\ HasDay(year, x.day) => year \in YearOf(q, x)
  BY <1>2 DEF YearOf
<1>5. v \in Nat
  BY <1>1, <1>2 DEF DateOf, NoDate
<1> QED  BY <1>1, <1>3, <1>4, <1>5 DEF v

\* The dates of a plan are resolved from the question, the first before the
\* second, and there are none when one of them is not known.
LEMMA DatesAre ==
  ASSUME NEW q, Asked(q)
  PROVE  LET D == Dates(q) IN
         /\ D = <<D[1], D[2]>>
         /\ D[1] # NoDate /\ D[2] # NoDate => D[1] < D[2]
         /\ \A v \in ToSet(D) \ {NoDate} :
              \E x \in ToSet(q.dates) : v = Resolve(x, Years(q))
         /\ D[1] # NoDate /\ D[2] # NoDate =>
              \A x \in ToSet(q.dates) :
                D[1] <= Resolve(x, Years(q)) /\ Resolve(x, Years(q)) <= D[2]
         /\ (\E x \in ToSet(q.dates) : Resolve(x, Years(q)) = NoDate) =>
              D = <<NoDate, NoDate>>
<1> DEFINE day == [year : Nat, day : 0 .. 366]
           f == [d \in day |-> Resolve(d, Years(q))]
           values == {Resolve(d, Years(q)) : d \in ToSet(q.dates)}
<1>1. /\ Len(q.dates) \in Nat /\ DOMAIN q.dates = 1 .. Len(q.dates)
      /\ ToSet(q.dates) \subseteq day
  <2>1. q.dates \in Seq(day)  BY DEF Asked
  <2> HIDE DEF day
  <2> QED  BY <2>1, SeqToSet
<1>2. IsFiniteSet(values)
  <2>1. values = {f[d] : d \in ToSet(q.dates)} /\ DOMAIN f = day
    BY <1>1
  <2>2. ToSet(q.dates) \subseteq DOMAIN f
    BY <1>1, <2>1
  <2> HIDE DEF f, day, values
  <2>3. IsFiniteSet({f[d] : d \in ToSet(q.dates)})
    BY <1>1, <2>2, FiniteValues
  <2> QED  BY <2>1, <2>3
<1>3. values \in SUBSET Nat
  BY <1>1, Resolves
<1>4. ASSUME values # {}
      PROVE  /\ Min(values) \in values /\ Max(values) \in values
             /\ Cardinality(values) > 1 => Min(values) < Max(values)
             /\ \A v \in values : Min(values) <= v /\ v <= Max(values)
  <2>1. /\ Min(values) \in values /\ Max(values) \in values
        /\ \A v \in values : Min(values) <= v /\ v <= Max(values)
    BY <1>2, <1>3, <1>4, Extremes
  <2>2. ASSUME Cardinality(values) > 1, ~(Min(values) < Max(values)) PROVE FALSE
    <3>1. values = {Min(values)}
      BY <1>3, <2>1, <2>2
    <3>2. Cardinality(values) = 1
      BY <3>1, FS_Singleton
    <3> QED  BY <2>2, <3>2
  <2> QED  BY <2>1, <2>2
<1>5. Dates(q) = IF values = {} \/ NoDate \in values THEN <<NoDate, NoDate>>
                 ELSE IF Cardinality(values) > 1 THEN <<Min(values), Max(values)>>
                 ELSE IF q.since THEN <<Max(values), NoDate>> ELSE <<NoDate, Max(values)>>
  BY DEF Dates
<1> HIDE DEF values
<1> DEFINE Two(a, b) == /\ Dates(q) = <<a, b>> /\ {a, b} \subseteq values \cup {NoDate}
                        /\ (a # NoDate /\ b # NoDate) =>
                             a < b /\ \A v \in values : a <= v /\ v <= b
                        /\ NoDate \in values => (a = NoDate /\ b = NoDate)
<1>6. \E a, b : Two(a, b)
  <2>1. CASE values = {} \/ NoDate \in values
    BY <1>5, <2>1
  <2>2. CASE ~(values = {} \/ NoDate \in values)
    BY <1>4, <1>5, <2>2
  <2> QED  BY <2>1, <2>2
<1>7. PICK a, b : Two(a, b)
  BY <1>6
<1>8. ToSet(Dates(q)) = {a, b} /\ Dates(q)[1] = a /\ Dates(q)[2] = b
  BY <1>7 DEF ToSet
<1>9. \A x \in ToSet(q.dates) : Resolve(x, Years(q)) \in values
  BY DEF values
<1>10. \A v \in values : \E x \in ToSet(q.dates) : v = Resolve(x, Years(q))
  BY DEF values
<1> QED  BY <1>7, <1>8, <1>9, <1>10

\* A plan dates nothing that the question does not.
LEMMA Guessless ==
  ASSUME NEW q, Asked(q), NEW d, d.dates = Dates(q),
         YearMissing(q) => "year" \in d.lacks
  PROVE  NothingGuessed(q, d)
<1> DEFINE D == Dates(q)
           value(x) == Resolve(x, Years(q))
<1>1. /\ D = <<D[1], D[2]>>
      /\ D[1] # NoDate /\ D[2] # NoDate => D[1] < D[2]
      /\ \A v \in ToSet(D) \ {NoDate} : \E x \in ToSet(q.dates) : v = value(x)
      /\ D[1] # NoDate /\ D[2] # NoDate =>
           \A x \in ToSet(q.dates) : D[1] <= value(x) /\ value(x) <= D[2]
      /\ (\E x \in ToSet(q.dates) : value(x) = NoDate) => D = <<NoDate, NoDate>>
  BY DatesAre
<1>2. \A x \in ToSet(q.dates) :
        /\ value(x) # NoDate => \E y \in YearOf(q, x) : value(x) = DateOf(y, x.day)
        /\ x.year = NoYear /\ Cardinality(Years(q)) # 1 => value(x) = NoDate
  <2>1. ToSet(q.dates) \subseteq [year : Nat, day : 0 .. 366]
    BY SeqToSet DEF Asked
  <2> QED  BY <2>1, Resolves
<1>3. NoDate \notin ToSet(D) <=> D[1] # NoDate /\ D[2] # NoDate
  <2>1. ToSet(D) = {D[1], D[2]}
    BY <1>1 DEF ToSet
  <2> QED  BY <2>1
<1>4. ASSUME NEW x \in ToSet(q.dates), x.year = NoYear, Cardinality(StatedYears(q)) # 1
      PROVE  YearMissing(q) /\ D = <<NoDate, NoDate>>
  BY <1>1, <1>2, <1>4, YearsAre DEF YearMissing
<1> HIDE DEF D, value
<1>5. ASSUME NEW v \in ToSet(D) \ {NoDate}
      PROVE  \E x \in ToSet(q.dates) : \E y \in YearOf(q, x) : v = DateOf(y, x.day)
  BY <1>1, <1>2, <1>5
<1>6. ASSUME D # <<NoDate, NoDate>>, NEW x \in ToSet(q.dates)
      PROVE  \E y \in YearOf(q, x) :
               NoDate \notin ToSet(D) => D[1] <= DateOf(y, x.day) /\ DateOf(y, x.day) <= D[2]
  BY <1>1, <1>2, <1>3, <1>6
<1>7. d.dates = D  BY DEF D
<1> QED  BY <1>1, <1>3, <1>4, <1>5, <1>6, <1>7 DEF NothingGuessed

-----------------------------------------------------------------------------
(* Plans.                                                                  *)

\* The steps of a plan are well formed: one step, or a change and then
\* its localisation, which waits for it (build_execution_plan, validate_plan).
LEMMA ChainsAreValid ==
  ASSUME NEW c \in Capabilities, NEW combined \in BOOLEAN
  PROVE  /\ ValidPlan(PlanSteps(Chain(c, combined)))
         /\ ~combined => SingleStep(PlanSteps(Chain(c, combined)))
<1> DEFINE chain == Chain(c, combined)
           plan == PlanSteps(chain)
<1>1. CASE ~combined
  <2>1. chain = <<c>>  BY <1>1 DEF Chain
  <2>2. /\ DOMAIN plan = {1} /\ Len(plan) = 1
        /\ plan[1] = [id |-> 1, capability |-> c, dependsOn |-> {}, inputs |-> Needs[c]]
    BY <2>1, SMT DEF PlanSteps
  <2> HIDE DEF plan
  <2>3. Ids(plan) = {1} /\ Position(plan, 1) = 1  BY <2>2 DEF Ids, Position
  <2>4. Acyclic(plan)
    <3> SUFFICES ASSUME NEW S \in (SUBSET Ids(plan)) \ {{}}
                 PROVE  \E i \in S : plan[Position(plan, i)].dependsOn \cap S = {}
      BY DEF Acyclic
    <3>1. 1 \in S  BY <2>3
    <3> QED  BY <2>2, <2>3, <3>1
  <2>5. plan # <<>>  BY <2>2, SMT
  <2>6. ValidPlan(plan)  BY <2>2, <2>3, <2>4, <2>5 DEF ValidPlan
  <2> QED  BY <1>1, <2>2, <2>6 DEF SingleStep, plan
<1>2. CASE combined
  <2>1. chain = <<"change_vqa", "grounding">>  BY <1>2 DEF Chain
  <2>2. /\ DOMAIN plan = {1, 2}
        /\ plan[1] = [id |-> 1, capability |-> "change_vqa", dependsOn |-> {},
                      inputs |-> Needs["change_vqa"]]
        /\ plan[2] = [id |-> 2, capability |-> "grounding", dependsOn |-> {1},
                      inputs |-> <<"step_1.output">>]
    BY <2>1, SMT DEF PlanSteps
  <2> HIDE DEF plan
  <2>3. Ids(plan) = {1, 2} /\ Position(plan, 1) = 1 /\ Position(plan, 2) = 2
    BY <2>2 DEF Ids, Position
  <2>4. Acyclic(plan)
    <3> SUFFICES ASSUME NEW S \in (SUBSET Ids(plan)) \ {{}}
                 PROVE  \E i \in S : plan[Position(plan, i)].dependsOn \cap S = {}
      BY DEF Acyclic
    <3>0. 1 \in S \/ S = {2}  BY <2>3
    <3>1. CASE 1 \in S  BY <2>2, <2>3, <3>1
    <3>2. CASE S = {2}  BY <2>2, <2>3, <3>2
    <3> QED  BY <3>0, <3>1, <3>2
  <2>5. plan # <<>>  BY <2>2, SMT
  <2>6. ValidPlan(plan)
    BY <2>2, <2>3, <2>4, <2>5, SMT DEF ValidPlan, Capabilities
  <2> QED  BY <1>2, <2>6 DEF plan
<1> QED  BY <1>1, <1>2

\* A plan keeps its question, whatever is ready.
LEMMA PlansKeep ==
  ASSUME NEW r, ~Refused(r), Asked(r.question), NEW prepared \in BOOLEAN
  PROVE  LET d == Plan(r, prepared) IN
         /\ NoDowngrade(r, d) /\ NothingGuessed(r.question, d) /\ ExecutesWhole(r, d)
<1> DEFINE q == r.question
           s == Selection(r, Intent(q))
           d == Plan(r, prepared)
           chain == PlanSteps(Chain(s.capability, s.rule = Combined))
<1>1. /\ d.capability = s.capability /\ d.steps = chain /\ d.dates = Dates(q)
      /\ d.lacks = Missing(Intent(q), Dates(q), q)
      /\ d.executable => s.rule # Combined /\ ~(SceneIds(r) < ScenesNeeded(s.capability))
  BY DEF Plan, Parse
<1>2. /\ s.capability \in Capabilities
      /\ r.requested = "none" =>
           LET keyword == KeywordSelection(q).capability IN
           Rank[s.capability] < Rank[keyword] =>
             /\ keyword = "optical_sar" /\ s.capability = "change_vqa"
             /\ FloodEvent(q) /\ q.dates # <<>> /\ ~JoinsSensors(q.words)
  BY Selected
<1> HIDE DEF s, d
<1>3. NoDowngrade(r, d)
  BY <1>1, <1>2 DEF NoDowngrade
<1>4. NothingGuessed(q, d)
  <2>1. YearMissing(q) => "year" \in d.lacks
    BY <1>1 DEF Missing
  <2> HIDE DEF q
  <2>2. Asked(q)  BY DEF q
  <2> QED  BY <1>1, <2>1, <2>2, Guessless
<1>5. ExecutesWhole(r, d)
  <2>1. ValidPlan(chain) /\ (s.rule # Combined => SingleStep(chain))
    BY <1>2, ChainsAreValid
  <2>2. ASSUME s.rule # Combined PROVE chain[1].capability = s.capability
    BY <2>2 DEF PlanSteps, Chain
  <2>3. SceneIds(r) \in Int /\ ScenesNeeded(s.capability) \in Int
    BY DEF SceneIds, ScenesNeeded
  <2> HIDE DEF chain
  <2> QED  BY <1>1, <2>1, <2>2, <2>3 DEF ExecutesWhole
<1> QED  BY <1>3, <1>4, <1>5 DEF d

-----------------------------------------------------------------------------
(* Pairs.                                                                  *)

\* A check fails nothing when none of its conditions holds.
LEMMA NoneFails ==
  ASSUME NEW rows
  PROVE  Failing(rows) = {} <=> \A row \in rows : ~row[2]
  BY DEF Failing

\* Its codes are among those of the conditions that hold.
LEMMA FailsAmong ==
  ASSUME NEW rows, NEW S, \A row \in rows : row[2] => row[1] \in S
  PROVE  Failing(rows) \subseteq S
  BY DEF Failing

\* What ingest_scene takes in, it stores with a manifest that passes.
LEMMA AcceptedIsValid ==
  ASSUME NEW u, u.raster.width \in Nat \ {0}, Accepted(u)
  PROVE  Valid(Manifest(u))
<1>1. u.format \in {"TIFF", "PNG", "JPEG"}
  BY DEF Accepted, Unreadable
<1>2. Manifest(u).modality \in Modalities
  BY DEF Accepted, MisDeclared, Manifest, Modalities
<1>3. /\ Raster(u.raster).status \in Statuses
      /\ Raster(u.raster).ready <=> Raster(u.raster).status = "affine"
      /\ Raster(u.raster).grid.width > 0
  <2>1. Georeferencing(u.raster) \in Statuses
    BY DEF Georeferencing, Statuses
  <2>2. u.raster.width > 0
    OBVIOUS
  <2> QED  BY <2>1, <2>2 DEF Raster, Grid
<1>4. u.format # "TIFF" => Manifest(u).raster = NoRaster
  BY DEF Manifest
<1>5. u.format = "TIFF" => Manifest(u).raster = Raster(u.raster)
  BY DEF Manifest
<1>6. Manifest(u).format = u.format /\ Manifest(u).native = (u.format = "TIFF")
  BY DEF Manifest
<1>7. ASSUME Manifest(u).raster # NoRaster
      PROVE  /\ Manifest(u).raster.grid.width > 0 /\ Manifest(u).raster.status \in Statuses
             /\ Manifest(u).raster.ready <=> Manifest(u).raster.status = "affine"
  BY <1>3, <1>4, <1>5, <1>7
<1> QED  BY <1>1, <1>2, <1>6, <1>7 DEF Valid

\* A change pair that fails nothing is in order, of known and like sensors.
LEMMA ChangeChecked ==
  ASSUME NEW a, NEW b
  PROVE  ChangeFailures(a, b) = {} <=>
           /\ Family(a) # "unknown" /\ Family(a) = Family(b)
           /\ a.time # NoTime /\ b.time # NoTime /\ ~(a.time >= b.time)
<1> DEFINE c1 == Family(a) = "unknown" \/ Family(b) = "unknown" \/ Family(a) # Family(b)
           c2 == a.time = NoTime \/ b.time = NoTime
           c3 == a.time # NoTime /\ b.time # NoTime /\ a.time >= b.time
           rows == {<<"modalities_incompatible", c1>>, <<"acquisition_time_missing", c2>>,
                    <<"acquisition_order_invalid", c3>>}
<1>1. ChangeFailures(a, b) = Failing(rows)
  BY DEF ChangeFailures
<1>2. (\A row \in rows : ~row[2]) <=> ~c1 /\ ~c2 /\ ~c3
  <2> HIDE DEF c1, c2, c3
  <2> QED  OBVIOUS
<1> HIDE DEF rows
<1>3. ChangeFailures(a, b) = {} <=> ~c1 /\ ~c2 /\ ~c3
  BY <1>1, <1>2, NoneFails
<1> QED  BY <1>3

\* An optical-SAR pair that fails nothing has one scene of each.
LEMMA OpticalSarChecked ==
  ASSUME NEW a, NEW b
  PROVE  OpticalSarFailures(a, b) = {} <=>
           /\ {Family(a), Family(b)} = {"optical", "sar"}
           /\ Polarizations(a, b) # {}
           /\ Polarizations(a, b) \subseteq SupportedPolarizations
           /\ Undeclared \notin {a.sensor, b.sensor} /\ NoTime \notin {a.time, b.time}
<1> DEFINE c1 == {Family(a), Family(b)} # {"optical", "sar"}
           c2 == Polarizations(a, b) = {}
           c3 == ~(Polarizations(a, b) \subseteq SupportedPolarizations)
           c4 == Undeclared \in {a.sensor, b.sensor} \/ NoTime \in {a.time, b.time}
           rows == {<<"modalities_incompatible", c1>>, <<"polarization_missing", c2>>,
                    <<"polarization_unsupported", c3>>, <<"acquisition_metadata_missing", c4>>}
<1>1. OpticalSarFailures(a, b) = Failing(rows)
  BY DEF OpticalSarFailures
<1>2. (\A row \in rows : ~row[2]) <=> ~c1 /\ ~c2 /\ ~c3 /\ ~c4
  <2> HIDE DEF c1, c2, c3, c4
  <2> QED  OBVIOUS
<1> HIDE DEF rows
<1>3. OpticalSarFailures(a, b) = {} <=> ~c1 /\ ~c2 /\ ~c3 /\ ~c4
  BY <1>1, <1>2, NoneFails
<1> QED  BY <1>3

\* The grids of a pair that fails nothing are one grid.
LEMMA GridChecked ==
  ASSUME NEW w, NEW g, NEW h
  PROVE  GridFailures(w, g, h) = {} <=>
           /\ ~BelowOverlap(w, g, h) /\ ~AboveRatio(w, g, h)
           /\ g.crs = h.crs /\ g.width = h.width /\ g.origin = h.origin /\ g.pixel = h.pixel
<1> DEFINE c1 == BelowOverlap(w, g, h)
           c2 == AboveRatio(w, g, h)
           c3 == g.crs # h.crs
           c4 == g.width # h.width
           c5 == g.origin # h.origin \/ g.pixel # h.pixel
           grid == IF w = "change_vqa" THEN "grid_alignment_incompatible"
                   ELSE "grid_alignment_differs"
           rows == {<<"overlap_below_threshold", c1>>, <<"resolution_ratio_exceeded", c2>>,
                    <<"reprojection_required", c3>>, <<"dimensions_incompatible", c4>>,
                    <<grid, c5>>}
<1>1. GridFailures(w, g, h) = Failing(rows)
  BY DEF GridFailures
<1>2. (\A row \in rows : ~row[2]) <=> ~c1 /\ ~c2 /\ ~c3 /\ ~c4 /\ ~c5
  <2> HIDE DEF c1, c2, c3, c4, c5, grid
  <2> QED  OBVIOUS
<1> HIDE DEF rows
<1>3. GridFailures(w, g, h) = {} <=> ~c1 /\ ~c2 /\ ~c3 /\ ~c4 /\ ~c5
  BY <1>1, <1>2, NoneFails
<1> QED  BY <1>3

\* Nothing fails of a pair when no check fails.
LEMMA Checked ==
  ASSUME NEW w, NEW a, NEW b
  PROVE  Failures(w, a, b) = {} <=>
           /\ IF w = "optical_sar" THEN OpticalSarFailures(a, b) = {}
              ELSE ChangeFailures(a, b) = {}
           /\ GroupFailures(a, b) = {} /\ RasterFailures(a, b) = {} /\ ~Unplaceable(a, b)
           /\ GridFailures(w, a.raster.grid, b.raster.grid) = {}
  BY DEF Failures

\* The checks of an optical-SAR pair do not tell its order.
LEMMA Symmetric ==
  ASSUME NEW a, NEW b
  PROVE  Failures("optical_sar", a, b) = {} <=> Failures("optical_sar", b, a) = {}
<1> DEFINE w == "optical_sar"
<1>1. OpticalSarFailures(a, b) = {} <=> OpticalSarFailures(b, a) = {}
  <2>1. {Family(a), Family(b)} = {Family(b), Family(a)}
    OBVIOUS
  <2>2. ASSUME {Family(a), Family(b)} = {"optical", "sar"}
        PROVE  Polarizations(a, b) = Polarizations(b, a)
    <3>1. ~(a.modality = "sar" /\ b.modality = "sar")
      BY <2>2 DEF Family
    <3> QED  BY <3>1 DEF Polarizations
  <2>3. {a.sensor, b.sensor} = {b.sensor, a.sensor} /\ {a.time, b.time} = {b.time, a.time}
    OBVIOUS
  <2> QED  BY <2>1, <2>2, <2>3, OpticalSarChecked
<1>2. GroupFailures(a, b) = GroupFailures(b, a)
  <2>1. (Undeclared \notin {a.group, b.group} /\ a.group # b.group)
          = (Undeclared \notin {b.group, a.group} /\ b.group # a.group)
    OBVIOUS
  <2> QED  BY <2>1 DEF GroupFailures
<1>3. RasterFailures(a, b) = RasterFailures(b, a) /\ (Unplaceable(a, b) <=> Unplaceable(b, a))
  BY DEF RasterFailures, Unplaceable
<1>4. ASSUME NEW g, NEW h
      PROVE  GridFailures(w, g, h) = {} <=> GridFailures(w, h, g) = {}
  <2>1. Common(g, h) = Common(h, g)
    <3>1. {g.origin + Extent(g), h.origin + Extent(h)}
            = {h.origin + Extent(h), g.origin + Extent(g)}
      OBVIOUS
    <3>2. {g.origin, h.origin} = {h.origin, g.origin}
      OBVIOUS
    <3> QED  BY <3>1, <3>2 DEF Common
  <2>2. /\ {Extent(g), Extent(h)} = {Extent(h), Extent(g)}
        /\ {g.pixel, h.pixel} = {h.pixel, g.pixel}
    OBVIOUS
  <2>3. BelowOverlap(w, g, h) <=> BelowOverlap(w, h, g)
    BY <2>1, <2>2 DEF BelowOverlap
  <2>4. AboveRatio(w, g, h) <=> AboveRatio(w, h, g)
    BY <2>2 DEF AboveRatio
  <2> QED  BY <2>3, <2>4, GridChecked
<1>5. GridFailures(w, a.raster.grid, b.raster.grid) = {}
        <=> GridFailures(w, b.raster.grid, a.raster.grid) = {}
  BY <1>4
<1> QED  BY <1>1, <1>2, <1>3, <1>5, Checked

\* A pair of scenes is eligible when both have a manifest and no check fails.
LEMMA Eligible ==
  ASSUME NEW w \in PairCapabilities, NEW u, NEW v
  PROVE  LET verdict == Compatibility(w, u, v)
             stored == {ManifestError(u), ManifestError(v)} \ {"none"} = {}
         IN /\ verdict.eligible <=> stored /\ Failures(w, Manifest(u), Manifest(v)) = {}
            /\ verdict.eligible =>
                 /\ verdict.operations = Operations({})
                 /\ verdict.unknown = Unknown(w, Manifest(u), Manifest(v))
<1> DEFINE missing == {ManifestError(u), ManifestError(v)} \ {"none"}
           failed == Failures(w, Manifest(u), Manifest(v))
<1>1. w \notin SingleWorkflows
  BY DEF PairCapabilities, SingleWorkflows
<1>2. CASE missing # {}
  BY <1>2 DEF Compatibility
<1>3. CASE missing = {}
  <2> DEFINE nothing == failed = {}
             unknown == Unknown(w, Manifest(u), Manifest(v))
  <2>1. Compatibility(w, u, v) = [eligible |-> nothing, failed |-> failed,
                                  operations |-> Operations(failed), unknown |-> unknown]
    BY <1>1, <1>3 DEF Compatibility, Verdict
  <2> HIDE DEF nothing, failed, unknown
  <2>2. /\ Compatibility(w, u, v).eligible = nothing
        /\ Compatibility(w, u, v).operations = Operations(failed)
        /\ Compatibility(w, u, v).unknown = unknown
    BY <2>1
  <2> QED  BY <1>3, <2>2 DEF nothing, failed, unknown
<1> QED  BY <1>2, <1>3

\* A scene whose raster can be placed is a TIFF, on the grid of its upload.
LEMMA Placed ==
  ASSUME NEW u, RasterFailure(Manifest(u).raster) = "none"
  PROVE  u.format = "TIFF" /\ Manifest(u).raster # NoRaster
         /\ Manifest(u).raster.grid = Grid(u.raster)
<1>1. Manifest(u).raster # NoRaster
  BY DEF RasterFailure
<1>2. u.format = "TIFF" /\ Manifest(u).raster = Raster(u.raster)
  BY <1>1 DEF Manifest
<1> QED  BY <1>1, <1>2 DEF Raster

\* What is not known of a scene with a modality and a time is its sensor.
LEMMA IdentityIs ==
  ASSUME NEW m, m.modality # "unknown", m.time # NoTime
  PROVE  /\ UnknownIdentity(m) \subseteq {"sensor"}
         /\ m.sensor # Undeclared => UnknownIdentity(m) = {}
<1> DEFINE c1 == m.modality = "unknown"
           c2 == m.sensor = Undeclared
           c3 == m.time = NoTime
           rows == {<<"modality", c1>>, <<"sensor", c2>>, <<"acquisition_time", c3>>}
<1>1. UnknownIdentity(m) = Failing(rows)
  BY DEF UnknownIdentity
<1>2. ~c1 /\ ~c3
  OBVIOUS
<1> HIDE DEF c1, c3
<1>3. /\ \A row \in rows : row[2] => row[1] \in {"sensor"}
      /\ ~c2 => \A row \in rows : ~row[2]
  <2> HIDE DEF c2
  <2> QED  BY <1>2
<1> HIDE DEF rows
<1>4. Failing(rows) \subseteq {"sensor"} /\ (~c2 => Failing(rows) = {})
  BY <1>3, FailsAmong, NoneFails
<1> QED  BY <1>1, <1>4

\* Nothing else is unknown of a pair whose rasters can be placed.
LEMMA UnknownIs ==
  ASSUME NEW w, NEW a, NEW b, w = "optical_sar" => Polarizations(a, b) # {},
         a.raster # NoRaster, b.raster # NoRaster, RasterFailures(a, b) = {}
  PROVE  Unknown(w, a, b) = UnknownIdentity(a) \cup UnknownIdentity(b)
<1> DEFINE c1 == w = "optical_sar" /\ Polarizations(a, b) = {}
           c2 == NoRaster \in {a.raster, b.raster}
           c3 == "crs_missing" \in RasterFailures(a, b)
           rows == {<<"polarizations", c1>>, <<"raster_metadata", c2>>, <<"crs", c3>>}
<1>1. Unknown(w, a, b) = UnknownIdentity(a) \cup UnknownIdentity(b) \cup Failing(rows)
  BY DEF Unknown
<1>2. ~c1 /\ ~c2 /\ ~c3
  OBVIOUS
<1> HIDE DEF c1, c2, c3
<1>3. \A row \in rows : ~row[2]
  BY <1>2
<1> HIDE DEF rows
<1>4. Failing(rows) = {}
  BY <1>3, NoneFails
<1> QED  BY <1>1, <1>4

\* What fails nothing needs no operation.
LEMMA NoOperations == Operations({}) = {}
<1> DEFINE c1 == "reprojection_required" \in {}
           c2 == {} \cap {"grid_alignment_incompatible", "grid_alignment_differs"} # {}
           rows == {<<"reprojection", c1>>, <<"co_registration", c2>>}
<1>1. Operations({}) = Failing(rows)
  BY DEF Operations
<1>2. ~c1 /\ ~c2
  OBVIOUS
<1> HIDE DEF c1, c2
<1>3. \A row \in rows : ~row[2]
  BY <1>2
<1> HIDE DEF rows
<1> QED  BY <1>1, <1>3, NoneFails

\* What an eligible pair has.
LEMMA EligibleHas ==
  ASSUME NEW w \in PairCapabilities, NEW u, NEW v, Compatibility(w, u, v).eligible
  PROVE  /\ Grid(u.raster) = Grid(v.raster) /\ Compatibility(w, u, v).operations = {}
         /\ ~InputsRefused(w, u, v)
         /\ Compatibility(w, u, v).unknown
              \subseteq (IF w = "change_vqa" THEN {"sensor"} ELSE {})
         /\ w = "change_vqa" => ~(u.time >= v.time)
<1> DEFINE a == Manifest(u)  b == Manifest(v)
<1>1. /\ Failures(w, a, b) = {}
      /\ Compatibility(w, u, v).operations = Operations({})
      /\ Compatibility(w, u, v).unknown = Unknown(w, a, b)
  BY Eligible
<1>2. /\ IF w = "optical_sar" THEN OpticalSarFailures(a, b) = {}
         ELSE ChangeFailures(a, b) = {}
      /\ RasterFailures(a, b) = {}
      /\ GridFailures(w, a.raster.grid, b.raster.grid) = {}
  BY <1>1, Checked
<1>3. RasterFailure(a.raster) = "none" /\ RasterFailure(b.raster) = "none"
  BY <1>2 DEF RasterFailures
<1>4. /\ u.format = "TIFF" /\ a.raster # NoRaster /\ a.raster.grid = Grid(u.raster)
      /\ v.format = "TIFF" /\ b.raster # NoRaster /\ b.raster.grid = Grid(v.raster)
  BY <1>3, Placed
<1>5. a.native /\ b.native /\ a.time = u.time /\ b.time = v.time
  BY <1>4 DEF Manifest
<1> HIDE DEF a, b
<1>6. Grid(u.raster) = Grid(v.raster)
  <2>1. /\ Grid(u.raster).crs = Grid(v.raster).crs
        /\ Grid(u.raster).width = Grid(v.raster).width
        /\ Grid(u.raster).origin = Grid(v.raster).origin
        /\ Grid(u.raster).pixel = Grid(v.raster).pixel
    BY <1>2, <1>4, GridChecked
  <2> QED  BY <2>1 DEF Grid
<1>7. CASE w = "optical_sar"
  <2>1. /\ {Family(a), Family(b)} = {"optical", "sar"} /\ Polarizations(a, b) # {}
        /\ Undeclared \notin {a.sensor, b.sensor} /\ NoTime \notin {a.time, b.time}
    BY <1>2, <1>7, OpticalSarChecked
  <2>2. ~OpticalSarRefused(a, b)
    BY <1>5, <2>1 DEF OpticalSarRefused
  <2>3. UnknownIdentity(a) = {} /\ UnknownIdentity(b) = {}
    <3>1. a.modality # "unknown" /\ b.modality # "unknown"
      BY <2>1 DEF Family
    <3> QED  BY <2>1, <3>1, IdentityIs
  <2>4. Unknown(w, a, b) = {}
    BY <1>2, <1>4, <2>1, <2>3, UnknownIs
  <2> QED  BY <1>1, <1>6, <1>7, <2>2, <2>4, NoOperations DEF InputsRefused, a, b
<1>8. CASE w = "change_vqa"
  <2>1. /\ Family(a) # "unknown" /\ Family(a) = Family(b)
        /\ a.time # NoTime /\ b.time # NoTime /\ ~(a.time >= b.time)
    BY <1>2, <1>8, ChangeChecked
  <2>2. ~ChangeRefused(a, b)
    BY <1>5, <2>1 DEF ChangeRefused
  <2>3. UnknownIdentity(a) \subseteq {"sensor"} /\ UnknownIdentity(b) \subseteq {"sensor"}
    <3>1. a.modality # "unknown" /\ b.modality # "unknown"
      BY <2>1 DEF Family
    <3> QED  BY <2>1, <3>1, IdentityIs
  <2>4. Unknown(w, a, b) \subseteq {"sensor"}
    BY <1>2, <1>4, <1>8, <2>3, UnknownIs
  <2> QED  BY <1>1, <1>5, <1>6, <1>8, <2>1, <2>2, <2>4, NoOperations DEF InputsRefused, a, b
<1> QED  BY <1>7, <1>8 DEF PairCapabilities

\* What PairVerdict says of a verdict is so of any two uploads.
LEMMA VerdictsHold ==
  ASSUME NEW w \in Capabilities, NEW u, NEW v,
         \A x \in {u, v} : x.time \in Int /\ x.raster.width \in Nat \ {0}
  PROVE  LET verdict == Compatibility(w, u, v)
             swapped == Compatibility(w, v, u).eligible
         IN /\ \A x \in {u, v} : Accepted(x) => Valid(Manifest(x))
            /\ w = "optical_sar" => verdict.eligible = swapped
            /\ w = "change_vqa" => ~(verdict.eligible /\ swapped)
            /\ verdict.eligible /\ w \in PairCapabilities =>
                 /\ Grid(u.raster) = Grid(v.raster) /\ verdict.operations = {}
                 /\ ~InputsRefused(w, u, v)
                 /\ verdict.unknown \subseteq (IF w = "change_vqa" THEN {"sensor"} ELSE {})
<1> DEFINE verdict == Compatibility(w, u, v)
           swapped == Compatibility(w, v, u)
           missing(x, y) == {ManifestError(x), ManifestError(y)} \ {"none"}
<1>1. \A x \in {u, v} : Accepted(x) => Valid(Manifest(x))
  BY AcceptedIsValid
<1>2. ASSUME w = "optical_sar" PROVE verdict.eligible = swapped.eligible
  <2>1. w \in PairCapabilities
    BY <1>2 DEF PairCapabilities
  <2>2. /\ verdict.eligible
             <=> missing(u, v) = {} /\ Failures(w, Manifest(u), Manifest(v)) = {}
        /\ swapped.eligible
             <=> missing(v, u) = {} /\ Failures(w, Manifest(v), Manifest(u)) = {}
    BY <2>1, Eligible
  <2>3. missing(u, v) = missing(v, u)
    OBVIOUS
  <2>4. Failures(w, Manifest(u), Manifest(v)) = {}
          <=> Failures(w, Manifest(v), Manifest(u)) = {}
    BY <1>2, Symmetric
  <2>5. verdict.eligible \in BOOLEAN /\ swapped.eligible \in BOOLEAN
    BY DEF Compatibility, Verdict
  <2> QED  BY <2>2, <2>3, <2>4, <2>5
<1>3. ASSUME w = "change_vqa", verdict.eligible, swapped.eligible PROVE FALSE
  <2>1. ~(u.time >= v.time) /\ ~(v.time >= u.time)
    BY <1>3, EligibleHas DEF PairCapabilities
  <2> QED  BY <2>1
<1>4. ASSUME verdict.eligible, w \in PairCapabilities
      PROVE  /\ Grid(u.raster) = Grid(v.raster) /\ verdict.operations = {}
             /\ ~InputsRefused(w, u, v)
             /\ verdict.unknown \subseteq (IF w = "change_vqa" THEN {"sensor"} ELSE {})
  BY <1>4, EligibleHas
<1> QED  BY <1>1, <1>2, <1>3, <1>4

-----------------------------------------------------------------------------
(* The invariant: what was decided is what is asked for.                   *)

Deciding == [kind : {"plan"}, request : PlanRequests]
           \cup [kind : {"pair"}, workflow : Capabilities, pair : Pairs]
DecidedInv ==
  /\ asked \in Deciding
  /\ decision.kind \in {"undecided", "refused", "plan", "pair"}
  /\ decision.kind = "plan" =>
       /\ asked.kind = "plan" /\ ~Refused(asked.request)
       /\ \E prepared \in BOOLEAN : decision.plan = Plan(asked.request, prepared)
  /\ decision.kind = "pair" =>
       /\ asked.kind = "pair"
       /\ decision.verdict =
            Compatibility(asked.workflow, asked.pair.first, asked.pair.second)

LEMMA InitDecided == DecisionInit => DecidedInv
  BY DEF DecisionInit, DecidedInv, Deciding, Undecided

LEMMA StepDecided == DecidedInv /\ [DecisionNext]_decisionVars => DecidedInv'
<1> SUFFICES ASSUME DecidedInv, [DecisionNext]_decisionVars PROVE DecidedInv'
  OBVIOUS
<1>1. CASE PlanAnalysis
  <2>1. PICK prepared \in BOOLEAN :
          decision' = [kind |-> "plan", plan |-> Plan(asked.request, prepared)]
    BY <1>1 DEF PlanAnalysis
  <2>2. decision'.kind = "plan" /\ decision'.plan = Plan(asked.request, prepared)
    BY <2>1
  <2> QED  BY <1>1, <2>2 DEF PlanAnalysis, DecidedInv
<1>2. CASE Refuse
  BY <1>2 DEF Refuse, DecidedInv
<1>3. CASE EvaluateCompatibility
  <2>1. /\ decision'.kind = "pair"
        /\ decision'.verdict =
             Compatibility(asked.workflow, asked.pair.first, asked.pair.second)
    BY <1>3 DEF EvaluateCompatibility
  <2> QED  BY <1>3, <2>1 DEF EvaluateCompatibility, DecidedInv
<1>4. CASE UNCHANGED decisionVars
  BY <1>4 DEF DecidedInv, decisionVars
<1> QED  BY <1>1, <1>2, <1>3, <1>4 DEF DecisionNext

LEMMA DecidedInvariance == DecisionSpec => []DecidedInv
  BY InitDecided, StepDecided, PTL DEF DecisionSpec

\* A plan keeps what the question says, whatever is asked: it routes no
\* question lower than its words, dates nothing the question does not, and
\* calls executable only what execute_plan executes (plan_query).
THEOREM PlansKeepQuestions == DecisionSpec => []PlanKeepsQuestion
<1>1. DecidedInv => PlanKeepsQuestion
  <2> SUFFICES ASSUME DecidedInv, decision.kind = "plan"
               PROVE  /\ NoDowngrade(asked.request, decision.plan)
                      /\ NothingGuessed(asked.request.question, decision.plan)
                      /\ ExecutesWhole(asked.request, decision.plan)
    BY DEF PlanKeepsQuestion
  <2>1. PICK prepared \in BOOLEAN : decision.plan = Plan(asked.request, prepared)
    BY DEF DecidedInv
  <2>2. ~Refused(asked.request) /\ asked.request \in PlanRequests
    BY DEF DecidedInv, Deciding
  <2>3. Asked(asked.request.question)
    BY <2>2, PlanRequestsAssumption DEF Asked
  <2> QED  BY <2>1, <2>2, <2>3, PlansKeep
<1> QED  BY <1>1, DecidedInvariance, PTL

\* The verdict on a pair depends on the order of its scenes only for a
\* change, and an eligible pair is what the analysis takes
\* (evaluate_compatibility).
THEOREM PairsAreJudged == DecisionSpec => []PairVerdict
<1>1. DecidedInv => PairVerdict
  <2> SUFFICES ASSUME DecidedInv, decision.kind = "pair" PROVE PairVerdict
    BY DEF PairVerdict
  <2> DEFINE u == asked.pair.first  v == asked.pair.second  w == asked.workflow
  <2>1. w \in Capabilities /\ asked.pair \in Pairs
    BY DEF DecidedInv, Deciding
  <2>2. \A x \in {u, v} : x.time \in Int /\ x.raster.width \in Nat \ {0}
    BY <2>1, PairsAssumption
  <2>3. decision.verdict = Compatibility(w, u, v)
    BY DEF DecidedInv
  <2> HIDE DEF u, v, w
  <2>4. /\ \A x \in {u, v} : Accepted(x) => Valid(Manifest(x))
        /\ w = "optical_sar" => decision.verdict.eligible = Compatibility(w, v, u).eligible
        /\ w = "change_vqa" => ~(decision.verdict.eligible /\ Compatibility(w, v, u).eligible)
        /\ decision.verdict.eligible /\ w \in PairCapabilities =>
             /\ Grid(u.raster) = Grid(v.raster) /\ decision.verdict.operations = {}
             /\ ~InputsRefused(w, u, v)
             /\ decision.verdict.unknown \subseteq (IF w = "change_vqa" THEN {"sensor"} ELSE {})
    BY <2>1, <2>2, <2>3, VerdictsHold
  <2> QED  BY <2>4 DEF PairVerdict, u, v, w
<1> QED  BY <1>1, DecidedInvariance, PTL

-----------------------------------------------------------------------------
(* The page that asks, for any scenes and any number of clicks, uploads    *)
(* and answers.                                                            *)

\* A panel shows the scene of the page, and remembers only its own failure.
PanelInv ==
  /\ panel = [n |-> panel.n, scene |-> panel.scene, question |-> panel.question,
              second |-> panel.second, result |-> panel.result,
              failure |-> panel.failure, loading |-> panel.loading]
  /\ panel.n \in Nat
  /\ panel.scene = Shown
  /\ panel.failure # None =>
       /\ panel.failure.attempt = AttemptOf(panel.failure.attempt)
       /\ panel.failure.attempt.scene = panel.scene

\* A panel that has asked shows nothing until it is answered.
CallsInv ==
  \A c \in calls :
    /\ c.panel \in Nat /\ c.panel <= panel.n
    /\ c.panel = panel.n =>
         /\ c.scene = panel.scene
         /\ panel.loading # None /\ panel.result = None /\ panel.failure = None

\* It asks once at a time.
OneCall ==
  \A c, d \in calls : c.panel = panel.n /\ d.panel = panel.n => c = d

ResultInv == result # None => result.panel \in Nat /\ result.panel <= panel.n

\* The replay is offered by panels whose golden question was refused only.
OfferInv ==
  /\ Replayable(panel.failure) => panel.n \in refused
  /\ \A c \in calls : c.mode = "cached_result" => IsGolden(c) /\ c.panel \in refused

PageInv ==
  /\ PanelInv /\ CallsInv /\ OneCall /\ ResultInv
  /\ EvidenceIsPanels
  /\ OfferInv /\ CachedOnlyByChoice

-----------------------------------------------------------------------------
\* An answer the page accepts is of the scenes and the question of its
\* request, and is a cached result only if that was asked for.
LEMMA AcceptedIsOfRequest ==
  ASSUME NEW a \in Answers
  PROVE  /\ a[2].scene = a[1].scene /\ a[2].question = a[1].question
         /\ a[2].second = a[1].second
         /\ a[2].mode = "cached_result" => a[1].mode = "cached_result"
<1>0. PICK t \in Attempts : \E r \in Replies(t) :
        /\ ValidReply(r, t)
        /\ a = <<t, [scene |-> r.scene, question |-> r.question,
                     second |-> r.second, mode |-> r.mode]>>
  BY DEF Answers
<1>1. PICK r \in Replies(t) :
        /\ ValidReply(r, t)
        /\ a = <<t, [scene |-> r.scene, question |-> r.question,
                     second |-> r.second, mode |-> r.mode]>>
  BY <1>0
<1>2. /\ r.scene = t.scene /\ r.question = t.question /\ r.second = t.second
      /\ r.traced = r.mode /\ FromArtifact(r)
  BY <1>1 DEF ValidReply, OfRequest
<1>3. t.mode = "live" \/ t.mode = "cached_result"
  BY DEF Attempts, Modes
<1>4. ASSUME t.mode = "live", r.mode = "cached_result" PROVE FALSE
  <2>1. PICK k \in DOMAIN Values, m \in DOMAIN Values :
          \E x \in Values[k] : \E y \in Values[m] :
            r = [Right(t) EXCEPT ![k] = x, ![m] = y]
    BY DEF Replies
  <2>2. PICK x \in Values[k] : \E y \in Values[m] :
          r = [Right(t) EXCEPT ![k] = x, ![m] = y]
    BY <2>1
  <2>6. PICK y \in Values[m] : r = [Right(t) EXCEPT ![k] = x, ![m] = y]
    BY <2>2
  <2>3. Right(t) = [mode |-> "live", traced |-> "live", scene |-> t.scene,
                    second |-> t.second, question |-> t.question,
                    complete |-> TRUE, model |-> TRUE, chained |-> TRUE, formed |-> TRUE,
                    artifact |-> None, tracedArtifact |-> None]
    BY <1>4 DEF Right
  <2>4. {k, m} = {"mode", "traced"}
    BY <1>2, <1>4, <2>6, <2>3 DEF Values
  <2>5. r.artifact = None
    BY <2>6, <2>3, <2>4
  <2> QED
    BY <1>2, <1>4, <2>5 DEF FromArtifact
<1> QED
  BY <1>1, <1>2, <1>3, <1>4

-----------------------------------------------------------------------------
\* The steps, by what they do to the panel.  Some leave the page as it is.
LEMMA QuietStep ==
  ASSUME PageInv, UNCHANGED <<catalog, pending, selection, panel, calls, refused>>
  PROVE  PageInv'
  BY DEF PageInv, PanelInv, CallsInv, OneCall, ResultInv, OfferInv, selection,
         EvidenceIsPanels, CachedOnlyByChoice, Shown, Options, Pack, Replayable,
         IsGolden, AttemptOf

\* Some draw it again, with a new panel if another scene is shown.  Its number
\* is beyond all that have asked.
LEMMA RedrawStep ==
  ASSUME PageInv, UNCHANGED <<calls, refused>>, panel' = Drawn(panel),
         result' = result \/ result' = None
  PROVE  PageInv'
<1>1. CASE panel' = panel
  <2>1. Shown' = panel.scene
    <3>1. CASE Shown' = panel.scene
      BY <3>1
    <3>2. CASE Shown' # panel.scene
      <4>1. panel.n \in Nat /\ panel'.n = panel.n + 1
        BY <3>2 DEF PageInv, PanelInv, Drawn, NewPanel
      <4> QED
        BY <1>1, <4>1
    <3> QED
      BY <3>1, <3>2
  <2> QED
    BY <1>1, <2>1 DEF PageInv, PanelInv, CallsInv, OneCall, ResultInv, OfferInv,
       EvidenceIsPanels, CachedOnlyByChoice, Replayable, IsGolden, AttemptOf
<1>2. CASE panel' = NewPanel(panel.n + 1, Shown')
  <2>1. /\ panel'.n = panel.n + 1 /\ panel'.scene = Shown'
        /\ panel'.result = None /\ panel'.failure = None
    BY <1>2 DEF NewPanel
  <2>2. PanelInv'
    BY <1>2, <2>1 DEF PageInv, PanelInv, NewPanel
  <2>3. CallsInv' /\ OneCall' /\ ResultInv' /\ OfferInv' /\ EvidenceIsPanels'
    BY <2>1 DEF PageInv, PanelInv, CallsInv, OneCall, ResultInv, OfferInv,
       EvidenceIsPanels, Replayable, IsGolden
  <2>4. CachedOnlyByChoice'
    BY <2>1 DEF PageInv, CachedOnlyByChoice, IsGolden
  <2> QED
    BY <2>2, <2>3, <2>4 DEF PageInv
<1> QED
  BY <1>1, <1>2 DEF Drawn

\* Some edit the question or the second scene.
LEMMA EditStep ==
  ASSUME PageInv, UNCHANGED <<catalog, pending, sceneId, result, calls, refused>>,
         NEW q, NEW s, panel' = [panel EXCEPT !.question = q, !.second = s]
  PROVE  PageInv'
<1>1. /\ panel'.n = panel.n /\ panel'.scene = panel.scene
      /\ panel'.result = panel.result /\ panel'.failure = panel.failure
      /\ panel'.loading = panel.loading
      /\ panel' = [n |-> panel'.n, scene |-> panel'.scene, question |-> panel'.question,
              second |-> panel'.second, result |-> panel'.result,
              failure |-> panel'.failure, loading |-> panel'.loading]
  BY DEF PageInv, PanelInv
<1>2. Shown' = Shown
  BY DEF Shown, Options, Pack
<1> QED
  BY <1>1, <1>2 DEF PageInv, PanelInv, CallsInv, OneCall, ResultInv, OfferInv,
     EvidenceIsPanels, CachedOnlyByChoice, Replayable, IsGolden, AttemptOf

\* A panel that has no request under way asks for its scene: by Ask live, by
\* Replay what it was refused.
LEMMA RunStep ==
  ASSUME PageInv, UNCHANGED <<catalog, pending, sceneId, refused>>,
         panel.loading = None,
         NEW attempt, attempt.mode \in Modes, attempt.scene = panel.scene,
         Run(attempt),
         attempt.mode = "cached_result" => IsGolden(attempt) /\ panel.n \in refused
  PROVE  PageInv'
<1>1. /\ panel'.n = panel.n /\ panel'.scene = panel.scene
      /\ panel'.result = None /\ panel'.failure = None
      /\ panel'.loading # None
      /\ panel' = [n |-> panel'.n, scene |-> panel'.scene, question |-> panel'.question,
              second |-> panel'.second, result |-> panel'.result,
              failure |-> panel'.failure, loading |-> panel'.loading]
      /\ panel.n \in Nat
  BY MarkersAssumption DEF PageInv, PanelInv, Run
<1>2. Shown' = Shown
  BY DEF Shown, Options, Pack
<1>3. PanelInv'
  BY <1>1, <1>2 DEF PageInv, PanelInv
<1> DEFINE new == Call(panel.n, attempt)
<1>4. /\ calls' = calls \cup {new} /\ result' = None
      /\ new.panel = panel.n /\ new.scene = panel.scene
      /\ new.mode = attempt.mode
      /\ IsGolden(new) <=> IsGolden(attempt)
  BY DEF Run, Call, IsGolden
<1>5. \A c \in calls : c.panel # panel.n
  BY DEF PageInv, CallsInv
<1> HIDE DEF new
<1>6. CallsInv'
  <2>1. \A c \in calls : c.panel \in Nat /\ c.panel <= panel.n /\ c.panel # panel.n
    BY <1>5 DEF PageInv, CallsInv
  <2> QED
    BY <1>1, <1>4, <2>1 DEF CallsInv
<1>7. OneCall' /\ ResultInv'
  BY <1>1, <1>4, <1>5 DEF OneCall, ResultInv
<1>8. EvidenceIsPanels' /\ OfferInv'
  BY <1>1, <1>4 DEF PageInv, EvidenceIsPanels, OfferInv, Replayable, IsGolden
<1>9. CachedOnlyByChoice'
  BY <1>1, <1>4 DEF PageInv, CachedOnlyByChoice, IsGolden
<1> QED
  BY <1>3, <1>6, <1>7, <1>8, <1>9 DEF PageInv

\* An answer is of the scene that was asked about.  It is shown by the panel
\* that asked, which showed nothing before, or is drawn as that of a panel
\* that is gone.
LEMMA AnsweredStep ==
  ASSUME PageInv, NEW c \in calls, Answered(c)
  PROVE  PageInv'
<1>1. PICK a \in Answers :
        /\ a[1] = AttemptOf(c)
        /\ result' = Call(c.panel, a[2])
        /\ panel' = IF panel.n = c.panel
                    THEN [panel EXCEPT !.result = Call(c.panel, a[2]), !.loading = None]
                    ELSE panel
  BY DEF Answered
<1> DEFINE shown == Call(c.panel, a[2])
<1>2. /\ shown.panel = c.panel /\ shown.scene = c.scene
      /\ shown.question = c.question /\ shown.second = c.second
      /\ shown.mode = "cached_result" => c.mode = "cached_result"
  BY <1>1, AcceptedIsOfRequest DEF Call, AttemptOf
<1> HIDE DEF shown
<1>3. /\ panel'.n = panel.n /\ panel'.scene = panel.scene
      /\ panel'.failure = panel.failure
      /\ panel' = [n |-> panel'.n, scene |-> panel'.scene, question |-> panel'.question,
              second |-> panel'.second, result |-> panel'.result,
              failure |-> panel'.failure, loading |-> panel'.loading]
      /\ panel.n = c.panel => panel'.result = shown
      /\ panel.n # c.panel => panel'.result = panel.result /\ panel'.loading = panel.loading
  BY <1>1 DEF PageInv, PanelInv, shown
<1>4. /\ UNCHANGED <<catalog, pending, sceneId, refused>> /\ calls' = calls \ {c}
      /\ result' = shown
  BY <1>1 DEF Answered, server, list, shown
<1>5. Shown' = Shown
  BY <1>4 DEF Shown, Options, Pack
<1>6. PanelInv'
  BY <1>3, <1>5 DEF PageInv, PanelInv, AttemptOf
<1>7. CallsInv' /\ OneCall'
  BY <1>3, <1>4 DEF PageInv, CallsInv, OneCall
<1>8. ResultInv' /\ EvidenceIsPanels'
  BY <1>2, <1>3, <1>4, <1>5
     DEF PageInv, PanelInv, CallsInv, ResultInv, EvidenceIsPanels
<1>9. OfferInv'
  BY <1>3, <1>4 DEF PageInv, OfferInv, Replayable, IsGolden
<1>10. CachedOnlyByChoice'
  <2>1. shown.mode = "cached_result" => IsGolden(shown) /\ shown.panel \in refused
    BY <1>2 DEF PageInv, OfferInv, IsGolden
  <2> QED
    BY <1>3, <1>4, <2>1 DEF PageInv, CachedOnlyByChoice
<1> QED
  BY <1>6, <1>7, <1>8, <1>9, <1>10 DEF PageInv

\* A failure is kept by the panel that asked, and noted as a refusal if that
\* is what makes the panel offer the replay.
LEMMA FailedStep ==
  ASSUME PageInv, NEW c \in calls, NEW code, Failed(c, code)
  PROVE  PageInv'
<1>1. /\ UNCHANGED <<catalog, pending, sceneId, result>> /\ calls' = calls \ {c}
      /\ refused \subseteq refused'
      /\ code = 503 /\ IsGolden(c) /\ c.mode = "live" => c.panel \in refused'
  BY DEF Failed, list, selection
<1>2. Shown' = Shown
  BY <1>1 DEF Shown, Options, Pack
<1>3. /\ panel'.n = panel.n /\ panel'.scene = panel.scene
      /\ panel'.result = panel.result
      /\ panel' = [n |-> panel'.n, scene |-> panel'.scene, question |-> panel'.question,
              second |-> panel'.second, result |-> panel'.result,
              failure |-> panel'.failure, loading |-> panel'.loading]
      /\ panel.n # c.panel => panel'.failure = panel.failure /\ panel'.loading = panel.loading
      /\ panel.n = c.panel =>
           panel'.failure = [status |-> code, attempt |-> AttemptOf(c)]
  BY DEF PageInv, PanelInv, Failed
<1>4. PanelInv'
  <2>1. CASE panel.n = c.panel
    <3>1. panel'.failure.attempt = AttemptOf(c)
      BY <1>3, <2>1
    <3>2. panel'.failure.attempt = AttemptOf(panel'.failure.attempt)
      BY <3>1 DEF AttemptOf
    <3>3. panel'.failure.attempt.scene = panel'.scene
      BY <1>3, <2>1, <3>1 DEF PageInv, CallsInv, AttemptOf
    <3> QED
      BY <1>2, <1>3, <3>2, <3>3 DEF PageInv, PanelInv, AttemptOf
  <2>2. CASE panel.n # c.panel
    BY <1>2, <1>3, <2>2 DEF PageInv, PanelInv, AttemptOf
  <2> QED
    BY <2>1, <2>2
<1>5. CallsInv' /\ OneCall' /\ ResultInv'
  BY <1>1, <1>3 DEF PageInv, CallsInv, OneCall, ResultInv
<1>6. EvidenceIsPanels'
  BY <1>1, <1>2, <1>3 DEF PageInv, CallsInv, EvidenceIsPanels
<1>7. OfferInv'
  <2>1. CASE panel.n = c.panel
    BY <1>1, <1>3, <2>1 DEF PageInv, OfferInv, Replayable, AttemptOf, IsGolden
  <2>2. CASE panel.n # c.panel
    BY <1>1, <1>3, <2>2 DEF PageInv, OfferInv, Replayable, IsGolden
  <2> QED
    BY <2>1, <2>2
<1>8. CachedOnlyByChoice'
  BY <1>1, <1>3 DEF PageInv, CachedOnlyByChoice, IsGolden
<1> QED
  BY <1>4, <1>5, <1>6, <1>7, <1>8 DEF PageInv

-----------------------------------------------------------------------------
LEMMA InitPage == PageInit => PageInv
  BY DEF PageInit, PageInv, PanelInv, CallsInv, OneCall, ResultInv, OfferInv, EvidenceIsPanels,
     CachedOnlyByChoice, NewPanel, Shown, Options, Pack, Replayable

LEMMA StepPage == PageInv /\ [PageNext]_pageVars => PageInv'
<1> SUFFICES ASSUME PageInv, [PageNext]_pageVars PROVE PageInv'
  OBVIOUS
<1> USE DEF server, list, selection, asking
<1>1. CASE OtherUpload
  BY <1>1, QuietStep DEF OtherUpload
<1>2. ASSUME NEW i \in 1 .. Len(loads), Read(i) PROVE PageInv'
  BY <1>2, QuietStep DEF Read
<1>3. ASSUME NEW i \in 1 .. Len(loads), LoadAnswered(i) PROVE PageInv'
  BY <1>3, RedrawStep DEF LoadAnswered
<1>4. CASE Refresh
  BY <1>4, QuietStep DEF Refresh
<1>5. ASSUME NEW s, Select(s) PROVE PageInv'
  BY <1>5, RedrawStep DEF Select
<1>6. ASSUME NEW valid, Choose(valid) PROVE PageInv'
  BY <1>6, QuietStep DEF Choose
<1>7. CASE Submit
  BY <1>7, QuietStep DEF Submit
<1>8. CASE Stored
  BY <1>8, QuietStep DEF Stored
<1>9. CASE Uploaded
  BY <1>9, RedrawStep DEF Uploaded
<1>10. CASE UploadFails
  BY <1>10, QuietStep DEF UploadFails
<1>11. ASSUME NEW q, Type(q) PROVE PageInv'
  <2>1. panel' = [panel EXCEPT !.question = q, !.second = panel.second]
    BY <1>11 DEF Type, PageInv, PanelInv
  <2> QED
    BY <1>11, <2>1, EditStep DEF Type
<1>12. ASSUME NEW s, SetSecond(s) PROVE PageInv'
  <2>1. panel' = [panel EXCEPT !.question = panel.question, !.second = s]
    BY <1>12 DEF SetSecond, PageInv, PanelInv
  <2> QED
    BY <1>12, <2>1, EditStep DEF SetSecond
<1>13. CASE Ask
  <2> DEFINE attempt == [scene |-> panel.scene, question |-> panel.question,
                         second |-> panel.second, mode |-> "live"]
  <2>1. attempt.scene = panel.scene /\ attempt.mode \in Modes
        /\ attempt.mode # "cached_result"
    BY DEF Modes
  <2>2. Run(attempt) /\ panel.loading = None
        /\ UNCHANGED <<catalog, pending, sceneId, refused>>
    BY <1>13 DEF Ask
  <2> HIDE DEF attempt
  <2> QED
    BY <2>1, <2>2, RunStep
<1>14. CASE ReplayCached
  <2> DEFINE attempt == [panel.failure.attempt EXCEPT !.mode = "cached_result"]
  <2>1. Replayable(panel.failure) /\ panel.loading = None /\ Run(attempt)
        /\ UNCHANGED <<catalog, pending, sceneId, refused>>
    BY <1>14 DEF ReplayCached
  <2>2. panel.failure # None /\ IsGolden(panel.failure.attempt)
    BY <2>1 DEF Replayable
  <2>3. panel.failure.attempt = AttemptOf(panel.failure.attempt)
        /\ panel.failure.attempt.scene = panel.scene /\ panel.n \in refused
    BY <2>1, <2>2 DEF PageInv, PanelInv, OfferInv
  <2>4. attempt.scene = panel.scene /\ attempt.mode \in Modes /\ IsGolden(attempt)
    BY <2>2, <2>3 DEF Modes, IsGolden, AttemptOf
  <2> HIDE DEF attempt
  <2> QED
    BY <2>1, <2>3, <2>4, RunStep
<1>15. ASSUME NEW c \in calls, CallAnswered(c) PROVE PageInv'
  BY <1>15, AnsweredStep, FailedStep DEF CallAnswered
<1>16. CASE UNCHANGED pageVars
  BY <1>16, QuietStep DEF pageVars
<1> QED
  BY <1>1, <1>2, <1>3, <1>4, <1>5, <1>6, <1>7, <1>8, <1>9, <1>10, <1>11, <1>12,
     <1>13, <1>14, <1>15, <1>16 DEF PageNext

LEMMA PageInvariance == PageSpec => []PageInv
  BY InitPage, StepPage, PTL DEF PageSpec

-----------------------------------------------------------------------------
\* The scene the user added stays listed, and shown until the user selects
\* another, however many catalogues are read and answered in whatever order.
THEOREM UploadsStay == PageSpec => []UploadStays
<1>1. PageInv => UploadStays
  BY DEF PageInv, PanelInv, UploadStays, Shown, Options
<1> QED
  BY <1>1, PageInvariance, PTL

\* No answer that arrives late, and no panel that is replaced, makes the page
\* show a cached result that was not chosen after a refusal.
THEOREM CachedByChoice == PageSpec => []CachedOnlyByChoice
  BY PageInvariance, PTL DEF PageInv

\* What is drawn on the image is of the scene shown, but for an answer that
\* arrives for a panel that is gone.
THEOREM EvidenceOfPanel == PageSpec => []EvidenceIsPanels
  BY PageInvariance, PTL DEF PageInv
=============================================================================
