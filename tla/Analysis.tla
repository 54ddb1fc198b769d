------------------------------ MODULE Analysis ------------------------------
(***************************************************************************)
(* One analysis request, from the route of backend/routes/analyze.py       *)
(* through analyze_scene, the planner, the execution plan, the executor    *)
(* and the router to the model and the trace, beside other requests.       *)
(*                                                                         *)
(* A question is abstracted to what the planner selects for it, scenes to  *)
(* what the guards ask of them.  Each request reads the readiness of a     *)
(* provider afresh at up to five places, and readiness may change between  *)
(* any two of them (a GPU or a checkpoint comes or goes).  The trace is    *)
(* the abstract log of AuditLog: an append that fails may leave its entry. *)
(***************************************************************************)
EXTENDS Providers

CONSTANTS
  Requests,    \* concurrent calls of POST /api/analyze
  Inputs,      \* what they may ask
  MaxFlips     \* bound on changes of readiness and of the trace's health

\* capability: what the planner selects; combined: by the rule for change and
\* localisation together; sar: the sensor is a SAR; pair: a second scene is
\* given; live: execution_mode; golden: scene and question have a committed
\* result.
Input == [capability : Capabilities, combined : BOOLEAN, sar : BOOLEAN,
          pair : BOOLEAN, live : BOOLEAN, golden : BOOLEAN]

ASSUME ConstantsAssumption ==
  /\ Inputs \subseteq Input
  /\ \A i \in Inputs : i.combined => i.capability = "change_vqa"
  /\ "nobody" \notin Requests
  /\ MaxFlips \in Nat

VARIABLES
  ready,      \* the models that report readiness
  healthy,    \* append_record would accept the trace
  log, acked, \* the trace, as AuditLog describes it
  appending,  \* the request inside append_record, which excludes the others
  pc,         \* where a request is
  input,      \* its input
  planned,    \* provider_available of its plan
  steps,      \* provider_available of the steps of its execution plan
  entry,      \* the record it is appending
  fits,       \* the model's result fits AnalyzeResponse
  ran,        \* history: the capability of each model run
  status,     \* its answer: an HTTP status, 0 while there is none
  flips

shared == <<ready, healthy, log, acked, appending>>
locals == <<pc, input, planned, steps, entry, fits, ran, status>>
vars == <<shared, locals, flips>>

Audit == INSTANCE AuditLog WITH
  Entry <- [request : Requests, mode : {"live", "cached_result"}, model : BOOLEAN,
            capability : Capabilities]

Nobody == "nobody"
NoEntry == [request |-> Nobody]
\* capability_readiness.
Available(c) == c \in Registered /\ ModelOf(c) \in ready

\* The capabilities of the steps of build_execution_plan.
Capability(i) == Chain(i.capability, i.combined)

MissingInputs(i) == i.capability \in PairCapabilities /\ ~i.pair

\* Mutant: the SAR reason is forgotten.
MutUnsupported(i) == i.combined

\* The plan has an unavailable_reason whatever its provider says.
Unsupported(i) == i.combined \/ (i.capability = "single_image_vqa" /\ i.sar)

\* Plan.executable and ExecutionPlan.executable.
PlanExecutable(r) == planned[r] /\ ~MissingInputs(input[r]) /\ ~Unsupported(input[r])
Executable(r) == PlanExecutable(r) /\ \A k \in DOMAIN steps[r] : steps[r][k]

Init ==
  /\ ready \in SUBSET {ModelOf(c) : c \in Registered}
  /\ healthy \in BOOLEAN
  /\ log = <<>> /\ acked = {}
  /\ appending = Nobody
  /\ pc = [r \in Requests |-> "idle"]
  /\ input \in [Requests -> Inputs]
  /\ planned = [r \in Requests |-> FALSE]
  /\ steps = [r \in Requests |-> <<>>]
  /\ entry = [r \in Requests |-> NoEntry]
  /\ fits = [r \in Requests |-> TRUE]
  /\ ran = [r \in Requests |-> <<>>]
  /\ status = [r \in Requests |-> 0]
  /\ flips = 0

Goto(r, label) == pc' = [pc EXCEPT ![r] = label]
Answer(r, code) ==
  /\ Goto(r, "answered")
  /\ status' = [status EXCEPT ![r] = code]

-----------------------------------------------------------------------------
(* Planning.                                                               *)

\* The question is blank, or the requested capability unknown.
RefuseQuestion(r) ==
  /\ pc[r] = "idle"
  /\ Answer(r, 422)
  /\ UNCHANGED <<shared, input, planned, steps, entry, fits, ran, flips>>

\* plan_request reads the provider's readiness ...
PlanRequest(r) ==
  /\ pc[r] = "idle"
  /\ planned' = [planned EXCEPT ![r] = Available(input[r].capability)]
  /\ Goto(r, "build")
  /\ UNCHANGED <<shared, input, steps, entry, fits, ran, status, flips>>

\* ... and build_execution_plan that of each step's, again.
ResolveStep(r) ==
  /\ pc[r] = "build"
  /\ steps' = [steps EXCEPT ![r] = Append(@, Available(Capability(input[r])[Len(@) + 1]))]
  /\ Goto(r, IF Len(steps[r]) + 1 = Len(Capability(input[r])) THEN "guards" ELSE "build")
  /\ UNCHANGED <<shared, input, planned, entry, fits, ran, status, flips>>

-----------------------------------------------------------------------------
(* The guards of analyze_scene.                                            *)

\* A second scene is missing, or the pair of manifests is not compatible.
RefuseInputs(r) ==
  /\ pc[r] = "guards"
  /\ MissingInputs(input[r]) \/ input[r].capability \in PairCapabilities
  /\ Answer(r, 422)
  /\ UNCHANGED <<shared, input, planned, steps, entry, fits, ran, flips>>

\* The pixels of a single scene are not there.
SceneMissing(r) ==
  /\ pc[r] = "guards"
  /\ input[r].live /\ input[r].capability \notin PairCapabilities
  /\ Answer(r, 404)
  /\ UNCHANGED <<shared, input, planned, steps, entry, fits, ran, flips>>

PassGuards(r) ==
  /\ pc[r] = "guards"
  /\ ~MissingInputs(input[r])
  /\ Goto(r, IF ~input[r].live THEN "replay"
             ELSE IF Executable(r) THEN "execute" ELSE "recheck")
  /\ UNCHANGED <<shared, input, planned, steps, entry, fits, ran, status, flips>>

\* What cannot be executed is recorded if its provider is, by now, not ready:
\* _record_unavailable.
Unavailable(r, c) ==
  /\ entry' = [entry EXCEPT ![r] =
       [request |-> r, mode |-> "live", model |-> FALSE, capability |-> c]]
  /\ Goto(r, "append")

RecheckUnready(r) ==
  /\ pc[r] = "recheck"
  /\ ~Available(input[r].capability)
  /\ Unavailable(r, input[r].capability)
  /\ UNCHANGED <<shared, input, planned, steps, fits, ran, status, flips>>

\* Otherwise CapabilityUnavailable is raised and nothing is recorded.
RecheckReady(r) ==
  /\ pc[r] = "recheck"
  /\ Available(input[r].capability)
  /\ Answer(r, 503)
  /\ UNCHANGED <<shared, input, planned, steps, entry, fits, ran, flips>>

-----------------------------------------------------------------------------
(* The committed replay.                                                   *)

GoldenEligible(r) ==
  Len(steps[r]) = 1 /\ Capability(input[r])[1] = "single_image_vqa"

\* find_cached_result and _cached_response.
Replay(r) ==
  /\ pc[r] = "replay"
  /\ input[r].capability \in Registered
  /\ GoldenEligible(r) /\ input[r].golden
  /\ entry' = [entry EXCEPT ![r] = [request |-> r, mode |-> "cached_result",
                                    model |-> TRUE, capability |-> "single_image_vqa"]]
  /\ Goto(r, "append")
  /\ UNCHANGED <<shared, input, planned, steps, fits, ran, status, flips>>

\* The artifact is invalid: the results no longer match their hash, or the
\* committed answer is blank.
ArtifactInvalid(r) ==
  /\ pc[r] = "replay"
  /\ input[r].capability \in Registered
  /\ GoldenEligible(r) /\ input[r].golden
  /\ Answer(r, 503)
  /\ UNCHANGED <<shared, input, planned, steps, entry, fits, ran, flips>>

NoReplay(r) ==
  /\ pc[r] = "replay"
  /\ IF input[r].capability \notin Registered THEN Answer(r, 503)
     ELSE /\ ~(GoldenEligible(r) /\ input[r].golden)
          /\ Answer(r, 422)
  /\ UNCHANGED <<shared, input, planned, steps, entry, fits, ran, flips>>

-----------------------------------------------------------------------------
(* execute_plan and route.                                                 *)

\* A raster, a timestamp or the preview is gone.
InputsMissing(r) ==
  /\ pc[r] = "execute"
  /\ Answer(r, IF input[r].capability \in PairCapabilities THEN 422 ELSE 404)
  /\ UNCHANGED <<shared, input, planned, steps, entry, fits, ran, flips>>

\* The conditions of execute_plan on the plan; RunIsSupported says that
\* they hold here, so its refusals are left out.
MayExecute(r) ==
  LET plan == PlanSteps(Capability(input[r])) IN
  /\ ValidPlan(plan)
  /\ \A k \in DOMAIN steps[r] : steps[r][k]
  /\ Executable(r)
  /\ SingleStep(plan)

\* require_provider_ready: the provider is no longer ready.
ProviderLost(r) ==
  /\ pc[r] = "execute"
  /\ MayExecute(r)
  /\ ~Available(Capability(input[r])[1])
  /\ Unavailable(r, Capability(input[r])[1])
  /\ UNCHANGED <<shared, input, planned, steps, fits, ran, status, flips>>

\* The model is invoked.
Invoke(r) ==
  /\ pc[r] = "execute"
  /\ MayExecute(r)
  /\ Available(Capability(input[r])[1])
  /\ ran' = [ran EXCEPT ![r] = Append(@, Capability(input[r])[1])]
  /\ Goto(r, "infer")
  /\ UNCHANGED <<shared, input, planned, steps, entry, fits, status, flips>>

\* _validate_result accepts its result, which may still not fit the response
\* (evidence that is a list, but not of objects).
Result(r) ==
  /\ pc[r] = "infer"
  /\ \E fit \in BOOLEAN : fits' = [fits EXCEPT ![r] = fit]
  /\ entry' = [entry EXCEPT ![r] =
       [request |-> r, mode |-> "live", model |-> TRUE, capability |-> Capability(input[r])[1]]]
  /\ Goto(r, "append")
  /\ UNCHANGED <<shared, input, planned, steps, ran, status, flips>>

\* Mutant: a failed run is answered with the committed result.
MutNoResult(r) ==
  /\ pc[r] = "infer"
  /\ entry' = [entry EXCEPT ![r] = [request |-> r, mode |-> "cached_result",
                                    model |-> TRUE, capability |-> "single_image_vqa"]]
  /\ Goto(r, "append")
  /\ UNCHANGED <<shared, input, planned, steps, fits, ran, status, flips>>

\* _infer_in_thread, or the worker, gives the run up at its deadline: what it
\* still returns reaches nobody.
Late(r) ==
  /\ pc[r] = "infer"
  /\ Answer(r, 503)
  /\ UNCHANGED <<shared, input, planned, steps, entry, fits, ran, flips>>

\* It is unavailable or crashes (503), raises or returns something invalid (502).
NoResult(r) ==
  /\ pc[r] = "infer"
  /\ \E code \in {502, 503} : Answer(r, code)
  /\ UNCHANGED <<shared, input, planned, steps, entry, fits, ran, flips>>

-----------------------------------------------------------------------------
(* append_record, under its lock.                                          *)

\* The trace cannot be loaded or opened: TracePersistenceError.
AppendRefused(r) ==
  /\ pc[r] = "append"
  /\ appending = Nobody
  /\ ~healthy
  /\ Answer(r, 503)
  /\ UNCHANGED <<shared, input, planned, steps, entry, fits, ran, flips>>

\* Mutant: the lock is not held across the append.
MutAppendRecord(r) ==
  /\ pc[r] = "append"
  /\ appending = Nobody
  /\ healthy
  /\ log' = Append(log, entry[r])
  /\ Goto(r, "fsync")
  /\ UNCHANGED <<ready, healthy, acked, appending, input, planned, steps, entry, fits, ran,
                 status, flips>>

AppendRecord(r) ==
  /\ pc[r] = "append"
  /\ appending = Nobody
  /\ healthy
  /\ log' = Append(log, entry[r])
  /\ appending' = r
  /\ Goto(r, "fsync")
  /\ UNCHANGED <<ready, healthy, acked, input, planned, steps, entry, fits, ran, status, flips>>

\* The append is acknowledged: a run or a replay is answered, an unready
\* provider is raised as ProviderNotReady, and a result that does not fit
\* AnalyzeResponse ends in the route's last except clause.
Acknowledge(r) ==
  /\ pc[r] = "fsync"
  /\ acked' = acked \cup {<<Len(log), log[Len(log)]>>}
  /\ appending' = Nobody
  /\ Answer(r, IF ~entry[r].model THEN 503 ELSE IF fits[r] THEN 200 ELSE 502)
  /\ UNCHANGED <<ready, healthy, log, input, planned, steps, entry, fits, ran, flips>>

\* Mutant: a failed append is logged and the answer given all the same.
MutAppendFails(r) ==
  /\ pc[r] = "fsync"
  /\ log' \in {log, SubSeq(log, 1, Len(log) - 1)}
  /\ appending' = Nobody
  /\ Answer(r, IF entry[r].model THEN 200 ELSE 503)
  /\ UNCHANGED <<ready, healthy, acked, input, planned, steps, entry, fits, ran, flips>>

\* An OSError after some bytes: the entry stays in the file or does not.
AppendFails(r) ==
  /\ pc[r] = "fsync"
  /\ log' \in {log, SubSeq(log, 1, Len(log) - 1)}
  /\ appending' = Nobody
  /\ Answer(r, 503)
  /\ UNCHANGED <<ready, healthy, acked, input, planned, steps, entry, fits, ran, flips>>

-----------------------------------------------------------------------------

\* A provider becomes ready or unready; the trace becomes unusable or usable.
Flip ==
  /\ flips < MaxFlips
  /\ flips' = flips + 1
  /\ \/ /\ \E c \in Registered :
             ready' = (ready \ {ModelOf(c)}) \cup ({ModelOf(c)} \ ready)
        /\ UNCHANGED healthy
     \/ /\ healthy' = ~healthy
        /\ UNCHANGED ready
  /\ UNCHANGED <<log, acked, appending, locals>>

Step(r) ==
  \/ RefuseQuestion(r) \/ PlanRequest(r) \/ ResolveStep(r)
  \/ RefuseInputs(r) \/ SceneMissing(r) \/ PassGuards(r)
  \/ RecheckUnready(r) \/ RecheckReady(r)
  \/ Replay(r) \/ ArtifactInvalid(r) \/ NoReplay(r)
  \/ InputsMissing(r) \/ ProviderLost(r) \/ Invoke(r)
  \/ Result(r) \/ Late(r) \/ NoResult(r)
  \/ AppendRefused(r) \/ AppendRecord(r) \/ Acknowledge(r) \/ AppendFails(r)

Next == Flip \/ \E r \in Requests : Step(r)

Spec == Init /\ [][Next]_vars

-----------------------------------------------------------------------------
(* Properties.                                                             *)

Records(r) == {k \in DOMAIN log : log[k].request = r}

\* No answer without its record: the answer a client gets has exactly one
\* record in the trace, acknowledged, of the mode it asked for, however many
\* requests append at once and whatever fails.
AnswerIsRecorded ==
  \A r \in Requests : status[r] = 200 =>
    \E k \in DOMAIN log :
      /\ Records(r) = {k} /\ <<k, log[k]>> \in acked
      /\ log[k].model /\ (log[k].mode = "live" <=> input[r].live)

\* No record of what did not happen: a live record is of the one model that
\* ran for its request, "not-executed" stands only where none ran, and a
\* replay is recorded only for a request that asked for it, never to cover a
\* live failure.
RecordIsTrue ==
  \A k \in DOMAIN log :
    LET e == log[k]
        r == e.request
    IN /\ e.mode = "live" /\ e.model => ran[r] = <<e.capability>>
       /\ e.mode = "live" /\ ~e.model => ran[r] = <<>> /\ status[r] # 200
       /\ e.mode = "cached_result" => ran[r] = <<>> /\ ~input[r].live /\ input[r].golden

\* A model runs at most once for a request, and only the one selected, for a
\* request that can be served as a whole: a combined question, a SAR image or
\* a missing scene never falls through to a model ("a plan that cannot
\* complete never invokes any provider", execute_plan), whatever readiness
\* does meanwhile; the plan built for it is well formed, and what
\* analyze_scene lets through, execute_plan does not refuse.
RunIsSupported ==
  \A r \in Requests :
    /\ pc[r] = "guards" => ValidPlan(PlanSteps(Capability(input[r])))
    /\ pc[r] = "execute" => MayExecute(r)
    /\ ran[r] # <<>> =>
         /\ ran[r] = <<input[r].capability>>
         /\ input[r].live /\ ~input[r].combined
         /\ input[r].capability = "single_image_vqa" => ~input[r].sar
         /\ input[r].capability \in PairCapabilities => input[r].pair

\* Requests use the trace only in ways AuditLog allows.
UsesTrace == Audit!Spec
=============================================================================
