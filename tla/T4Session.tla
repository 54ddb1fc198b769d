----------------------------- MODULE T4Session -----------------------------
(***************************************************************************)
(* The evidence session of scripts/run_stage1_t4.py: the stages verify,    *)
(* smoke, resume, overfit and extrapolate, each a sequence of training or  *)
(* measuring runs of scripts/run_stage1_smoke.py with gates at its end and *)
(* at most two attempts.  All runs share one directory of checkpoints,     *)
(* whose storage keeps two.  What a model computes is abstracted to        *)
(* whether a step, a run or a gate passes.                                 *)
(***************************************************************************)
EXTENDS Integers, Sequences, SequencesExt, FiniteSets

CONSTANTS
  Steps,        \* steps of the configuration
  OverfitSteps, \* the number of steps the overfit stage is sized to
  Every,        \* checkpoint_every_steps
  Absent        \* model value: no such file

ASSUME SessionAssumption ==
  /\ Steps \in Nat \ {0, 1} /\ OverfitSteps \in Nat \ {0}
  /\ Every \in Nat \ {0}

VARIABLES
  mode,      \* --mode
  fixed,     \* --config, or "none"
  evidence,  \* the JSON files of the stages
  outputs,   \* the JSON files of the runs
  files,     \* the checkpoints of the output directory
  registry,  \* .stage1-checkpoints.json
  stage, attempt, config,  \* where the session is
  job,       \* how many runs of the stage's attempt have begun
  running, step,           \* the run under way, and its optimizer step
  attempted  \* completed, the list of main

diskVars == <<evidence, outputs, files, registry>>
runVars == <<job, running, step>>
vars == <<mode, fixed, diskVars, stage, attempt, config, runVars, attempted>>

Attempts == {1, 2}
Configs == <<"config", "config-vision-fp32">>
ConfigNames == {"none", "config", "config-vision-fp32"}
Stages == {"verify", "smoke", "resume", "overfit", "extrapolate"}

\* The runs of an attempt at a stage.  The last one only reads the others.
Jobs(s) ==
  CASE s = "smoke" -> <<"smoke">>
    [] s = "resume" -> <<"interrupted", "resumed", "uninterrupted">>
    [] s = "overfit" -> <<"train", "true-eval", "shuffle-eval", "decode">>
    [] OTHER -> <<>>
JobNames == {"smoke", "interrupted", "resumed", "uninterrupted", "train",
             "true-eval", "shuffle-eval", "decode"}
Trains(j) == j \in {"smoke", "interrupted", "resumed", "uninterrupted", "train"}

\* The output of a run: its job and attempt, as the file's suffix has it.
Outputs == JobNames \X Attempts
Own(o) == <<o, "pt">>
Previous(o) == <<o, "previous">>
Trained == {o \in Outputs : Trains(o[1])}
Managed == {Own(o) : o \in Trained} \cup {Previous(o) : o \in Trained}

\* What a checkpoint and a stage's file hold.
Checkpoint == [step : Nat, total : {Steps, OverfitSteps}, config : ConfigNames]
StageResult == [passed : BOOLEAN, config : ConfigNames, attempt : Attempts]

ASSUME MarkerAssumption == Absent \notin Checkpoint /\ Absent \notin StageResult

\* The JSON files of the stages.
Evidence ==
  {"verify", "smoke", "smoke1-failure", "smoke2-failure", "resume", "resume2",
   "resume1-failure", "resume2-failure", "overfit", "overfit2", "extrapolate",
   "summary"}

Init ==
  /\ mode \in {"all", "verify", "resume"}
  /\ fixed \in {"none"} \cup Range(Configs)
  /\ evidence = [e \in Evidence |-> Absent]
  /\ outputs = [o \in Outputs |-> Absent]
  /\ files = [f \in Managed |-> Absent] /\ registry = <<>>
  /\ stage = "verify" /\ attempt = 1 /\ config = "none"
  /\ job = 0 /\ running = FALSE /\ step = 0
  /\ attempted = {}

Written(e, r) == evidence' = [evidence EXCEPT ![e] = r]
Result(passed) == [passed |-> passed, config |-> config, attempt |-> attempt]
NoRun == job' = 0 /\ running' = FALSE /\ step' = 0
SameOptions == UNCHANGED <<mode, fixed>>
SameRuns == UNCHANGED <<outputs, files, registry>>

-----------------------------------------------------------------------------
\* The configuration of an attempt at the smoke stage: the second falls back
\* to vision in fp32, unless one was asked for.
SmokeConfigs == IF fixed = "none" THEN Configs ELSE <<fixed>>

\* The summary of a session that is over.
Summary(passed, stages) ==
  [passed |-> passed, config |-> config, stages |-> stages]

\* A stage begins.
Enter(s, c) ==
  stage' = s /\ attempt' = 1 /\ config' = c /\ NoRun

Over(e) ==
  /\ stage' = "over" /\ evidence' = e
  /\ NoRun /\ UNCHANGED <<attempt, config>>

\* stage_verify, the smallest: its proof goes to its file.
Verify(proof) ==
  /\ stage = "verify"
  /\ LET e == [evidence EXCEPT !["verify"] = Result(proof)] IN
     IF ~proof
     THEN Over([e EXCEPT !["summary"] = Summary(FALSE, {"verify"})])
          /\ UNCHANGED attempted
     ELSE /\ attempted' = {"verify"}
          /\ IF mode = "verify"
             THEN Over([e EXCEPT !["summary"] = Summary(TRUE, {"verify"})])
             ELSE /\ evidence' = e
                  /\ IF mode = "resume"
                     THEN Enter("resume", IF fixed = "none" THEN Configs[1]
                                          ELSE fixed)
                     ELSE Enter("smoke", SmokeConfigs[1])
  /\ SameOptions /\ SameRuns

-----------------------------------------------------------------------------
\* run and evaluate_losses.
Job == Jobs(stage)[job]
Output == <<Job, attempt>>

\* The steps the configuration's or the overfit schedule has, and where the
\* run stops.
TotalSteps == IF stage = "overfit" THEN OverfitSteps ELSE Steps
Cut == Steps \div 2
StopsAt == IF Job = "interrupted" THEN Cut ELSE TotalSteps

\* The checkpoint a run loads: that of the run it continues or measures.
LoadsFrom(j) ==
  CASE j = "resumed" -> "interrupted"
    [] j \in {"true-eval", "shuffle-eval", "decode"} -> "train"
    [] OTHER -> "none"
Loads(j) == LoadsFrom(j) # "none"
Loaded == files[Own(<<LoadsFrom(Job), attempt>>)]

\* A run begins with its record, and verifies the weights.
StartRun ==
  /\ stage \in {"smoke", "resume", "overfit"} /\ ~running
  /\ job < Len(Jobs(stage))
  /\ job' = job + 1 /\ running' = TRUE /\ step' = 0
  /\ IF Jobs(stage)[job + 1] = "decode" THEN UNCHANGED outputs
     ELSE outputs' = [outputs EXCEPT ![<<Jobs(stage)[job + 1], attempt>>] =
                        [status |-> "started", config |-> config, losses |-> {}]]
  /\ SameOptions
  /\ UNCHANGED <<evidence, files, registry, stage, attempt, config, attempted>>

\* validate_checkpoint_identity and restore_training_state.
Identity(c) == c.config = config /\ c.total = TotalSteps

\* A resumed run goes on at the checkpoint's step.
Resume ==
  /\ running /\ Job = "resumed" /\ step = 0
  /\ Loaded # Absent /\ Identity(Loaded)
  /\ step' = Loaded.step
  /\ SameOptions
  /\ UNCHANGED <<diskVars, stage, attempt, config, job, running, attempted>>

\* bounded_checkpoint_save: the last two names are kept, and an earlier
\* version of the same output is one of them for as long as it is recent.
\* No name is in the list twice.
Without(s, f) ==
  IF f \in Range(s)
  THEN LET at == CHOOSE i \in 1 .. Len(s) : s[i] = f IN RemoveAt(s, at)
  ELSE s
MutKept(s) == SubSeq(s, 1, IF Len(s) > 2 THEN 2 ELSE Len(s))
Kept(s) == SubSeq(s, IF Len(s) > 2 THEN Len(s) - 1 ELSE 1, Len(s))

Save(o, c) ==
  LET moved == IF files[Own(o)] = Absent THEN registry
               ELSE Append(Without(Without(registry, Own(o)), Previous(o)),
                           Previous(o))
      kept == Kept(Append(Without(moved, Own(o)), Own(o)))
  IN /\ registry' = kept
     /\ files' = [f \in Managed |->
          IF f \notin Range(kept) THEN Absent
          ELSE IF f = Own(o) THEN c
          ELSE IF f = Previous(o) /\ files[Own(o)] # Absent THEN files[Own(o)]
          ELSE files[f]]

Due(s) == s % Every = 0 \/ s = StopsAt

\* An optimizer step goes to the record, and a save may be due after it.
TrainStep ==
  /\ running /\ Trains(Job) /\ step < StopsAt
  /\ Job = "resumed" => step > 0
  /\ step' = step + 1
  /\ outputs' = [outputs EXCEPT ![Output].losses = @ \cup {step + 1}]
  /\ IF Due(step + 1)
     THEN Save(Output, [step |-> step + 1, total |-> TotalSteps,
                        config |-> config])
     ELSE UNCHANGED <<files, registry>>
  /\ SameOptions
  /\ UNCHANGED <<evidence, stage, attempt, config, job, running, attempted>>

\* A measurement at the state of a checkpoint.
Measured ==
  /\ ~Trains(Job) /\ Loaded # Absent /\ Identity(Loaded)

EndRun ==
  /\ running
  /\ (Trains(Job) /\ step = StopsAt) \/ Measured
  /\ running' = FALSE
  /\ IF Job = "decode" THEN UNCHANGED outputs
     ELSE outputs' = [outputs EXCEPT ![Output].status = "completed"]
  /\ SameOptions
  /\ UNCHANGED <<evidence, files, registry, stage, attempt, config, job, step,
                 attempted>>

\* What raises in a run, or in a measurement, ends in its record.
FailedRun == [outputs EXCEPT ![Output].status = "failed"]
FailedMeasurement ==
  IF Job = "decode" THEN outputs ELSE [outputs EXCEPT ![Output].status = "failed"]
FailedOutputs == IF Trains(Job) THEN FailedRun ELSE FailedMeasurement

-----------------------------------------------------------------------------
\* What the stages make of the runs.  A stage that failed ends the session.
FailStage(e) ==
  Over([e EXCEPT !["summary"] = Summary(FALSE, attempted \cup {stage})])

\* The first attempt at the smoke stage is followed by a second.
SmokeRaises ==
  /\ stage = "smoke" /\ running
  /\ outputs' = FailedOutputs
  /\ LET e == [evidence EXCEPT
                 !["smoke"] = Result(FALSE),
                 ![IF attempt = 1 THEN "smoke1-failure" ELSE "smoke2-failure"] =
                    Result(FALSE)]
     IN IF attempt < Len(SmokeConfigs)
        THEN /\ evidence' = e
             /\ attempt' = attempt + 1 /\ config' = SmokeConfigs[attempt + 1]
             /\ NoRun /\ UNCHANGED stage
        ELSE FailStage(e)
  /\ SameOptions /\ UNCHANGED <<files, registry, attempted>>

\* The runs of the attempt are done, and their gates are evaluated.
RunsDone(s) == stage = s /\ ~running /\ job = Len(Jobs(s))

\* step_loss: the losses of the steps after the cut are compared, step by step.
Losses(j, a) == outputs[<<j, a>>].losses
Compared == Cut + 1 .. Steps
Comparable(a) ==
  Compared \subseteq Losses("resumed", a) \cap Losses("uninterrupted", a)

\* An execution, or a comparison, that fails is not repeated by the resume stage.
ResumeRaises ==
  /\ stage = "resume"
  /\ \/ running /\ outputs' = FailedOutputs
     \/ RunsDone("resume") /\ ~Comparable(attempt) /\ UNCHANGED outputs
  /\ FailStage([evidence EXCEPT
       ![IF attempt = 1 THEN "resume1-failure" ELSE "resume2-failure"] =
          Result(FALSE)])
  /\ SameOptions /\ UNCHANGED <<files, registry, attempted>>

\* Nor by the overfit stage, which leaves no file of its own and no summary.
OverfitRaises ==
  /\ stage = "overfit" /\ running
  /\ outputs' = FailedOutputs
  /\ Over(evidence)
  /\ SameOptions /\ UNCHANGED <<files, registry, attempted>>

MutSmokePasses ==
  /\ RunsDone("smoke")
  /\ Written("smoke", Result(TRUE))
  /\ attempted' = attempted \cup {"smoke"} /\ Enter("resume", Configs[1])
  /\ SameOptions /\ SameRuns
SmokePasses ==
  /\ RunsDone("smoke")
  /\ Written("smoke", Result(TRUE))
  /\ attempted' = attempted \cup {"smoke"} /\ Enter("resume", config)
  /\ SameOptions /\ SameRuns

\* The file of the stage's attempt, and of the stage once it has passed.
AttemptFile(s) ==
  CASE s = "resume" -> IF attempt = 1 THEN "resume" ELSE "resume2"
    [] s = "overfit" -> IF attempt = 1 THEN "overfit" ELSE "overfit2"

\* The losses and the learning rates agree, or not; all three runs passed.
ResumeGates(agree) ==
  /\ agree
  /\ \A j \in Range(Jobs("resume")) : outputs[<<j, attempt>>].status = "completed"

\* The loss has fallen, was finite throughout and had no early spike, and the
\* images matter; and enough captions are reproduced.
OverfitGates(agree, reproduced) ==
  agree /\ outputs[<<"train", attempt>>].status = "completed" /\ reproduced

Passed(s, agree) ==
  IF s = "resume" THEN Comparable(attempt) /\ ResumeGates(agree)
  ELSE OverfitGates(agree, TRUE)

GatePasses(s) ==
  /\ RunsDone(s) /\ Passed(s, TRUE)
  /\ LET e == [evidence EXCEPT ![AttemptFile(s)] = Result(TRUE),
                               ![s] = Result(TRUE)]
     IN IF mode = "resume"
        THEN Over([e EXCEPT !["summary"] = Summary(TRUE, {"verify", "resume"})])
        ELSE /\ evidence' = e
             /\ Enter(IF s = "resume" THEN "overfit" ELSE "extrapolate", config)
  /\ attempted' = attempted \cup {s}
  /\ SameOptions /\ SameRuns

\* An attempt whose gates fail is followed by another.
NextAttempt(s) ==
  LET e == [evidence EXCEPT ![AttemptFile(s)] = Result(FALSE)]
  IN IF attempt = 1
     THEN /\ evidence' = e /\ attempt' = 2 /\ NoRun
          /\ UNCHANGED <<stage, config>>
     ELSE FailStage(e)

GateFails(s) ==
  /\ RunsDone(s) /\ ~Passed(s, FALSE)
  /\ s = "resume" => Comparable(attempt)
  /\ NextAttempt(s)
  /\ SameOptions /\ SameRuns /\ UNCHANGED attempted

\* A decode that is not finite reproduces nothing.
DecodeNotFinite ==
  /\ running /\ Job = "decode" /\ ~OverfitGates(TRUE, FALSE)
  /\ NextAttempt("overfit")
  /\ SameOptions /\ SameRuns /\ UNCHANGED attempted

\* stage_extrapolate, and the summary of a session that went to its end.
Extrapolate ==
  /\ stage = "extrapolate"
  /\ attempted' = attempted \cup {"extrapolate"}
  /\ Over([evidence EXCEPT !["extrapolate"] = Result(TRUE),
                           !["summary"] = Summary(TRUE, attempted')])
  /\ SameOptions /\ SameRuns

RunStep == StartRun \/ Resume \/ TrainStep \/ EndRun
StageStep ==
  \/ \E proof \in BOOLEAN : Verify(proof)
  \/ SmokeRaises \/ ResumeRaises \/ OverfitRaises \/ DecodeNotFinite
  \/ SmokePasses \/ Extrapolate
  \/ \E s \in {"resume", "overfit"} : GatePasses(s) \/ GateFails(s)

Next == RunStep \/ StageStep

Spec == Init /\ [][Next]_vars
-----------------------------------------------------------------------------
Exists(e) == evidence[e] # Absent

\* A summary that says all stages passed is borne out by the files: each
\* stage it names passed, those after the smoke stage with the configuration
\* that passed it; the runs of its attempt have records of completion; and the
\* resumed run compared every step after the cut, and trained none before it.
SummaryIsTrue ==
  Exists("summary") /\ evidence["summary"].passed =>
    \A s \in evidence["summary"].stages :
      /\ Exists(s) /\ evidence[s].passed
      /\ s # "verify" => evidence[s].config = evidence["summary"].config
      /\ \A j \in Range(Jobs(s)) \ {"decode"} :
           LET o == outputs[<<j, evidence[s].attempt>>]
           IN o.status = "completed" /\ o.config = evidence[s].config
      /\ s = "resume" =>
           LET a == evidence[s].attempt
           IN /\ Losses("resumed", a) = Compared
              /\ Losses("interrupted", a) \cup Compared = Losses("uninterrupted", a)

\* The checkpoint a run is to load is there, of its own configuration and
\* schedule, and of the step where the run it continues or measures stopped,
\* although every run saves to a storage that keeps the last two files.
CheckpointAwaits ==
  running /\ Loads(Job) /\ (Job = "resumed" => step = 0) =>
    /\ Loaded # Absent /\ Identity(Loaded)
    /\ Loaded.step = IF Job = "resumed" THEN Cut ELSE OverfitSteps
=============================================================================
