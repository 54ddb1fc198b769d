-------------------------- MODULE T4SessionProofs --------------------------
(***************************************************************************)
(* Proofs about the evidence session, for every number of steps and every  *)
(* interval of checkpoints.  The invariant has three parts: what the       *)
(* records of the current attempt's runs hold so far, which checkpoint     *)
(* waits for the run that needs it, and what the files prove of the stages *)
(* that are behind.                                                        *)
(***************************************************************************)
EXTENDS T4Session, SequenceTheorems, TLAPS

AllStages == Stages \cup {"over"}

\* The types that the proofs use.
TypeOK ==
  /\ mode \in {"all", "verify", "resume"}
  /\ fixed \in ConfigNames /\ config \in ConfigNames
  /\ stage \in AllStages /\ attempt \in Attempts
  /\ DOMAIN evidence = Evidence /\ DOMAIN outputs = Outputs
  /\ DOMAIN files = Managed /\ registry \in Seq(Managed)
  /\ job \in 0 .. Len(Jobs(stage)) /\ running \in BOOLEAN /\ step \in Nat
  /\ attempted \subseteq Stages

\* The record of a run that is over says so.
Done(j, a, c) ==
  /\ outputs[<<j, a>>].status = "completed" /\ outputs[<<j, a>>].config = c
  /\ j = "interrupted" => outputs[<<j, a>>].losses = 1 .. Cut
  /\ j = "resumed" => outputs[<<j, a>>].losses = Compared
  /\ j = "uninterrupted" => outputs[<<j, a>>].losses = 1 .. Steps

\* What the record of the run under way holds: the steps it has taken.
UnderWay ==
  /\ job # 0 /\ stage \in {"smoke", "resume", "overfit"}
  /\ Trains(Job) => step <= StopsAt
  /\ Job # "decode" => outputs[Output].config = config
  /\ Job \in {"interrupted", "uninterrupted"} => outputs[Output].losses = 1 .. step
  /\ Job = "resumed" =>
       \/ step = 0 /\ outputs[Output].losses = {}
       \/ step >= Cut /\ outputs[Output].losses = Cut + 1 .. step

RunInv ==
  /\ running => UnderWay
  /\ ~running /\ job # 0 /\ Trains(Job) => step = StopsAt
  /\ \A k \in 1 .. Len(Jobs(stage)) :
       (k < job \/ (k = job /\ ~running)) /\ Jobs(stage)[k] # "decode"
         => Done(Jobs(stage)[k], attempt, config)

\* The checkpoints that the stage's later runs need.
Point(s, t) == [step |-> s, total |-> t, config |-> config]
FileInv ==
  /\ stage = "resume" /\ ((job = 1 /\ step = Cut) \/ (job = 2 /\ running /\ step = 0))
       => files[Own(<<"interrupted", attempt>>)] = Point(Cut, Steps)
  /\ stage = "overfit" /\ ((job = 1 /\ step = OverfitSteps) \/ job > 1)
       => files[Own(<<"train", attempt>>)] = Point(OverfitSteps, OverfitSteps)

\* The files prove that a stage passed.
Proven(s) ==
  /\ evidence[s] \in StageResult /\ evidence[s].passed
  /\ s # "verify" => evidence[s].config = config
  /\ \A j \in Range(Jobs(s)) \ {"decode"} :
       Done(j, evidence[s].attempt, evidence[s].config)
StageInv ==
  /\ stage = "verify" => attempted = {}
  /\ stage = "smoke" => attempted = {"verify"}
  /\ stage = "resume" => "verify" \in attempted /\ attempted \subseteq {"verify", "smoke"}
  /\ stage = "overfit" =>
       {"verify", "resume"} \subseteq attempted
       /\ attempted \subseteq {"verify", "smoke", "resume"}
  /\ stage = "extrapolate" => attempted \subseteq {"verify", "smoke", "resume", "overfit"}
  /\ stage # "over" => evidence["summary"] = Absent
  /\ Exists("summary") /\ evidence["summary"].passed =>
       /\ evidence["summary"].stages \subseteq attempted
       /\ evidence["summary"].config = config
  /\ \A s \in attempted : Proven(s)

\* What the proofs use of the constants.
LEMMA Constants ==
  /\ Steps \in Nat /\ Cut \in Nat /\ 1 <= Cut /\ Cut < Steps
  /\ OverfitSteps \in Nat \ {0} /\ Every \in Nat \ {0}
  BY SessionAssumption DEF Cut

\* The runs of the stages.
LEMMA JobFacts ==
  /\ Len(Jobs("smoke")) = 1 /\ Jobs("smoke")[1] = "smoke"
  /\ Len(Jobs("resume")) = 3 /\ Jobs("resume")[1] = "interrupted"
  /\ Jobs("resume")[2] = "resumed" /\ Jobs("resume")[3] = "uninterrupted"
  /\ Len(Jobs("overfit")) = 4 /\ Jobs("overfit")[1] = "train"
  /\ Jobs("overfit")[2] = "true-eval" /\ Jobs("overfit")[3] = "shuffle-eval"
  /\ Jobs("overfit")[4] = "decode"
  /\ \A s \in {"verify", "extrapolate", "over"} : Len(Jobs(s)) = 0
  BY DEF Jobs

LEMMA JobRanges ==
  /\ Range(Jobs("smoke")) = {"smoke"}
  /\ Range(Jobs("resume")) = {"interrupted", "resumed", "uninterrupted"}
  /\ Range(Jobs("overfit")) = {"train", "true-eval", "shuffle-eval", "decode"}
  /\ \A s \in {"verify", "extrapolate", "over"} : Range(Jobs(s)) = {}
<1>1. Range(Jobs("smoke")) = {"smoke"}  BY SMT DEF Jobs, Range
<1>2. Range(Jobs("resume")) = {"interrupted", "resumed", "uninterrupted"}
  BY SMT DEF Jobs, Range
<1>3. Range(Jobs("overfit")) = {"train", "true-eval", "shuffle-eval", "decode"}
  BY SMT DEF Jobs, Range
<1>4. \A s \in {"verify", "extrapolate", "over"} : Range(Jobs(s)) = {}
  BY SMT DEF Jobs, Range
<1> QED  BY <1>1, <1>2, <1>3, <1>4

\* The stages' runs are their own, and a stage has each once.
LEMMA JobsAreOwn ==
  /\ \A s, t \in AllStages : s # t => Range(Jobs(s)) \cap Range(Jobs(t)) = {}
  /\ \A s \in AllStages : \A i, k \in 1 .. Len(Jobs(s)) :
       Jobs(s)[i] = Jobs(s)[k] => i = k
  /\ \A s \in AllStages : \A k \in 1 .. Len(Jobs(s)) :
       Jobs(s)[k] \in Range(Jobs(s)) /\ Jobs(s)[k] \in JobNames
  /\ \A s \in AllStages : Len(Jobs(s)) \in Nat /\ Range(Jobs(s)) \subseteq JobNames
<1>1. \A s \in AllStages : s \in {"smoke", "resume", "overfit"}
                            \/ s \in {"verify", "extrapolate", "over"}
  BY DEF AllStages, Stages
<1>2. \A s, t \in AllStages : s # t => Range(Jobs(s)) \cap Range(Jobs(t)) = {}
  BY <1>1, JobRanges
<1>3. \A s \in AllStages : \A i, k \in 1 .. Len(Jobs(s)) :
        Jobs(s)[i] = Jobs(s)[k] => i = k
  BY <1>1, JobFacts
<1>4. \A s \in AllStages : \A k \in 1 .. Len(Jobs(s)) :
        Jobs(s)[k] \in Range(Jobs(s)) /\ Jobs(s)[k] \in JobNames
  BY <1>1, JobFacts, JobRanges DEF JobNames
<1>5. \A s \in AllStages : Len(Jobs(s)) \in Nat /\ Range(Jobs(s)) \subseteq JobNames
  BY <1>1, JobFacts, JobRanges DEF JobNames
<1> QED  BY <1>2, <1>3, <1>4, <1>5

-----------------------------------------------------------------------------
\* Removing a name from a list of names leaves a list of names.
LEMMA WithoutType ==
  ASSUME NEW s \in Seq(Managed), NEW f
  PROVE  Without(s, f) \in Seq(Managed)
<1>1. CASE f \notin Range(s)  BY <1>1 DEF Without
<1>2. CASE f \in Range(s)
  <2> DEFINE at == CHOOSE i \in 1 .. Len(s) : s[i] = f
  <2>1. at \in 1 .. Len(s)  BY <1>2, SMT DEF Range
  <2> HIDE DEF at
  <2>2. SubSeq(s, 1, at - 1) \in Seq(Managed)  BY <2>1, SMT
  <2>3. SubSeq(s, at + 1, Len(s)) \in Seq(Managed)  BY <2>1, SMT
  <2>4. RemoveAt(s, at) \in Seq(Managed)  BY <2>2, <2>3 DEF RemoveAt
  <2> QED  BY <1>2, <2>4 DEF Without, at
<1> QED  BY <1>1, <1>2

\* The registry keeps names, among them the one registered last.
LEMMA KeptHasLast ==
  ASSUME NEW s \in Seq(Managed), NEW f \in Managed
  PROVE  /\ Kept(Append(s, f)) \in Seq(Managed)
         /\ f \in Range(Kept(Append(s, f)))
<1> DEFINE t == Append(s, f)
           from == IF Len(t) > 2 THEN Len(t) - 1 ELSE 1
<1>1. t \in Seq(Managed) /\ Len(t) \in Nat /\ Len(t) >= 1 /\ t[Len(t)] = f
  BY SMT
<1> HIDE DEF t
<1>2. from \in 1 .. Len(t)  BY <1>1
<1> HIDE DEF from
<1>3. /\ SubSeq(t, from, Len(t)) \in Seq(Managed)
      /\ Len(SubSeq(t, from, Len(t))) = Len(t) - from + 1
      /\ SubSeq(t, from, Len(t))[Len(t) - from + 1] = t[Len(t)]
  BY <1>1, <1>2, SMT
<1>4. Len(t) - from + 1 \in DOMAIN SubSeq(t, from, Len(t))  BY <1>1, <1>2, <1>3, SMT
<1>5. t[Len(t)] \in Range(SubSeq(t, from, Len(t)))  BY <1>3, <1>4 DEF Range
<1> QED  BY <1>1, <1>3, <1>5 DEF Kept, t, from

\* A save keeps the types of the storage, and what it saved
\* (bounded_checkpoint_save).
LEMMA SaveKeeps ==
  ASSUME registry \in Seq(Managed), NEW o \in Trained, NEW c, Save(o, c)
  PROVE  DOMAIN files' = Managed /\ registry' \in Seq(Managed) /\ files'[Own(o)] = c
<1> DEFINE moved == IF files[Own(o)] = Absent THEN registry
                    ELSE Append(Without(Without(registry, Own(o)), Previous(o)),
                                Previous(o))
           rest == Without(moved, Own(o))
           kept == Kept(Append(rest, Own(o)))
<1>1. Own(o) \in Managed /\ Previous(o) \in Managed  BY DEF Managed
<1>2. Without(Without(registry, Own(o)), Previous(o)) \in Seq(Managed)
  BY WithoutType
<1>3. moved \in Seq(Managed)  BY <1>1, <1>2, SMT
<1> HIDE DEF moved
<1>4. rest \in Seq(Managed)  BY <1>3, WithoutType
<1> HIDE DEF rest
<1>5. kept \in Seq(Managed) /\ Own(o) \in Range(kept)  BY <1>1, <1>4, KeptHasLast
<1>6. registry' = kept /\ files' = [f \in Managed |->
          IF f \notin Range(kept) THEN Absent
          ELSE IF f = Own(o) THEN c
          ELSE IF f = Previous(o) /\ files[Own(o)] # Absent THEN files[Own(o)]
          ELSE files[f]]
  BY DEF Save, moved, rest
<1> HIDE DEF kept
<1> QED  BY <1>1, <1>5, <1>6

-----------------------------------------------------------------------------
\* The runs that train have checkpoints of their own.
LEMMA OutputFacts ==
  ASSUME TypeOK, running, UnderWay
  PROVE  /\ job \in 1 .. Len(Jobs(stage)) /\ Job \in JobNames
         /\ Output \in Outputs
         /\ Trains(Job) => Output \in Trained
<1>1. job \in 1 .. Len(Jobs(stage)) /\ stage \in AllStages
  BY JobsAreOwn DEF TypeOK, UnderWay
<1>2. Job \in JobNames  BY <1>1, JobsAreOwn DEF Job
<1> QED  BY <1>1, <1>2 DEF TypeOK, Output, Outputs, Trained

\* The checkpoint that a run needs is there.
LEMMA LoadsWhatAwaits ==
  ASSUME TypeOK, RunInv, FileInv, running, Loads(Job), Job = "resumed" => step = 0
  PROVE  /\ Loaded = IF Job = "resumed" THEN Point(Cut, Steps)
                     ELSE Point(OverfitSteps, OverfitSteps)
         /\ stage = IF Job = "resumed" THEN "resume" ELSE "overfit"
<1>1. UnderWay /\ job \in 1 .. Len(Jobs(stage))
  BY OutputFacts DEF RunInv
<1>2. CASE stage = "smoke"
  <2>1. Job = "smoke"  BY <1>1, <1>2, JobFacts DEF Job
  <2> QED  BY <2>1 DEF Loads, LoadsFrom
<1>3. CASE stage = "resume"
  <2>1. Job \in {"interrupted", "resumed", "uninterrupted"} /\ (Job = "resumed" => job = 2)
    BY <1>1, <1>3, JobFacts DEF Job
  <2>2. Job = "resumed" /\ job = 2  BY <2>1 DEF Loads, LoadsFrom
  <2>3. Loaded = files[Own(<<"interrupted", attempt>>)]
    BY <2>2 DEF Loaded, LoadsFrom
  <2> QED  BY <1>3, <2>2, <2>3 DEF FileInv
<1>4. CASE stage = "overfit"
  <2>1. /\ Job \in {"train", "true-eval", "shuffle-eval", "decode"}
        /\ Job # "train" => job > 1
    BY <1>1, <1>4, JobFacts DEF Job
  <2>2. Job # "train" /\ job > 1 /\ LoadsFrom(Job) = "train"
    BY <2>1 DEF Loads, LoadsFrom
  <2>3. Loaded = files[Own(<<"train", attempt>>)]  BY <2>2 DEF Loaded
  <2> QED  BY <1>4, <2>1, <2>2, <2>3 DEF FileInv
<1> QED  BY <1>1, <1>2, <1>3, <1>4 DEF UnderWay

\* A checkpoint is none of the markers.
LEMMA PointIsCheckpoint ==
  ASSUME TypeOK, NEW s \in Nat, NEW t \in {Steps, OverfitSteps}
  PROVE  Point(s, t) \in Checkpoint /\ Point(s, t) # Absent
<1>1. Point(s, t) \in Checkpoint  BY DEF TypeOK, Point, Checkpoint
<1> QED  BY <1>1, MarkerAssumption

\* A step of a run keeps the types.
LEMMA RunTypes == TypeOK /\ RunInv /\ FileInv /\ RunStep => TypeOK'
<1> SUFFICES ASSUME TypeOK, RunInv, FileInv, RunStep PROVE TypeOK'  OBVIOUS
<1> USE DEF SameOptions, diskVars, TypeOK
<1>1. CASE StartRun
  <2>1. Len(Jobs(stage)) \in Nat  BY JobsAreOwn
  <2>2. DOMAIN outputs' = DOMAIN outputs /\ job' = job + 1 /\ job < Len(Jobs(stage))
    BY <1>1 DEF StartRun
  <2> QED  BY <1>1, <2>1, <2>2 DEF StartRun
<1>2. CASE Resume
  <2>1. running /\ Job = "resumed" /\ Loaded # Absent /\ step' = Loaded.step
    BY <1>2 DEF Resume
  <2>2. Loads(Job) /\ step = 0  BY <1>2, <2>1 DEF Resume, Loads, LoadsFrom
  <2>3. Loaded = Point(Cut, Steps)  BY <2>1, <2>2, LoadsWhatAwaits
  <2>4. step' \in Nat  BY <2>1, <2>3, Constants DEF Point
  <2> QED  BY <1>2, <2>4 DEF Resume
<1>3. CASE TrainStep
  <2>1. running /\ Trains(Job) /\ UnderWay  BY <1>3 DEF TrainStep, RunInv
  <2>2. Output \in Trained  BY <2>1, OutputFacts
  <2>3. DOMAIN files' = Managed /\ registry' \in Seq(Managed)
    BY <1>3, <2>2, SaveKeeps DEF TrainStep
  <2> QED  BY <1>3, <2>3 DEF TrainStep
<1>4. CASE EndRun
  BY <1>4 DEF EndRun
<1> QED  BY <1>1, <1>2, <1>3, <1>4 DEF RunStep

\* A stage that begins, or is over, has no run.
LEMMA NoRunYet ==
  ASSUME TypeOK, NoRun, UNCHANGED <<files, registry>>, SameOptions,
         stage' \in AllStages, attempt' \in Attempts, config' \in ConfigNames,
         DOMAIN evidence' = Evidence, DOMAIN outputs' = Outputs, attempted' \subseteq Stages
  PROVE  TypeOK' /\ RunInv' /\ FileInv'
<1>1. job' = 0 /\ running' = FALSE /\ step' = 0  BY DEF NoRun
<1>2. Len(Jobs(stage')) \in Nat  BY JobsAreOwn
<1>3. TypeOK'
  <2>1. job' \in 0 .. Len(Jobs(stage')) /\ step' \in Nat  BY <1>1, <1>2
  <2>2. running' \in BOOLEAN  BY <1>1, Zenon
  <2> QED  BY <2>1, <2>2 DEF TypeOK, SameOptions
<1>4. RunInv'  BY <1>1, <1>2 DEF RunInv
<1>5. FileInv'  BY <1>1 DEF FileInv
<1> QED  BY <1>3, <1>4, <1>5

\* A stage that passed remains proven while nothing touches its files.
LEMMA ProvenStays ==
  ASSUME TypeOK, NEW s \in Stages, Proven(s), evidence'[s] = evidence[s],
         config' = config \/ s = "verify",
         \A o \in Outputs : o[1] \in Range(Jobs(s)) => outputs'[o] = outputs[o]
  PROVE  Proven(s)'
<1>1. evidence[s].attempt \in Attempts /\ Range(Jobs(s)) \subseteq JobNames
  BY JobsAreOwn DEF Proven, StageResult, AllStages
<1>2. \A j \in Range(Jobs(s)) :
        outputs'[<<j, evidence[s].attempt>>] = outputs[<<j, evidence[s].attempt>>]
  BY <1>1 DEF Outputs
<1> QED  BY <1>2 DEF Proven, Done

\* What a step of a run changes in the records is of the run under way.
LEMMA RunsProveNothing ==
  ASSUME TypeOK, StageInv, stage \in {"smoke", "resume", "overfit"},
         UNCHANGED <<stage, evidence, config, attempted>>,
         NEW j \in Range(Jobs(stage)),
         \A o \in Outputs : o[1] # j => outputs'[o] = outputs[o]
  PROVE  StageInv'
<1>1. stage \notin attempted  BY DEF StageInv
<1>2. ASSUME NEW s \in attempted PROVE Proven(s)'
  <2>1. s \in Stages /\ s # stage /\ s \in AllStages /\ stage \in AllStages
    BY <1>1, <1>2 DEF TypeOK, AllStages
  <2>2. j \notin Range(Jobs(s))  BY <2>1, JobsAreOwn
  <2> QED  BY <2>1, <2>2, ProvenStays DEF StageInv
<1> QED  BY <1>2 DEF StageInv, Exists

\* The other runs of the stage's attempt keep what their records say.
LEMMA RecordsStay ==
  ASSUME TypeOK, NEW k \in 1 .. Len(Jobs(stage)), NEW n \in 1 .. Len(Jobs(stage)), k # n,
         UNCHANGED <<stage, attempt, config>>,
         \A o \in Outputs : o # <<Jobs(stage)[n], attempt>> => outputs'[o] = outputs[o],
         Done(Jobs(stage)[k], attempt, config)
  PROVE  Done(Jobs(stage)[k], attempt, config)'
<1>1. /\ Jobs(stage)[k] # Jobs(stage)[n] /\ Jobs(stage)[k] \in JobNames
      /\ attempt \in Attempts
  BY JobsAreOwn DEF TypeOK
<1>2. <<Jobs(stage)[k], attempt>> \in Outputs  BY <1>1 DEF Outputs
<1> QED  BY <1>1, <1>2 DEF Done

-----------------------------------------------------------------------------
\* A run begins: the one before it is done, and has left its checkpoint.
LEMMA StartKeeps ==
  ASSUME TypeOK, RunInv, FileInv, StageInv, StartRun
  PROVE  RunInv' /\ FileInv' /\ StageInv'
<1> DEFINE n == job + 1
           j == Jobs(stage)[n]
<1>a. /\ ~running /\ stage \in {"smoke", "resume", "overfit"} /\ stage \in AllStages
      /\ n \in 1 .. Len(Jobs(stage)) /\ job' = n /\ running' /\ step' = 0 /\ n # 0
      /\ UNCHANGED <<stage, attempt, config, files, evidence, attempted>>
  BY JobsAreOwn DEF StartRun, TypeOK
<1>b. Job' = j /\ Output' = <<j, attempt>> /\ Output' \in Outputs
  BY <1>a, JobsAreOwn DEF Job, Output, Outputs, TypeOK
<1>c. /\ \A o \in Outputs : o # <<j, attempt>> => outputs'[o] = outputs[o]
      /\ j # "decode" => outputs'[Output'] =
            [status |-> "started", config |-> config, losses |-> {}]
  BY <1>b DEF StartRun, TypeOK
<1>d. n = 1 \/ (job \in 1 .. Len(Jobs(stage)) /\ job # 0)
  BY <1>a, JobsAreOwn DEF TypeOK
<1>1. UnderWay'
  <2>1. Trains(Job') => step' <= StopsAt'
    BY <1>a, Constants DEF StopsAt, TotalSteps
  <2>2. 1 .. 0 = {}  OBVIOUS
  <2> QED  BY <1>a, <1>b, <1>c, <2>1, <2>2 DEF UnderWay
<1>2. ASSUME NEW k \in 1 .. Len(Jobs(stage)), k < n, Jobs(stage)[k] # "decode"
      PROVE  Done(Jobs(stage)[k], attempt, config)'
  <2>1. k < job \/ k = job  BY <1>a, <1>2, JobsAreOwn DEF TypeOK
  <2>2. Done(Jobs(stage)[k], attempt, config)  BY <1>a, <1>2, <2>1 DEF RunInv
  <2>3. k # n  BY <1>2
  <2> HIDE DEF n
  <2> QED  BY <1>a, <1>c, <2>2, <2>3, RecordsStay
<1>3. RunInv'
  <2> HIDE DEF n
  <2> QED  BY <1>a, <1>1, <1>2 DEF RunInv
<1>4. ASSUME stage = "smoke" PROVE FileInv'  BY <1>a, <1>4 DEF FileInv
<1>5. ASSUME stage = "resume" PROVE FileInv'
  <2>1. ASSUME job = 1 PROVE step = Cut
    <3>1. Job = "interrupted"  BY <1>5, <2>1, JobFacts DEF Job
    <3>2. step = StopsAt  BY <1>a, <2>1, <3>1 DEF RunInv, Trains
    <3> QED  BY <3>1, <3>2 DEF StopsAt
  <2>2. job = 1 => files[Own(<<"interrupted", attempt>>)] = Point(Cut, Steps)
    BY <1>5, <2>1 DEF FileInv
  <2>3. job' = 2 => job = 1  BY <1>a DEF TypeOK
  <2> QED  BY <1>a, <1>5, <2>2, <2>3, Constants DEF FileInv, Point
<1>6. ASSUME stage = "overfit" PROVE FileInv'
  <2>1. ASSUME job = 1 PROVE step = OverfitSteps
    <3>1. Job = "train"  BY <1>6, <2>1, JobFacts DEF Job
    <3>2. step = StopsAt  BY <1>a, <2>1, <3>1 DEF RunInv, Trains
    <3> QED  BY <1>6, <3>1, <3>2 DEF StopsAt, TotalSteps
  <2>2. job >= 1 => files[Own(<<"train", attempt>>)] = Point(OverfitSteps, OverfitSteps)
    BY <1>6, <2>1 DEF FileInv, TypeOK
  <2>3. job' > 1 => job >= 1  BY <1>a DEF TypeOK
  <2> QED  BY <1>a, <1>6, <2>2, <2>3, Constants DEF FileInv, Point
<1>7. StageInv'
  <2>1. j \in Range(Jobs(stage))  BY <1>a, JobsAreOwn
  <2>2. \A o \in Outputs : o[1] # j => outputs'[o] = outputs[o]  BY <1>c
  <2> HIDE DEF j
  <2> QED  BY <1>a, <2>1, <2>2, RunsProveNothing
<1> QED  BY <1>3, <1>4, <1>5, <1>6, <1>7, <1>a

\* A resumed run goes on at the step where the interrupted one stopped.
LEMMA ResumeKeeps ==
  ASSUME TypeOK, RunInv, FileInv, StageInv, Resume
  PROVE  RunInv' /\ FileInv' /\ StageInv'
<1>a. /\ running /\ Job = "resumed" /\ step = 0 /\ step' = Loaded.step
      /\ UNCHANGED <<stage, attempt, config, files, evidence, outputs, job, running, attempted>>
  BY DEF Resume, diskVars
<1>b. Loaded = Point(Cut, Steps) /\ stage = "resume" /\ step' = Cut
  BY <1>a, LoadsWhatAwaits DEF Loads, LoadsFrom, Point
<1>c. UnderWay /\ job \in 1 .. Len(Jobs(stage))  BY <1>a, OutputFacts DEF RunInv
<1>d. Job' = Job /\ Output' = Output /\ StopsAt' = StopsAt
  BY <1>a DEF Job, Output, StopsAt, TotalSteps
<1>1. outputs[Output].losses = {}  BY <1>a, <1>c, Constants DEF UnderWay
<1>2. Cut + 1 .. Cut = {}  BY Constants
<1>3. StopsAt = Steps  BY <1>a, <1>b DEF StopsAt, TotalSteps
<1>4. UnderWay'
  BY <1>a, <1>b, <1>c, <1>d, <1>1, <1>2, <1>3, Constants DEF UnderWay
<1>5. RunInv'  BY <1>a, <1>4 DEF RunInv, Done
<1>6. FileInv'
  <2>1. job = 2  BY <1>a, <1>b, <1>c, JobFacts DEF Job
  <2> QED  BY <1>a, <1>b, <2>1, Constants DEF FileInv
<1>7. StageInv'  BY <1>a DEF StageInv, Proven, Done, Exists
<1> QED  BY <1>5, <1>6, <1>7

\* A run or a measurement ends.
LEMMA EndKeeps ==
  ASSUME TypeOK, RunInv, FileInv, StageInv, EndRun
  PROVE  RunInv' /\ FileInv' /\ StageInv'
<1>a. /\ running /\ ~running' /\ (Trains(Job) => step = StopsAt)
      /\ UNCHANGED <<stage, attempt, config, files, evidence, job, step, attempted>>
  BY DEF EndRun, Measured
<1>b. UnderWay /\ job \in 1 .. Len(Jobs(stage)) /\ Output \in Outputs
      /\ stage \in {"smoke", "resume", "overfit"} /\ stage \in AllStages
  BY <1>a, OutputFacts DEF RunInv, UnderWay, TypeOK
<1>c. Job' = Job /\ Output' = Output /\ StopsAt' = StopsAt
  BY <1>a DEF Job, Output, StopsAt, TotalSteps
<1>d. /\ \A o \in Outputs : o # Output => outputs'[o] = outputs[o]
      /\ Job # "decode" => /\ outputs'[Output].status = "completed"
                           /\ outputs'[Output].config = outputs[Output].config
                           /\ outputs'[Output].losses = outputs[Output].losses
  <2>1. CASE Job = "decode"  BY <2>1 DEF EndRun
  <2>2. CASE Job # "decode"
    <3>1. outputs' = [outputs EXCEPT ![Output].status = "completed"]
      BY <2>2 DEF EndRun
    <3> QED  BY <1>b, <3>1 DEF TypeOK
  <2> QED  BY <2>1, <2>2
<1>1. Job # "decode" => Done(Job, attempt, config)'
  <2> SUFFICES ASSUME Job # "decode" PROVE Done(Job, attempt, config)'  OBVIOUS
  <2>1. Output = <<Job, attempt>>  BY DEF Output
  <2>2. outputs'[Output].config = config  BY <1>b, <1>d DEF UnderWay
  <2>3. CASE Job = "interrupted"
    <3>1. step = Cut  BY <1>a, <2>3 DEF Trains, StopsAt
    <3> QED  BY <1>a, <1>b, <1>c, <1>d, <2>1, <2>2, <2>3, <3>1 DEF UnderWay, Done
  <2>4. CASE Job \in {"resumed", "uninterrupted"}
    <3>1. stage = "resume"  BY <1>b, <2>4, JobFacts DEF Job
    <3>2. step = Steps  BY <1>a, <2>4, <3>1 DEF Trains, StopsAt, TotalSteps
    <3>3. step # 0  BY <3>2, Constants
    <3> QED
      BY <1>a, <1>b, <1>c, <1>d, <2>1, <2>2, <2>4, <3>2, <3>3 DEF UnderWay, Done, Compared
  <2>5. CASE Job \notin {"interrupted", "resumed", "uninterrupted"}
    BY <1>a, <1>c, <1>d, <2>1, <2>2, <2>5 DEF Done
  <2> QED  BY <2>3, <2>4, <2>5
<1>2. ASSUME NEW k \in 1 .. Len(Jobs(stage)), k < job, Jobs(stage)[k] # "decode"
      PROVE  Done(Jobs(stage)[k], attempt, config)'
  <2>1. Done(Jobs(stage)[k], attempt, config)  BY <1>2 DEF RunInv
  <2>2. k # job  BY <1>2, <1>b
  <2> QED  BY <1>a, <1>b, <1>d, <2>1, <2>2, RecordsStay DEF Output, Job
<1>3. RunInv'
  BY <1>a, <1>b, <1>c, <1>1, <1>2 DEF RunInv, Job
<1>4. FileInv'
  <2>1. Point(Cut, Steps)' = Point(Cut, Steps)
        /\ Point(OverfitSteps, OverfitSteps)' = Point(OverfitSteps, OverfitSteps)
    BY <1>a DEF Point
  <2>2. stage = "resume" /\ job = 1 /\ step = Cut =>
          files[Own(<<"interrupted", attempt>>)] = Point(Cut, Steps)
    BY DEF FileInv
  <2>3. stage = "overfit" /\ ((job = 1 /\ step = OverfitSteps) \/ job > 1) =>
          files[Own(<<"train", attempt>>)] = Point(OverfitSteps, OverfitSteps)
    BY DEF FileInv
  <2> QED  BY <1>a, <2>1, <2>2, <2>3 DEF FileInv
<1>5. StageInv'
  <2>1. Job \in Range(Jobs(stage))  BY <1>b, JobsAreOwn DEF Job
  <2>2. \A o \in Outputs : o[1] # Job => outputs'[o] = outputs[o]
    BY <1>d DEF Output
  <2> QED  BY <1>a, <1>b, <2>1, <2>2, RunsProveNothing
<1> QED  BY <1>3, <1>4, <1>5

\* An optimizer step: its number joins the record, and the last one of a run
\* is saved.
LEMMA TrainKeeps ==
  ASSUME TypeOK, RunInv, FileInv, StageInv, TrainStep
  PROVE  RunInv' /\ FileInv' /\ StageInv'
<1>a. /\ running /\ running' /\ Trains(Job) /\ step < StopsAt /\ step' = step + 1
      /\ Job = "resumed" => step > 0
      /\ UNCHANGED <<stage, attempt, config, evidence, job, attempted>>
  BY DEF TrainStep
<1>b. UnderWay /\ job \in 1 .. Len(Jobs(stage)) /\ Output \in Trained
      /\ Output \in Outputs /\ step \in Nat /\ StopsAt \in Nat
      /\ stage \in {"smoke", "resume", "overfit"} /\ stage \in AllStages
  BY <1>a, OutputFacts, Constants DEF RunInv, UnderWay, TypeOK, StopsAt, TotalSteps
<1>c. Job' = Job /\ Output' = Output /\ StopsAt' = StopsAt
  BY <1>a DEF Job, Output, StopsAt, TotalSteps
<1>d. /\ \A o \in Outputs : o # Output => outputs'[o] = outputs[o]
      /\ outputs'[Output].config = outputs[Output].config
      /\ outputs'[Output].losses = outputs[Output].losses \cup {step + 1}
  BY <1>b DEF TrainStep, TypeOK
<1>e. step' = StopsAt =>
        files'[Own(Output)] = [step |-> StopsAt, total |-> TotalSteps, config |-> config]
  <2> SUFFICES ASSUME step' = StopsAt
               PROVE  files'[Own(Output)] =
                        [step |-> StopsAt, total |-> TotalSteps, config |-> config]
    OBVIOUS
  <2>1. Due(step + 1) /\ step + 1 = StopsAt  BY <1>a DEF Due
  <2>2. Save(Output, [step |-> StopsAt, total |-> TotalSteps, config |-> config])
    BY <2>1 DEF TrainStep
  <2> QED  BY <1>b, <2>2, SaveKeeps DEF TypeOK
<1>f. Output = <<Job, attempt>>  BY DEF Output
<1>1. UnderWay'
  <2>1. step' <= StopsAt'  BY <1>a, <1>b, <1>c
  <2>2. Job # "decode"  BY <1>a DEF Trains
  <2>3. outputs'[Output].config = config'  BY <1>a, <1>b, <1>d, <2>2 DEF UnderWay
  <2>4. Job \in {"interrupted", "uninterrupted"} =>
          outputs'[Output].losses = 1 .. step'
    <3>1. 1 .. step + 1 = (1 .. step) \cup {step + 1}  BY <1>b
    <3> QED  BY <1>a, <1>b, <1>d, <3>1 DEF UnderWay
  <2>5. Job = "resumed" =>
          step' >= Cut /\ outputs'[Output].losses = Cut + 1 .. step'
    <3> SUFFICES ASSUME Job = "resumed"
                 PROVE  step' >= Cut /\ outputs'[Output].losses = Cut + 1 .. step'
      OBVIOUS
    <3>1. step >= Cut /\ outputs[Output].losses = Cut + 1 .. step
      BY <1>a, <1>b DEF UnderWay
    <3>2. Cut + 1 .. step + 1 = (Cut + 1 .. step) \cup {step + 1}
      BY <1>b, <3>1, Constants
    <3> QED  BY <1>a, <1>b, <1>d, <3>1, <3>2, Constants
  <2>6. Cut' = Cut  BY DEF Cut
  <2> QED  BY <1>a, <1>b, <1>c, <2>1, <2>3, <2>4, <2>5, <2>6 DEF UnderWay
<1>2. ASSUME NEW k \in 1 .. Len(Jobs(stage)), k < job, Jobs(stage)[k] # "decode"
      PROVE  Done(Jobs(stage)[k], attempt, config)'
  <2>1. Done(Jobs(stage)[k], attempt, config)  BY <1>2 DEF RunInv
  <2>2. k # job  BY <1>2, <1>b
  <2> QED  BY <1>a, <1>b, <1>d, <2>1, <2>2, RecordsStay DEF Output, Job
<1>3. RunInv'
  BY <1>a, <1>b, <1>1, <1>2 DEF RunInv
<1>4. FileInv'
  <2>0. Point(Cut, Steps)' = Point(Cut, Steps)
        /\ Point(OverfitSteps, OverfitSteps)' = Point(OverfitSteps, OverfitSteps)
    BY <1>a DEF Point
  <2>1. stage = "resume" =>
          ~(job = 2 /\ step' = 0) /\
          (job = 1 /\ step' = Cut =>
             files'[Own(<<"interrupted", attempt>>)] = Point(Cut, Steps))
    <3> SUFFICES ASSUME stage = "resume", job = 1, step' = Cut
                 PROVE  files'[Own(<<"interrupted", attempt>>)] = Point(Cut, Steps)
      BY <1>a, <1>b
    <3>1. Job = "interrupted"  BY JobFacts DEF Job
    <3>2. StopsAt = Cut /\ TotalSteps = Steps  BY <3>1 DEF StopsAt, TotalSteps
    <3> QED  BY <1>e, <1>f, <3>1, <3>2 DEF Point
  <2>2. stage = "overfit" =>
          job = 1 /\
          (step' = OverfitSteps =>
             files'[Own(<<"train", attempt>>)] = Point(OverfitSteps, OverfitSteps))
    <3> SUFFICES ASSUME stage = "overfit"
                 PROVE  job = 1 /\
                        (step' = OverfitSteps =>
                           files'[Own(<<"train", attempt>>)]
                             = Point(OverfitSteps, OverfitSteps))
      OBVIOUS
    <3>1. Job = "train" /\ job = 1  BY <1>a, <1>b, JobFacts DEF Job, Trains
    <3>2. StopsAt = OverfitSteps /\ TotalSteps = OverfitSteps
      BY <3>1 DEF StopsAt, TotalSteps
    <3> QED  BY <1>e, <1>f, <3>1, <3>2 DEF Point
  <2> QED  BY <1>a, <2>0, <2>1, <2>2 DEF FileInv
<1>5. StageInv'
  <2>1. Job \in Range(Jobs(stage))  BY <1>b, JobsAreOwn DEF Job
  <2>2. \A o \in Outputs : o[1] # Job => outputs'[o] = outputs[o]
    BY <1>d DEF Output
  <2> QED  BY <1>a, <1>b, <2>1, <2>2, RunsProveNothing
<1> QED  BY <1>3, <1>4, <1>5

\* Every step of a run keeps the invariant.
LEMMA RunKeeps ==
  TypeOK /\ RunInv /\ FileInv /\ StageInv /\ RunStep
    => TypeOK' /\ RunInv' /\ FileInv' /\ StageInv'
  BY RunTypes, StartKeeps, ResumeKeeps, TrainKeeps, EndKeeps DEF RunStep

-----------------------------------------------------------------------------
\* A stage that has not passed leaves what is proven, whatever it writes of
\* itself; a summary it writes is of a failure.
LEMMA FailureKeeps ==
  ASSUME TypeOK, StageInv, stage \in {"smoke", "resume", "overfit"},
         attempted' = attempted, config' = config \/ stage = "smoke",
         \A s \in attempted : evidence'[s] = evidence[s],
         \A o \in Outputs : o[1] \notin Range(Jobs(stage)) => outputs'[o] = outputs[o],
         \/ stage' = stage /\ evidence'["summary"] = evidence["summary"]
         \/ stage' = "over" /\ evidence'["summary"] = evidence["summary"]
         \/ stage' = "over" /\ ~evidence'["summary"].passed
  PROVE  StageInv'
<1>1. stage \notin attempted /\ (stage = "smoke" => attempted = {"verify"})
  BY DEF StageInv
<1>2. ASSUME NEW s \in attempted PROVE Proven(s)'
  <2>1. s \in Stages /\ s # stage /\ s \in AllStages /\ stage \in AllStages
    BY <1>1, <1>2 DEF TypeOK, AllStages
  <2>2. Range(Jobs(s)) \cap Range(Jobs(stage)) = {}  BY <2>1, JobsAreOwn
  <2>3. config' = config \/ s = "verify"  BY <1>1, <1>2
  <2>4. Proven(s)  BY <1>2 DEF StageInv
  <2>5. \A o \in Outputs : o[1] \in Range(Jobs(s)) => outputs'[o] = outputs[o]
    BY <2>2
  <2> QED  BY <1>2, <2>1, <2>3, <2>4, <2>5, ProvenStays
<1>3. Exists("summary")' /\ evidence'["summary"].passed => FALSE
  BY DEF StageInv, Exists
<1>4. stage' # "over" => stage' = stage /\ evidence'["summary"] = Absent
  BY DEF StageInv
<1> QED  BY <1>2, <1>3, <1>4 DEF StageInv

\* What raises changes the record of the run under way.
LEMMA FailedRecords ==
  ASSUME TypeOK, RunInv, running, outputs' = FailedOutputs
  PROVE  /\ DOMAIN outputs' = Outputs
         /\ \A o \in Outputs : o[1] \notin Range(Jobs(stage)) => outputs'[o] = outputs[o]
         /\ stage \in {"smoke", "resume", "overfit"}
<1>1. UnderWay /\ job \in 1 .. Len(Jobs(stage)) /\ Output \in Outputs
  BY OutputFacts DEF RunInv
<1>2. Job \in Range(Jobs(stage))  BY <1>1, JobsAreOwn DEF Job, TypeOK
<1>3. outputs' = outputs \/ outputs' = [outputs EXCEPT ![Output].status = "failed"]
  BY DEF FailedOutputs, FailedRun, FailedMeasurement
<1>4. \A o \in Outputs : o # Output => outputs'[o] = outputs[o]
  BY <1>3 DEF TypeOK
<1>5. DOMAIN outputs' = Outputs  BY <1>3 DEF TypeOK
<1> QED  BY <1>1, <1>2, <1>4, <1>5 DEF UnderWay, Output

LEMMA SmokeRaisesKeeps ==
  ASSUME TypeOK, RunInv, FileInv, StageInv, SmokeRaises
  PROVE  TypeOK' /\ RunInv' /\ FileInv' /\ StageInv'
<1> DEFINE failure == IF attempt = 1 THEN "smoke1-failure" ELSE "smoke2-failure"
           e == [evidence EXCEPT !["smoke"] = Result(FALSE), ![failure] = Result(FALSE)]
<1>a. /\ stage = "smoke" /\ running /\ outputs' = FailedOutputs
      /\ SameOptions /\ UNCHANGED <<files, registry, attempted>> /\ NoRun
      /\ \/ /\ evidence' = e /\ stage' = stage
            /\ attempt < Len(SmokeConfigs) /\ attempt' = attempt + 1
            /\ config' = SmokeConfigs[attempt + 1]
         \/ /\ evidence' = [e EXCEPT !["summary"] =
                               Summary(FALSE, attempted \cup {stage})]
            /\ stage' = "over" /\ UNCHANGED <<attempt, config>>
  BY DEF SmokeRaises, FailStage, Over
<1>b. /\ DOMAIN e = Evidence /\ e["verify"] = evidence["verify"]
      /\ e["summary"] = evidence["summary"]
  BY DEF TypeOK, Evidence
<1> HIDE DEF e
<1>c. DOMAIN evidence' = Evidence /\ evidence'["verify"] = evidence["verify"]
  BY <1>a, <1>b DEF Evidence
<1>d. attempted = {"verify"}  BY <1>a DEF StageInv
<1>e. attempt' \in Attempts /\ config' \in ConfigNames /\ stage' \in AllStages
  <2>1. CASE UNCHANGED <<attempt, config>>  BY <1>a, <2>1 DEF TypeOK, AllStages
  <2>2. CASE /\ attempt < Len(SmokeConfigs) /\ attempt' = attempt + 1
             /\ config' = SmokeConfigs[attempt + 1]
    <3>1. attempt = 1 /\ SmokeConfigs = Configs
      BY <2>2, SMT DEF SmokeConfigs, Configs, TypeOK, Attempts
    <3>2. config' = "config-vision-fp32"  BY <2>2, <3>1 DEF Configs
    <3> QED  BY <1>a, <2>2, <3>1, <3>2 DEF Attempts, ConfigNames, TypeOK, AllStages
  <2> QED  BY <1>a, <2>1, <2>2
<1>1. TypeOK' /\ RunInv' /\ FileInv'
  BY <1>a, <1>c, <1>d, <1>e, FailedRecords, NoRunYet DEF TypeOK
<1>2. StageInv'
  <2>1. \/ stage' = stage /\ evidence'["summary"] = evidence["summary"]
        \/ stage' = "over" /\ ~evidence'["summary"].passed
    BY <1>a, <1>b DEF Summary, Evidence
  <2> QED  BY <1>a, <1>c, <1>d, <2>1, FailedRecords, FailureKeeps
<1> QED  BY <1>1, <1>2

LEMMA ResumeRaisesKeeps ==
  ASSUME TypeOK, RunInv, FileInv, StageInv, ResumeRaises
  PROVE  TypeOK' /\ RunInv' /\ FileInv' /\ StageInv'
<1> DEFINE failure == IF attempt = 1 THEN "resume1-failure" ELSE "resume2-failure"
           e == [evidence EXCEPT ![failure] = Result(FALSE)]
<1>a. /\ stage = "resume" /\ stage' = "over"
      /\ (running /\ outputs' = FailedOutputs) \/ UNCHANGED outputs
      /\ SameOptions /\ UNCHANGED <<files, registry, attempted, attempt, config>> /\ NoRun
      /\ evidence' = [e EXCEPT !["summary"] = Summary(FALSE, attempted \cup {stage})]
  BY DEF ResumeRaises, FailStage, Over
<1>b. DOMAIN e = Evidence /\ \A s \in Stages : e[s] = evidence[s]
  BY DEF TypeOK, Evidence, Stages
<1> HIDE DEF e
<1>c. /\ DOMAIN evidence' = Evidence /\ ~evidence'["summary"].passed
      /\ \A s \in attempted : evidence'[s] = evidence[s]
  BY <1>a, <1>b DEF TypeOK, Evidence, Stages, Summary
<1>d. /\ DOMAIN outputs' = Outputs
      /\ \A o \in Outputs : o[1] \notin Range(Jobs(stage)) => outputs'[o] = outputs[o]
  BY <1>a, FailedRecords DEF TypeOK
<1>1. TypeOK' /\ RunInv' /\ FileInv'
  BY <1>a, <1>c, <1>d, NoRunYet DEF TypeOK, AllStages
<1>2. StageInv'  BY <1>a, <1>c, <1>d, FailureKeeps
<1> QED  BY <1>1, <1>2

LEMMA OverfitRaisesKeeps ==
  ASSUME TypeOK, RunInv, FileInv, StageInv, OverfitRaises
  PROVE  TypeOK' /\ RunInv' /\ FileInv' /\ StageInv'
<1>a. /\ stage = "overfit" /\ stage' = "over" /\ running /\ outputs' = FailedOutputs
      /\ SameOptions /\ NoRun
      /\ UNCHANGED <<files, registry, attempted, attempt, config, evidence>>
  BY DEF OverfitRaises, Over
<1>1. TypeOK' /\ RunInv' /\ FileInv'
  BY <1>a, FailedRecords, NoRunYet DEF TypeOK, AllStages
<1>2. StageInv'  BY <1>a, FailedRecords, FailureKeeps
<1> QED  BY <1>1, <1>2

\* The gates fail: there is a second attempt, or a summary of failure.
LEMMA NextAttemptKeeps ==
  ASSUME TypeOK, RunInv, FileInv, StageInv, NEW s \in {"resume", "overfit"}, stage = s,
         NextAttempt(s), SameOptions, SameRuns, UNCHANGED attempted
  PROVE  TypeOK' /\ RunInv' /\ FileInv' /\ StageInv'
<1> DEFINE e == [evidence EXCEPT ![AttemptFile(s)] = Result(FALSE)]
<1>a. /\ UNCHANGED <<files, registry, outputs, attempted, config>> /\ NoRun
      /\ \/ evidence' = e /\ stage' = stage /\ attempt' = 2
         \/ /\ evidence' = [e EXCEPT !["summary"] =
                               Summary(FALSE, attempted \cup {stage})]
            /\ stage' = "over" /\ UNCHANGED attempt
  BY DEF NextAttempt, FailStage, Over, SameRuns
<1>b. AttemptFile(s) \in {s, "resume2", "overfit2"}  BY DEF AttemptFile
<1>c. s \notin attempted /\ attempted \subseteq Stages  BY DEF StageInv, TypeOK
<1>d. /\ DOMAIN e = Evidence /\ e["summary"] = evidence["summary"]
      /\ \A t \in attempted : e[t] = evidence[t]
  BY <1>b, <1>c DEF TypeOK, Evidence, Stages
<1> HIDE DEF e
<1>e. /\ DOMAIN evidence' = Evidence
      /\ \A t \in attempted : evidence'[t] = evidence[t]
      /\ \/ stage' = stage /\ evidence'["summary"] = evidence["summary"]
         \/ stage' = "over" /\ ~evidence'["summary"].passed
  BY <1>a, <1>c, <1>d DEF Evidence, Stages, Summary
<1>1. TypeOK' /\ RunInv' /\ FileInv'
  BY <1>a, <1>e, NoRunYet DEF TypeOK, AllStages, Attempts
<1>2. StageInv'
  BY <1>a, <1>e, FailureKeeps
<1> QED  BY <1>1, <1>2

\* The result of an attempt, in its file.
LEMMA ResultType ==
  ASSUME TypeOK, NEW p \in BOOLEAN
  PROVE  /\ Result(p) \in StageResult /\ Result(p).passed = p
         /\ Result(p).config = config /\ Result(p).attempt = attempt
  BY DEF TypeOK, Result, StageResult

\* When the runs of a stage are done, so say their records.
LEMMA RunsAreDone ==
  ASSUME TypeOK, RunInv, RunsDone(stage)
  PROVE  \A j \in Range(Jobs(stage)) \ {"decode"} : Done(j, attempt, config)
<1> SUFFICES ASSUME NEW j \in Range(Jobs(stage)) \ {"decode"}
             PROVE  Done(j, attempt, config)
  OBVIOUS
<1>1. PICK k \in 1 .. Len(Jobs(stage)) : j = Jobs(stage)[k]
  <2>1. CASE stage \in {"smoke", "resume", "overfit"}
    BY <2>1, JobFacts, JobRanges
  <2>2. CASE stage \in {"verify", "extrapolate", "over"}
    BY <2>2, JobRanges
  <2> QED  BY <2>1, <2>2 DEF TypeOK, AllStages, Stages
<1>2. ~running /\ (k < job \/ k = job)
  BY <1>1, JobsAreOwn DEF RunsDone, TypeOK
<1> QED  BY <1>1, <1>2 DEF RunInv

\* A stage passes: its files prove it, and those before it stay proven.
LEMMA PassKeeps ==
  ASSUME TypeOK, RunInv, StageInv, NEW s \in {"smoke", "resume", "overfit"}, stage = s,
         RunsDone(s), evidence'[s] = Result(TRUE),
         \A t \in attempted : evidence'[t] = evidence[t],
         UNCHANGED <<config, outputs>>
  PROVE  \A t \in attempted \cup {s} : Proven(t)'
<1>1. ASSUME NEW t \in attempted PROVE Proven(t)'
  <2>1. t \in Stages /\ Proven(t)  BY DEF StageInv, TypeOK
  <2> QED  BY <2>1, ProvenStays
<1>2. Proven(s)'
  <2>1. /\ evidence'[s] \in StageResult /\ evidence'[s].passed
        /\ evidence'[s].config = config /\ evidence'[s].attempt = attempt
    BY ResultType
  <2>2. \A j \in Range(Jobs(s)) \ {"decode"} : Done(j, attempt, config)
    BY RunsAreDone
  <2>3. \A j \in Range(Jobs(s)) \ {"decode"} :
          Done(j, evidence[s].attempt, evidence[s].config)'
    BY <2>1, <2>2 DEF Done
  <2> QED  BY <2>1, <2>3 DEF Proven
<1> QED  BY <1>1, <1>2

LEMMA SmokePassesKeeps ==
  ASSUME TypeOK, RunInv, FileInv, StageInv, SmokePasses
  PROVE  TypeOK' /\ RunInv' /\ FileInv' /\ StageInv'
<1>a. /\ RunsDone("smoke") /\ stage = "smoke" /\ stage' = "resume" /\ attempt' = 1
      /\ evidence' = [evidence EXCEPT !["smoke"] = Result(TRUE)]
      /\ attempted' = attempted \cup {"smoke"} /\ NoRun /\ SameOptions
      /\ UNCHANGED <<files, registry, outputs, config>>
  BY DEF SmokePasses, RunsDone, Written, Enter, SameRuns
<1>b. attempted = {"verify"} /\ evidence["summary"] = Absent
  BY <1>a DEF StageInv
<1>c. /\ DOMAIN evidence' = Evidence /\ evidence'["smoke"] = Result(TRUE)
      /\ evidence'["verify"] = evidence["verify"] /\ evidence'["summary"] = Absent
  BY <1>a, <1>b DEF TypeOK, Evidence
<1>1. TypeOK' /\ RunInv' /\ FileInv'
  BY <1>a, <1>b, <1>c, NoRunYet DEF TypeOK, AllStages, Stages, Attempts
<1>2. \A t \in attempted \cup {"smoke"} : Proven(t)'
  BY <1>a, <1>b, <1>c, PassKeeps
<1>3. StageInv'
  BY <1>a, <1>b, <1>c, <1>2 DEF StageInv, Exists
<1> QED  BY <1>1, <1>3

LEMMA GatePassesKeeps ==
  ASSUME TypeOK, RunInv, FileInv, StageInv, NEW s \in {"resume", "overfit"}, GatePasses(s)
  PROVE  TypeOK' /\ RunInv' /\ FileInv' /\ StageInv'
<1> DEFINE e == [evidence EXCEPT ![AttemptFile(s)] = Result(TRUE), ![s] = Result(TRUE)]
           summary == Summary(TRUE, {"verify", "resume"})
<1>a. /\ RunsDone(s) /\ stage = s /\ attempted' = attempted \cup {s} /\ NoRun /\ SameOptions
      /\ UNCHANGED <<files, registry, outputs, config>> /\ attempt' \in Attempts
      /\ \/ /\ evidence' = [e EXCEPT !["summary"] = summary] /\ stage' = "over"
         \/ /\ evidence' = e
            /\ stage' = IF s = "resume" THEN "overfit" ELSE "extrapolate"
  BY DEF GatePasses, RunsDone, Enter, Over, SameRuns, TypeOK, Attempts
<1>b. AttemptFile(s) \in {s, "resume2", "overfit2"}  BY DEF AttemptFile
<1>c. /\ s \notin attempted /\ attempted \subseteq Stages /\ evidence["summary"] = Absent
      /\ "verify" \in attempted /\ attempted \subseteq {"verify", "smoke", "resume"}
      /\ s = "resume" => attempted \subseteq {"verify", "smoke"}
      /\ s = "overfit" => "resume" \in attempted
  BY <1>a DEF StageInv, TypeOK
<1>d. /\ DOMAIN e = Evidence /\ e["summary"] = Absent /\ e[s] = Result(TRUE)
      /\ \A t \in attempted : e[t] = evidence[t]
  BY <1>b, <1>c DEF TypeOK, Evidence, Stages
<1> HIDE DEF e
<1>e. /\ DOMAIN evidence' = Evidence /\ evidence'[s] = Result(TRUE)
      /\ \A t \in attempted : evidence'[t] = evidence[t]
      /\ \/ stage' = "over" /\ evidence'["summary"] = summary
         \/ /\ evidence'["summary"] = Absent
            /\ stage' = IF s = "resume" THEN "overfit" ELSE "extrapolate"
  BY <1>a, <1>c, <1>d DEF Evidence, Stages
<1>f. summary.stages = {"verify", "resume"} /\ summary.config = config
  BY DEF Summary
<1> HIDE DEF summary
<1>1. TypeOK' /\ RunInv' /\ FileInv'
  BY <1>a, <1>c, <1>e, NoRunYet DEF TypeOK, AllStages, Stages
<1>2. \A t \in attempted \cup {s} : Proven(t)'
  BY <1>a, <1>e, PassKeeps
<1>3. StageInv'
  BY <1>a, <1>c, <1>e, <1>f, <1>2 DEF StageInv, Exists
<1> QED  BY <1>1, <1>3

LEMMA VerifyKeeps ==
  ASSUME TypeOK, RunInv, FileInv, StageInv, NEW proof \in BOOLEAN, Verify(proof)
  PROVE  TypeOK' /\ RunInv' /\ FileInv' /\ StageInv'
<1> DEFINE e == [evidence EXCEPT !["verify"] = Result(proof)]
<1>a. /\ stage = "verify" /\ NoRun /\ SameOptions /\ UNCHANGED <<files, registry, outputs>>
      /\ \/ /\ ~proof /\ attempted' = attempted /\ stage' = "over"
            /\ UNCHANGED <<attempt, config>>
            /\ evidence' = [e EXCEPT !["summary"] = Summary(FALSE, {"verify"})]
         \/ /\ proof /\ attempted' = {"verify"} /\ stage' = "over"
            /\ UNCHANGED <<attempt, config>>
            /\ evidence' = [e EXCEPT !["summary"] = Summary(TRUE, {"verify"})]
         \/ /\ proof /\ attempted' = {"verify"} /\ stage' \in {"resume", "smoke"}
            /\ attempt' = 1 /\ config' \in {Configs[1], fixed, SmokeConfigs[1]}
            /\ (config' = fixed => fixed # "none")
            /\ evidence' = e
  BY DEF Verify, Over, Enter, SameRuns, SmokeConfigs, Configs
<1>b. attempted = {} /\ evidence["summary"] = Absent  BY <1>a DEF StageInv
<1>c. DOMAIN e = Evidence /\ e["verify"] = Result(proof) /\ e["summary"] = Absent
  BY <1>b DEF TypeOK, Evidence
<1> HIDE DEF e
<1>d. DOMAIN evidence' = Evidence /\ evidence'["verify"] = Result(proof)
  BY <1>a, <1>c DEF Evidence
<1>e. config' \in ConfigNames /\ attempt' \in Attempts /\ stage' \in AllStages
  BY <1>a DEF TypeOK, Configs, SmokeConfigs, ConfigNames, Attempts, AllStages, Stages
<1>1. TypeOK' /\ RunInv' /\ FileInv'
  BY <1>a, <1>b, <1>d, <1>e, NoRunYet DEF TypeOK, Stages
<1>2. proof => Proven("verify")'
  <2>1. proof => Result(proof) \in StageResult /\ Result(proof).passed
    BY ResultType
  <2> QED  BY <1>d, <2>1, JobRanges DEF Proven
<1>3. CASE ~proof
  <2>1. /\ stage' = "over" /\ attempted' = {}
        /\ ~evidence'["summary"].passed
    BY <1>a, <1>b, <1>c, <1>3 DEF Summary, Evidence
  <2>2. StageInv'  BY <2>1 DEF StageInv
  <2> QED  BY <1>1, <2>2
<1>4. CASE proof /\ stage' = "over"
  <2>1. /\ attempted' = {"verify"} /\ config' = config
        /\ evidence'["summary"] = Summary(TRUE, {"verify"})
    BY <1>a, <1>c, <1>4 DEF Evidence
  <2>2. evidence'["summary"].stages = {"verify"} /\ evidence'["summary"].config = config
    BY <2>1 DEF Summary
  <2>3. StageInv'  BY <1>2, <1>4, <2>1, <2>2 DEF StageInv
  <2> QED  BY <1>1, <2>3
<1>5. CASE proof /\ stage' # "over"
  <2>1. /\ attempted' = {"verify"} /\ stage' \in {"resume", "smoke"}
        /\ evidence'["summary"] = Absent
    BY <1>a, <1>c, <1>5
  <2>2. StageInv'  BY <1>2, <1>5, <2>1 DEF StageInv, Exists
  <2> QED  BY <1>1, <2>2
<1> QED  BY <1>3, <1>4, <1>5

LEMMA ExtrapolateKeeps ==
  ASSUME TypeOK, RunInv, FileInv, StageInv, Extrapolate
  PROVE  TypeOK' /\ RunInv' /\ FileInv' /\ StageInv'
<1> DEFINE s == "extrapolate"
<1>a. /\ stage = s /\ stage' = "over" /\ attempted' = attempted \cup {s}
      /\ evidence' = [evidence EXCEPT ![s] = Result(TRUE),
                                      !["summary"] = Summary(TRUE, attempted')]
      /\ NoRun /\ SameOptions /\ UNCHANGED <<files, registry, outputs, attempt, config>>
  BY DEF Extrapolate, Over, SameRuns
<1>b. s \notin attempted /\ attempted \subseteq Stages  BY <1>a DEF StageInv, TypeOK
<1>c. /\ DOMAIN evidence' = Evidence /\ evidence'[s] = Result(TRUE)
      /\ \A t \in attempted : evidence'[t] = evidence[t]
      /\ evidence'["summary"] = Summary(TRUE, attempted')
  BY <1>a, <1>b DEF TypeOK, Evidence, Stages
<1>d. /\ evidence'["summary"].stages = attempted'
      /\ evidence'["summary"].config = config
  BY <1>c DEF Summary
<1>1. TypeOK' /\ RunInv' /\ FileInv'
  BY <1>a, <1>b, <1>c, NoRunYet DEF TypeOK, AllStages, Stages
<1>2. ASSUME NEW t \in attempted PROVE Proven(t)'
  <2>1. t \in Stages /\ Proven(t)  BY <1>2 DEF StageInv, TypeOK
  <2> QED  BY <1>a, <1>c, <1>2, <2>1, ProvenStays
<1>3. Proven(s)'
  <2>1. /\ Result(TRUE) \in StageResult /\ Result(TRUE).passed
        /\ Result(TRUE).config = config
    BY ResultType
  <2> QED  BY <1>a, <1>c, <2>1, JobRanges DEF Proven
<1>4. StageInv'  BY <1>a, <1>d, <1>2, <1>3 DEF StageInv
<1> QED  BY <1>1, <1>4

-----------------------------------------------------------------------------
\* The inductive invariant.
IInv == TypeOK /\ RunInv /\ FileInv /\ StageInv

LEMMA InitInv == Init => IInv
<1> SUFFICES ASSUME Init PROVE IInv  OBVIOUS
<1> USE DEF Init
<1>1. Range(Configs) \subseteq ConfigNames  BY SMT DEF Range, Configs, ConfigNames
<1>2. Len(Jobs("verify")) = 0  BY JobFacts
<1>3. running \in BOOLEAN  BY Zenon
<1>4. registry \in Seq(Managed)  BY EmptySeq
<1>5. TypeOK
  BY <1>1, <1>2, <1>3, <1>4 DEF TypeOK, ConfigNames, AllStages, Stages, Attempts
<1>6. RunInv  BY <1>2 DEF RunInv
<1>7. FileInv  BY DEF FileInv
<1>8. StageInv  BY DEF StageInv, Exists, Evidence
<1> QED  BY <1>5, <1>6, <1>7, <1>8 DEF IInv

LEMMA Invariance == Spec => []IInv
<1>1. IInv /\ UNCHANGED vars => IInv'
  <2> SUFFICES ASSUME IInv, UNCHANGED vars PROVE IInv'  OBVIOUS
  <2>1. UNCHANGED <<mode, fixed, evidence, outputs, files, registry, stage, attempt,
                    config, job, running, step, attempted>>
    BY DEF vars, diskVars, runVars
  <2>2. TypeOK'  BY <2>1 DEF IInv, TypeOK
  <2>3. Job' = Job /\ Output' = Output /\ StopsAt' = StopsAt
    BY <2>1 DEF Job, Output, StopsAt, TotalSteps
  <2>4. RunInv'  BY <2>1, <2>3 DEF IInv, RunInv, UnderWay, Done
  <2>5. FileInv'  BY <2>1 DEF IInv, FileInv, Point
  <2>6. StageInv'  BY <2>1 DEF IInv, StageInv, Proven, Done, Exists
  <2> QED  BY <2>2, <2>4, <2>5, <2>6 DEF IInv
<1>2. IInv /\ StageStep => IInv'
  <2> SUFFICES ASSUME IInv, StageStep PROVE IInv'  OBVIOUS
  <2> USE DEF IInv
  <2>1. ASSUME NEW proof \in BOOLEAN, Verify(proof) PROVE IInv'
    BY <2>1, VerifyKeeps
  <2>2. ASSUME NEW s \in {"resume", "overfit"}, GatePasses(s) PROVE IInv'
    BY <2>2, GatePassesKeeps
  <2>3. ASSUME NEW s \in {"resume", "overfit"}, GateFails(s) PROVE IInv'
    <3>1. stage = s /\ NextAttempt(s) /\ SameOptions /\ SameRuns /\ UNCHANGED attempted
      BY <2>3 DEF GateFails, RunsDone
    <3> QED  BY <3>1, NextAttemptKeeps
  <2>4. CASE DecodeNotFinite
    <3>1. NextAttempt("overfit") /\ SameOptions /\ SameRuns /\ UNCHANGED attempted
          /\ running /\ Job = "decode"
      BY <2>4 DEF DecodeNotFinite
    <3>2. UnderWay /\ job \in 1 .. Len(Jobs(stage))  BY <3>1, OutputFacts DEF RunInv
    <3>3. stage = "overfit"  BY <3>1, <3>2, JobFacts DEF Job, UnderWay
    <3> QED  BY <3>1, <3>3, NextAttemptKeeps
  <2>5. CASE SmokeRaises \/ ResumeRaises \/ OverfitRaises
    BY <2>5, SmokeRaisesKeeps, ResumeRaisesKeeps, OverfitRaisesKeeps
  <2>6. CASE SmokePasses \/ Extrapolate
    BY <2>6, SmokePassesKeeps, ExtrapolateKeeps
  <2> QED  BY <2>1, <2>2, <2>3, <2>4, <2>5, <2>6 DEF StageStep
<1>3. IInv /\ [Next]_vars => IInv'
  BY <1>1, <1>2, RunKeeps DEF Next, IInv
<1> QED  BY <1>3, InitInv, PTL DEF Spec

\* The checkpoint a run is to load is there and is the one it needs, although
\* the storage keeps two files (bounded_checkpoint_save, restore_training_state,
\* _greedy_decode).
THEOREM CheckpointsAwait == Spec => []CheckpointAwaits
<1>1. IInv => CheckpointAwaits
  <2> SUFFICES ASSUME IInv, running, Loads(Job), Job = "resumed" => step = 0
               PROVE  /\ Loaded # Absent /\ Identity(Loaded)
                      /\ Loaded.step = IF Job = "resumed" THEN Cut ELSE OverfitSteps
    BY DEF CheckpointAwaits
  <2>1. /\ Loaded = IF Job = "resumed" THEN Point(Cut, Steps)
                    ELSE Point(OverfitSteps, OverfitSteps)
        /\ stage = IF Job = "resumed" THEN "resume" ELSE "overfit"
    BY LoadsWhatAwaits DEF IInv
  <2>2. Loaded # Absent  BY <2>1, PointIsCheckpoint, Constants DEF IInv
  <2>3. TotalSteps = IF Job = "resumed" THEN Steps ELSE OverfitSteps
    BY <2>1 DEF TotalSteps
  <2> QED  BY <2>1, <2>2, <2>3 DEF Identity, Point
<1> QED  BY <1>1, Invariance, PTL

\* A summary of success is borne out by the files of the stages and the runs,
\* whatever failed on the way (main, _fail, stage_record).
THEOREM SummariesAreTrue == Spec => []SummaryIsTrue
<1>1. IInv => SummaryIsTrue
  <2> SUFFICES ASSUME IInv, Exists("summary"), evidence["summary"].passed,
                      NEW s \in evidence["summary"].stages
      PROVE  /\ Exists(s) /\ evidence[s].passed
             /\ s # "verify" => evidence[s].config = evidence["summary"].config
             /\ \A j \in Range(Jobs(s)) \ {"decode"} :
                  LET o == outputs[<<j, evidence[s].attempt>>]
                  IN o.status = "completed" /\ o.config = evidence[s].config
             /\ s = "resume" =>
                  LET a == evidence[s].attempt
                  IN /\ Losses("resumed", a) = Compared
                     /\ Losses("interrupted", a) \cup Compared = Losses("uninterrupted", a)
    BY DEF SummaryIsTrue
  <2>1. Proven(s) /\ evidence["summary"].config = config
    BY DEF IInv, StageInv
  <2>2. Exists(s)  BY <2>1, MarkerAssumption DEF Proven, Exists
  <2>3. (1 .. Cut) \cup Compared = 1 .. Steps  BY Constants DEF Compared
  <2>4. ASSUME s = "resume"
        PROVE  LET a == evidence[s].attempt
               IN /\ Losses("resumed", a) = Compared
                  /\ Losses("interrupted", a) \cup Compared = Losses("uninterrupted", a)
    <3>1. \A j \in {"interrupted", "resumed", "uninterrupted"} :
            Done(j, evidence[s].attempt, evidence[s].config)
      BY <2>1, <2>4, JobRanges DEF Proven
    <3> QED  BY <2>3, <3>1 DEF Losses, Done
  <2> QED  BY <2>1, <2>2, <2>4 DEF Proven, Done
<1> QED  BY <1>1, Invariance, PTL

\* The steps of the resumed and of the uninterrupted run can always be compared:
\* that comparison is no reason for the resume stage to fail (step_loss).
THEOREM StepsAreComparable ==
  Spec => [](RunsDone("resume") => Comparable(attempt))
<1>1. IInv => (RunsDone("resume") => Comparable(attempt))
  <2> SUFFICES ASSUME IInv, RunsDone("resume") PROVE Comparable(attempt)  OBVIOUS
  <2>1. RunsDone(stage) /\ stage = "resume"  BY DEF RunsDone
  <2>2. \A j \in {"resumed", "uninterrupted"} : Done(j, attempt, config)
    BY <2>1, RunsAreDone, JobRanges DEF IInv
  <2>3. Compared \subseteq 1 .. Steps  BY Constants DEF Compared
  <2> QED  BY <2>2, <2>3 DEF Comparable, Losses, Done
<1> QED  BY <1>1, Invariance, PTL
=============================================================================
