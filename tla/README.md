# Verification of the satellite query system

TLA+ models, TLC runs and TLAPS proofs kept beside the code of the repository
(Python backend and orchestrator, data and training tools, Next.js frontend).
Paths below are relative to the repository root, under `src/` in `PROJECT.json`.

## 1. The system and its parts

A user uploads or fetches satellite scenes, asks a question about one or two of
them, and gets an answer with evidence. A planner turns the question into a
plan of capabilities, an executor runs the plan's steps through registered
model providers (heavy ones in a killable child process), and every executed
step is recorded in a hash-chained trace. Beside it, training sets are built
as shards from one large archive, and models are trained from them in sessions
that may be interrupted anywhere.

| Component | Code | State | Operations | What is hard |
|---|---|---|---|---|
| Execution trace | `orchestrator/trace.py` | `trace.jsonl`, `_TRACE`, `_LOADED_PATH`, quarantine files | `append_record`, `records`, `verify_chain`, loading with tail repair | crashes and failed calls between write, fsync and acknowledgement; repair that fails half way; edits |
| Inference worker | `orchestrator/worker.py` | lock, child process, pipe, request ids | `run`, `shutdown`, `_stop`; `_serve` in the child | timeouts racing replies, hung or dying children, shutdown without the lock |
| Router, executor, providers | `orchestrator/router.py`, `executor.py`, `execution_plan.py`, `capabilities.py` | provider registry | `route`, `execute_plan`, `register_provider`, `require_provider_ready` | readiness read at five places; a trace record of what really ran |
| Planner, question parser | `orchestrator/planner.py`, `question.py` | none | `plan_request`, `parse_question` | overlapping rules whose order decides; dates without a year |
| Analysis service | `backend/services.py`, `routes/analyze.py` | trace | `analyze_scene`, `plan_analysis` | the order of the guards, every failure mapped, recorded or not |
| Scene store | `backend/services.py` | rasters, previews, manifests | `ingest_scene`, listing and lookup | three renames with rollback, crashes between them, concurrent listing |
| Pairing, scene manifests | `data/pairing.py`, `data/dataset.py`, `backend/services.py` | none | `evaluate_compatibility`, `validate_scene_manifest` | what is accepted at upload must be usable in a pair |
| Sentinel-1 fetch | `backend/sentinel1.py`, `optical_clouds.py`, `routes/sentinel1.py` | `_FETCH_LOCK`, fetched scenes | search, pick a pair, render tiles, check clouds, ingest | second scene failing after the first is stored, busy lock, answers of CDSE that are off in any way |
| Training shards | `data/bigearthnet_shards.py`, `scripts/build_stage1_shards.py`, `build_stage1_train_shards.py`, `verify_stage1_train_shards.py` | shard files, two manifests, reader cursor | selection, `build_shards`, `build_shard_set`, audit, `ShardDataset` | resuming a build after guards, exceptions and crashes; a reader's position over epochs |
| Training sessions | `scripts/run_stage1_full.py`, `stage1_runtime.py` | checkpoints, registry, result record | `run_full`, `bounded_checkpoint_save` | crash between two renames; resuming the same samples; keeping the record of a failure |
| T4 evidence session | `scripts/run_stage1_t4.py`, `run_stage1_smoke.py` | result files, shared checkpoints | stages, gates, attempts, summary | runs that share a storage of two checkpoints; a summary joining runs of several attempts |
| Workspace | `frontend/components`, `frontend/lib` | catalogue, selection, panel, requests in flight | load, upload, select, ask, replay | answers that arrive late or overtake each other |
| Geocoder | `backend/geocode.py` | cache, throttle clock | `geocode`, `_wait_turn` | (not called by the system yet) |

Components interact by calls in one process (routes call services, services
call planner and executor, the executor calls the router, which calls the
worker and then the trace), by a pipe (worker and child), by HTTP (workspace and
routes, fetch and CDSE) and by files (scene store, trace, shards, checkpoints,
result records). Endpoints run in a thread pool, so every shared state of the
backend may be used by several threads; the scripts run one process at a time.

What makes each part correct:

- trace: an acknowledged record is never lost, moved or silently altered, and
  the file can always be loaded again;
- worker: a request gets its own answer or a true reason for having none,
  within its deadline, and one child at a time computes;
- analysis: no answer without its trace record, no trace record of a step that
  did not run, every failure reported as what it is;
- scene store: a scene that can be listed is complete, whatever failed;
- fetch: both scenes of a rightly chosen pair or an error, one fetch at a time;
- decisions: a plan keeps what the question says and promises only what can be
  done; an eligible pair has all the analysis takes from it;
- shards: what is published is a valid prefix, and a complete set is whole;
- sessions: a checkpoint is that of an uninterrupted run, and the last is kept;
- evidence: a summary of success is borne out by the files;
- workspace: the answer and evidence shown belong to the scenes and the question
  shown, and a cached result is shown only by choice.

The line-by-line list of what is hard to test is the `hazards` list of
`PROJECT.json`, each entry with the properties that watch it or the reason none
does.

## 2. The modules

| Module | Models | Uses |
|---|---|---|
| `AuditLog` | what an append-only log promises its callers (abstract) | |
| `TraceLog` | `orchestrator/trace.py` on a disk that may lose unsynced writes | implements `AuditLog` |
| `InferenceWorker` | `orchestrator/worker.py`: threads, child processes, pipe | |
| `SceneStore` | `ingest_scene`, the upload route and `uploaded_scenes` | |
| `CdseCatalogue` | the requests of a fetch, the catalogue's features, the choice of the pair | |
| `CdseReply` | tiles, and the checks an answer of the Process API passes | |
| `OpticalClouds` | the optical check and its verdict | |
| `Sentinel1Fetch` | the fetch behind its route, over the three above | drives two ingests of `SceneStore` |
| `ExecutionPlan` | capabilities, the steps of a plan, what makes one executable | |
| `Providers` | the registry of providers and its conflicts | `ExecutionPlan` |
| `Analysis` | `analyze_scene`, planner, executor and router behind `POST /api/analyze` | `Providers`; appends to `AuditLog`'s log |
| `Question` | the intent and the dates of a question, the keyword rules, the plan | `ExecutionPlan` |
| `SceneManifest`, `Pairing` | an upload's manifest; the compatibility of two | |
| `Decisions` | one plan or one verdict on a pair, decided | `Question`, `Pairing` |
| `ShardSelection` | both selections of patches | |
| `OnePassShards` | `build_shards` and its script | `ShardSelection` |
| `ShardAudit` | the independent audit of a set | |
| `ShardBuild` | the resumable build and its script | the three above |
| `ShardReader` | `ShardDataset`: permutations, cursor, resuming | |
| `TrainingPlan` | how a session is sized from a measured throughput | |
| `Training` | sessions and the bounded checkpoint storage | `ShardReader`, `TrainingPlan` |
| `T4Session` | the stages of `run_stage1_t4.py` | |
| `Workspace` | the analysis page of the browser | |
| `MC...` | the inputs the runs of a module use | the module |
| `...Proofs` | theorems about a module | the module, `TLAPS` |

The composition follows the code. `Analysis` uses the trace only as `AuditLog`
allows (`UsesTrace`), and `TraceLog` shows that the trace behaves that way
(`ImplementsAuditLog`). `Sentinel1Fetch` instantiates `SceneStore` with its own
scenes and calls its actions, so it meets the store's real failures and not a
summary of them. `ShardBuild` keeps its set apart from a set `OnePassShards`
built, and hands what it leaves to `ShardAudit`. `Training` reads its samples
from `ShardReader`.

Every definition that stands for code has its lines under `map` in
`PROJECT.json`. A definition called `Mut...` is a deliberately wrong variant of
the one after it; no specification uses it, and it serves to show that a property
would notice that mistake.

### 2.1 TraceLog

State. `file` is the file as the operating system shows it: whether it exists,
its complete lines, and the bytes after the last newline (none, a torn piece, or
a whole record without its newline). `pers` is the set of files a power loss
may leave in its place: a write adds what it may leave, a successful fsync
shrinks the set to the present file. `evidence` is what the quarantine files
hold durably. `trace` and `loaded` are `_TRACE` and `_LOADED_PATH`; `candidate`,
`stored` and `created` are locals; `pc` and `kind` say where the operation that
holds `_LOCK` is; `verdict` is the last answer of `verify_chain`. `acked` and
`damaged` are history.

Actions. An operation is split at its system calls, since a crash or an
`OSError` may come between any two. `LoadClean`, `LoadRepair`, `LoadRefused` and
`LoadFails` are the outcomes of `_ensure_loaded`; `CompleteNewline`, or
`QuarantineTail` and `TruncateTail`, then `SyncRepair`, are
`_apply_tail_repair`; `AppendOpenFails`, `AppendWrite` (or `AppendWriteFails`,
which leaves any prefix of the bytes), `AppendFsync`, `AppendFsyncNew`,
`SyncDirectory` and `AppendFsyncFails` are `append_record`; `ReturnRecords`,
`VerifyChain` and `VerifyUnreadable` are the readers. `ProcessCrash` loses the
memory, `PowerLoss` the unsynced writes too, and `Edit` alters one line from
outside.

Assumptions. A hash is an injective function of what is hashed. A successful
fsync makes the whole content of the file durable. One process uses a trace file
(`docs/deploy.md` allows one worker process). `FsyncPersistsEntry` says whether
fsync of a new file also keeps its name; file systems differ.

### 2.2 InferenceWorker

State. `lock`, `current` (`_process` and `_conn`, which are always set and
cleared together), one record of each child process (`alive`, `signal`,
`handle` for an open `Process`, `pipe`, `inbox`, `outbox`, `busy`), and of each
thread its position `pc`, whether its deadline has passed, its locals and its
outcome. `then` is what the caller of `_stop` does after it.

Actions. `Ask`, `Acquire`, `LockTimeout`, `StartTooLate`, `EnsureStarted`,
`Reuse`, `Respawn`, `Spawn`, `Send` and their failures are `run` and
`_ensure_started`; `Receive`, `AwaitTimeout`, `AwaitCrash` and `AwaitClosed`
are `_await_reply`; `StopTake` to `StopClose` are the steps of `_stop`;
`Shutdown`, `ShutdownRead` and `Farewell` are `shutdown`, which goes on with or
without the lock; the actions with `Serve` are the child's loop, and children
may crash, hang for ever or ignore SIGTERM. A deadline is the fact that it has
passed (`Expire`), read where the code reads its clock, so every relation
between the speeds of threads and children is covered.

### 2.3 SceneStore

State. For each scene, its three parts (`raster`, `preview`, `manifest`) under
their temporary and their own names, each absent, partial or whole; the position
of its ingest; `committed`, the list the handler unlinks; the exception
raised. `stamped` and `written` order the upload times and the manifests'
modification times. `reader`, `candidates`, `found` and `owed` belong to one
listing; `unread` records the scenes that a failed read kept from it.

Actions. `Reject`, `Begin`, `Write`, `Stamp`, `Replace`, `Unlink`,
`RaiseStorageError`, `CleanUp` and the failures of each are `ingest_scene`; an
unlink may fail too, in the handler and in the `finally` clause. `List`, `Look`
and `Listed` are `uploaded_scenes`, which looks at one manifest after the other
while ingests go on. Its own reads may fail: `ListFails` is the scan of the directory,
after which it answers with an empty list, and `LookFails` one manifest, which it
skips. `ListingOwesAnswered` is about the rest: an answered scene that is missing from
a listing which is not full is one that such a failure kept from it.
`ProcessCrash` ends every ingest where it is; nothing is
cleaned up when the server starts again, as in the code. Uploads run one at a
time on the event loop, fetched scenes on threads of their own.

Assumptions. A rename is atomic. The crash is that of the process: `ingest_scene`
never calls fsync, so nothing is claimed about power losses.

### 2.4 Sentinel1Fetch, CdseCatalogue, CdseReply, OpticalClouds

`lock` is `_FETCH_LOCK`; `pc` is the stage of a request and `job` its locals
until it stores what it rendered; `raised`, `named` and `status` follow the
exception to the answer. `Refuse`, `Conflict`, `Enter` and `Respond` are the
route with its `except` and `finally` clauses. `Search` takes the catalogue's
features page by page, as `_acquisition` reads them (a pass without a relative
orbit is on no known track); `SearchPinned` accepts only the one product an event
pins; `Pick` is `pick_pair`. `RenderTile` copies one tile of the mosaic if the
answer passes every check of `CdseReply`: `Streamed` (limits while it is read),
`Unpacked` (both TAR members once and whole, and the end of the archive),
`Traced` (one orbit, its products) and `OnGrid`. `OpticalCheck` takes the verdict
of the optical pass closest to the radar's. `StartIngest`, `BeforeStored`,
`PairStored`, `BeforeFails` and `AfterFails` are the two ingests, which advance
by `Ingest`, a step of the store.

Every call to CDSE may fail, or answer what no check accepts (`CDSEFails`). A day
is a number and a track an orbit direction with a relative orbit; the pixels of a
tile are positions of the grid, so that the mosaic can be compared with the grid.

### 2.5 Analysis, ExecutionPlan, Providers

A question is what the planner selects for it (`capability`, and whether the rule
for combined questions did), scenes are what the guards ask of them. `Providers`
builds the registry from the registrations in their order. `ready` is the
readiness that `require_provider_ready` and the planner read afresh, `healthy`
whether the trace accepts records; both may change (`Flip`) between any two steps
of a request. `log`, `acked` and `appending` are the trace. `PlanRequest` and
`ResolveStep` are `plan_request` and `build_execution_plan`, whose plan
`ExecutionPlan` validates; `RefuseInputs`, `SceneMissing`, `PassGuards` and the
two `Recheck` actions are the guards of `analyze_scene`; `Replay`,
`ArtifactInvalid` and `NoReplay` the committed results; `InputsMissing`,
`ProviderLost`, `Invoke`, `Result` and `NoResult` are `execute_plan` and `route`;
the last four are `append_record`.

### 2.6 Decisions: Question, SceneManifest, Pairing

These parts keep no state: a behaviour of `Decisions` takes one input and decides
it, so a run is an exhaustive test of pure operators against what they promise.

`Question`: a question is a sequence of words, each standing for the words the
rules treat as it: a phrase matched whole is one word ("cross modal" also for "multi
sensor", "over time"), "year" is a year of 19xx or 20xx apart from the dates, "number"
any other of four digits, "since iso" a "since" with an ISO date right after it, whose
year the rule on "since" and a year takes. The dates found come beside the words, each a
day in a year of any century, or in none. `Years` are those of 19xx and 20xx only, with
a date or apart, as `YEAR_RE` sees them, so a year of another century neither lends
itself to a date without one nor keeps another from doing so; 29 February is a day of
leap years only. `OpticalSarIntent`, `ChangeIntent` and `GroundingIntent` are the keyword
predicates the planner shares with the parse. `Rules` is the order of the intents, of
which `FirstOf` takes the first whose condition holds; `Parse` is
`parse_question`; `KeywordSelection` is the planner's own choice and
`ParsedSelection` how the parse overrides it; `Plan` is `plan_request`. `Refuse`
is the route's 422. `SceneManifest`: from what an upload declares and where its
raster lies (on one axis) to `Accepted`, `Manifest` and `Valid`. `Pairing`: the
codes of the checks a pair fails, in the code's order and with its thresholds,
and then what `_optical_sar_paths` and `_change_inputs` refuse.

### 2.7 ShardSelection, OnePassShards, ShardBuild, ShardAudit

`Selection` is the interleaved selection with its quotas, `GroupedSelection` the
older one. `Pass` folds the members of the archive as `build_shards` meets them:
a candidate is decided by its first band of the wrong size or by its last band,
what is met only in part is rejected and what is never met is only counted;
`ExitCode` and `Measured` are the script around it.

`ShardBuild` is `build_shard_set` and its script: `disk` the shards' files,
`mirror` and `published` the two manifests, `exit` how the last run ended, the
rest its locals. `Start` resumes from what verifies, `SkipWindow` and
`OpenWindow` go through the windows, `Decide` takes the next member of the
archive, `WriteFull` and `WritePartial` write a shard, `Guards` and `DiskGuard`
stop the build, `PublishMirror` and `Publish` rewrite the manifests, which a death
in between may tear, `Refuse` and `ReturnCode` are the script. `Abort` is a
death or an exception at any point. A patch is its tile and its place among the
tile's patches, so `Split`, the patches the split manifest has of the side, are the
ones below a tile's count; the selection is admitted only if all of it is in there,
as `assert_split_purity` demands. `Good(k)` is what a single uninterrupted pass would
put into shard `k`. `ShardAudit` reads a set anew and applies
`verify`'s checks, with the sample of rows as a free choice. Two of its inputs may be
left out, and `Givens` has every case: without `--split` (`tileOf` is `Absent`) the side
is only what the sidecars claim and tiles are not compared at all; without
`--exclude-shards` there is nothing to keep apart from. The captions and the archive are
required: without them a check fails.

### 2.8 Training, TrainingPlan, ShardReader

A model is the sequence of samples it was trained on with the schedule they were
trained under, which is what the session's hash chain folds. `files` are the
checkpoints of the storage root with their temporaries and previous versions,
`registry` the managed names, `record` the result JSON of each output; `pc`,
`step`, `reader`, `used`, `chain` and the rest are the locals of `run_full`.
`Start` begins a session from nothing or from a checkpoint, for a plan that
`TrainingPlan` accepts of a command line; `Measure` one that measures a
throughput. `Session` is everything a session does next: the checks and the load,
a sample, an optimizer step, each system call of `bounded_checkpoint_save`, the
clock guard, the end. `Raise` makes the call under way raise and the session
fail; `Crash` ends the process between or within any two calls, with a plain write
torn. `ShardReader` is the reader as operators on its position: `NextEntry`,
`AfterNext`, `Advance`, against the reference stream `Reference`.

### 2.9 T4Session

`evidence` are the result files of stages and attempts, `outputs` those of the
runs with the optimizer steps whose losses they record, `files` and `registry` the
checkpoint storage all runs share. A run trains or measures step by step, loads,
saves and finishes or raises; the stages choose their runs, gate them, retry once,
fall back to the second configuration, and write the summary. The resume gate
compares the recorded losses as `stage_resume` does; whether a model learned is a
free choice.

### 2.10 Workspace

`store` and `loads` are the server's scenes and the catalogue requests under way
with what each has read; `catalog`, `pending`, `sceneId`, `sceneId2`, `result`,
`panel`, `form` and `calls` are the page's state and its requests. A handler runs
to its end; drawing the page with another scene replaces the panel, whose
requests go on without it, as its `key` makes React do. What the server answers
passes `validateAnalysis` (`ValidReply`) or becomes a failure of the panel.

## 3. The runs

Twelve runs. A `pass` run explores every state of its instance; the `violation`
run shows a disagreement between the code and what its documentation says.

| Run | Instance | Shows |
|---|---|---|
| `trace_log` | 2 payloads, 2 records, all failures, crashes and power losses, 1 edit | `AckedSurvive`, `LoadableUnlessEdited`, `MemoryIsFile`, `VerdictIsRight`, `EvidenceKept`, `ImplementsAuditLog` |
| `inference_worker` | 2 threads, 3 requests, children that hang, crash or ignore SIGTERM | `OneInference`, `NoStaleReply`, `DocumentedOutcome`, `OwnDeadline`, `EveryCallEnds` |
| `worker_shutdown` | 2 threads, 2 requests, 1 shutdown | `OneAtATime` |
| `scene_store` | an upload, a fetched scene, a listing of one | `ManifestMeansWhole`, `FailureLeavesNothing`, `AnswerMatchesStore`, `ListingOwesAnswered` |
| `sentinel1_fetch` | 2 requests of 6 cases, 4 scenes | `PairIsSound`, `AnswerMatchesPair`, `LockIsFreed` |
| `analysis` | 2 requests of 9 kinds, 2 changes of readiness or of the trace | `AnswerIsRecorded`, `RecordIsTrue`, `RunIsSupported`, `UsesTrace` |
| `decisions` | all short questions; pairs of uploads | `PlanKeepsQuestion`, `PairVerdict` |
| `shard_build` | 3 builds of 3 shards, 2 flawed patches, 2 aborts | `ValidPrefix`, `CompleteIsWhole`, `PrefixBalanced`, `AuditIsRight`, `NothingLost` |
| `shard_guard` (violation) | 1 build | `BreachStops` fails |
| `training` | 3 sessions on 2 outputs, 1 call that raises, 1 death | `SequenceIsReference`, `LastSaveSurvives`, `RecordMatchesCheckpoint`, `FailedRecordKept`, `SessionEnds` |
| `t4_session` | every mode and configuration, every run and gate may fail | `SummaryIsTrue`, `CheckpointAwaits` |
| `workspace` | 4 clicks, 1 upload here and 1 elsewhere | `UploadStays`, `CachedOnlyByChoice`, `EvidenceIsPanels` |

What the properties say of the code is in the comment above each of them.

### Bounds, and why they are enough

- `TraceLog`: `MaxRecords = 2` keeps at most two records in the file. Two is the
  least at which a record has a predecessor that is not the genesis, a repair
  works on a file that already has a good line, and a lost record can be told
  from a moved one. Operations, crashes and failures are unbounded. Two payloads
  tell a record from another at its position.
- `InferenceWorker`: `MaxRequests` bounds requests, and with them children. The
  stale reply, the reused child and the replaced child each need two requests;
  the third lets a thread call again after its own timeout while another waits.
- `SceneStore`: two scenes and a limit of one are the least at which a listing
  must drop something and two ingests cross. Any of its reads may fail. Each scene has its own id and files,
  so ingests meet only in the listing.
- `Sentinel1Fetch`: two requests are the least that compete for the lock; no
  request depends on how many others wait, since nobody waits. The six cases are a
  pinned event, two tracks with a pass on no track, windows that share a day,
  catalogues without a pair, a grid that is too large and windows in disorder;
  the passes of a window come on up to three pages in any split. Tiles are two
  pixels wide and grids at most four, so that grids of one tile, of several and
  of tiles cut at an edge occur. An answer to a tile is off in two ways at most:
  the checks are a conjunction, and two let one fault hide behind another.
  The optical passes lie on and beside the thresholds and tie in distance.
- `Analysis`: two requests interleave on the trace; `MaxFlips = 2` lets readiness
  go and come back within one request, the case in which two reads agree and one
  between them does not. `optical_sar` has no provider.
- `Decisions`: three words of 47 are enough for each rule and for two rules that
  compete, four on sensors, times and places for those that need more. Every question
  has no date, one, or two of which one is of 1899; three questions have every three
  dates, with and without years, of 1899, 1900, 2000 and 2001 and on 29 February, which
  tell the years that are seen from others and leap years from others, and up to two
  years apart from them. Uploads: every pair of declarations on
  one grid, every pair of rasters with one declaration, every pair of flaws.
- `ShardBuild`: five patches in shards of two make a last shard that is short;
  windows of one shard and of two may change from build to build; two flawed
  patches are the least that a limit of one tells apart; three builds and two
  aborts let a build die, its successor die on what it left, and a third finish. Each
  set it leaves is audited with and without the split manifest and the excluded set,
  whole and with every single fault; a row may be found under any id of the split, of
  the excluded set or without a caption.
  Tiles have three patches each, or one and five. ID lists: none, one that is
  accepted where the tiles have its patches, and six that are wrong. One-pass builds
  see every interleaving of the members of two candidates of two bands, each member
  good, zero, of the wrong size, undecodable or absent.
- `Training`: three patches and two epochs, batches of two, so that batches
  straddle epochs; a plan of three steps with a checkpoint every two, so that the
  last checkpoint is not on the period. A session may run two steps, or none. Of
  ten command lines eight are refused. Three sessions, one exception and one death
  let a resumed session be resumed, or follow a failure on either output.
- `T4Session`: four steps with checkpoints every two and three overfit steps give
  more checkpoints than the storage keeps.
- `Workspace`: four clicks are the least in which the user asks, is refused,
  replays, and leaves while the answer is under way. The number of requests under
  way follows. Answers are off in two of their fields at most.

`CHECK_DEADLOCK FALSE` stands where an instance ends: its requests, sessions,
builds, clicks or inputs are used up.

### Fairness

Safety is checked without it. `FairSpec` adds, for liveness:

- `InferenceWorker`: a thread whose next step is enabled takes it, a deadline
  passes (the timeouts are finite), and the operating system ends a process that
  was sent SIGKILL. A child's inference is not fair: it may hang for ever, and
  `EveryCallEnds` holds all the same, because the parent stops waiting.
- `Sentinel1Fetch`: a stage ends (every CDSE call has a timeout) and file
  operations return. Nothing is assumed about failing or succeeding.
- `Training`: the one process goes on (`Session`). `SessionEnds` says that a
  session ends by completion, its cap, its guard or a failure.

Nothing lively is claimed of the workspace: its requests have no timeout, and a
request that is never answered leaves the panel loading.

### What the violation run found

`shard_guard`: `build_shard_set` compares `rejected_this_run` with the limit on
rejections, but a patch rejected for its size, its missing bands or a raw zero is
only entered in `rejected`; the count is raised for patches still incomplete at
the end of a pass. The registered rule says that a breach stops the build.

## 4. The theorems

TLC explores one instance; the theorems, checked by TLAPS, hold for all values of
the constants that satisfy the named assumptions of each module.

**TraceLog** (`ConstantsAssumption`, `MarkersAssumption`). `TypeCorrect` needs
`TypeInv`: `TypeOK` and the locals each position relies on. The safety properties
follow from `IInv`. None of them is inductive, because what survives a power
loss depends on what the operation under way has done: `IInv` says that as long
as nobody edits the file, *every* file in `pers` is loadable and carries a prefix
of the history (`Survivors`, with the acknowledged records in it where
`FsyncPersistsEntry` holds), and that memory, file and `pc` agree at every
position (`Position`). Its step is proved action by action; the lemmas
`VerifiedExtends`, `GrownLoadable`, `TerminatedLoadable` and `TruncatedLoadable`
say what a write or a repair, stopped anywhere, does to the chain. From it come
`AcknowledgedIsDurable` (assuming `FsyncPersistsEntry`) and `MemoryMatchesFile`.
For an edited file, `EditInv` says that a broken line is in every file that may
survive: `EditBreaks` (a hash is injective) establishes it and no action removes
a line. Both invariants together give `LoadFailsClosedOnly` and
`VerdictsAreRight`. `TraceImplementsLog` is the refinement: assuming
`FsyncPersistsEntry`, the initial state maps to that of `AuditLog`, and
each step until an edit to one of its steps or a stutter (an acknowledgment is the abstract
append; a power loss may drop what was not acknowledged). `TornBytesAreKept`
(`EvidenceKept`) needs `Quarantined`: between the write of the quarantine file and
the truncation, the torn bytes are in `evidence`.

**InferenceWorker** (`WorkerAssumption`). `LockInv` says that a request past its
acquire owns the lock, whatever a shutdown does, which gives `OneCallerAtATime`
for any callers and closers. The other four theorems are about behaviours in which
every shutdown got the lock before its wait for it was over (`[]Patient`), as they
must be: a shutdown that goes on without it makes the first of them false (section 5).
`SoloInv` has three parts, of the children (only the current child, or the one
being stopped, is alive and not condemned), of the messages (at most one message
of the present request is in the pipe, and a child that is reused has an empty
one), and of the outcomes; `OneInferenceAtATime`, `RepliesAreFresh` and
`OutcomesAreDocumented` follow. The middle one is the reason that a timeout must
stop the worker before the next request may have it. `DeadlinesAreOwn` adds
`DeadlineInv`: a request that is about to report a timeout has a deadline that is
past, one that is about to report a crash a child that has gone; and `LockInv` with
`Patient` says that nobody else signals its child (`SignalsOfOwner`).

**SceneStore** (no assumption about the disk but atomic renames). `StoreInv` is a
conjunction of one invariant per scene, since an ingest touches the files of its
own scene only (`Elsewhere`, `Frame`). `ReplaceInv` is its core: during the renames
exactly the parts before the present one are under their own names, all of them
are in `committed`, and the others are whole under their temporary names. Because
the manifest is renamed last it gives `ManifestsAreComplete`; because `committed`
holds all that is visible it gives `FailuresLeaveNothing`; with the ends of an
ingest it gives `AnswersMatchStore`. A crash is allowed at each position.
`ListingsOweAnswered` adds `OrderInv` (the stamps of a scene) and `ListInv` (what a
listing has looked at, found, failed to read and still owes). What the sorted listing drops is
shown by an induction on the place of a scene in it, over a set of naturals, which
`WFMin` makes available to the provers.

**Sentinel1Fetch** (`FetchAssumption`, `CasesAssumption`, `OpticalAssumption`).
`OneAtATime` and `AnswersMatchPairs` come
from one invariant of a request and the store: which of its two ingests have begun
and how they ended at each stage (`EarlyInv`, `IngestInv`, `EndInv`), with
`FailureInv` the state every failure leaves. What an ingest leaves behind is not
proved again: `SceneStoreProofs` is instantiated for the scenes of the fetches, the
steps of a fetch are shown to be steps of that store (`Starts`, `GoesOn`, `Dies`),
and its invariant turns the phase of an ingest into what is under the scene's own
names. `NothingStoredEarly` is the part of `PairIsSound` about the store, and
`PairsAreSound` all of it, from `JobsInv`: what a job has searched, picked and
rendered at each stage. That every pixel of the grid is copied exactly once is
arithmetic on the tiles (`AllTiles`, for any grid and tile size); that the pair is
the closest on one track, and the verdict that of the nearest optical pass, are
lemmas about a least element of a finite set.

**Analysis** (`ConstantsAssumption`).
`IInv` relates each request to the trace: `LocalInv` says what a request knows at
each position (a plan that was checked, steps that have providers, an entry that
is true of what ran), `TraceInv` that the log has no entry of a request that has
not reached the append, that the last entry is that of the one inside
`append_record`, and that what is acknowledged stays in its place. `AnswersAreRecorded`, `RecordsAreTrue` and
`RunsAreSupported` follow; `TraceIsUsedAsAllowed` shows each step of the service
to be a step of `AuditLog` or a stutter, so with `TraceImplementsLog` the service
over the real trace keeps what it acknowledged.

**ShardBuild** (`SelectionAssumption`, `OnePassAssumption`, `AuditAssumption`,
`BuildAssumption`, `TilesAssumption`, `MarkersAssumption`). All five properties of the
run, for any tiles and counts, selection, archive, shard size and windows, with any
number of builds, stops and deaths. `IInv` has two parts. `PublishedInv`: a published
manifest that can be read names shards whose files are there and hold exactly
`Good(k)` in order, and all of them when its status is complete. `BuildInv`: while a
build runs, every acceptable patch of a shard that is not recorded is pending or in the
shard's buffer, and none of a shard that is recorded (`PatchInv`); the windows
behind it are done, buffers are filled in the present window only and empty between
windows (`WindowInv`); and `records` holds at least what is published (`RecordsInv`).
It is the middle one that makes a change of windows between two builds harmless: a
patch is decided by its rank, not by the window in which it was met.
`InterruptedBuildIsAPrefix`, `CompletionIsTrue` and `PublishedStays` follow.
`SelectionIsBalanced` is about any stock: the quotas of `Visits` are shown even
(`QuotasAreEven`) by induction on the visits, and the rounds of `Selection` to keep
every prefix so; its other half, `OnePassAccounts`, is an induction over the members
of any archive (`PassIsSound`). `AuditFindsFaults`: what is published is a set in
order (`PublishedSet`), which the audit passes (`FineIsSound`, `SamplesAreSome`); each
way to damage it that `Faults` lists breaks one of the checks (`FaultsAreFound`), and
each that `Disguised` lists none but the comparison with the source (`DisguisedIs`,
`AlteredIsSound`). Among the latter is a row under the id of another patch of its tile, or,
without the split manifest, of any other patch that is not in the set or kept apart:
only a sample with the row finds it. A row of a wrong tile is found with the split manifest
and never without it (`UnseenIs`). `Claimed`, the ids a row may be found under, bounds the
run alone: the lemmas are about any ids.

**Decisions** (`PlanRequestsAssumption`, `PairsAssumption`; in `AnalysisProofs`, after
the analysis). The invariant says that what was decided is `Plan` or `Compatibility` of
its input; the rest is about those two operators, for questions of any words and length
with any number of dates, and any two uploads. `IntentIs` and `KeywordIs` turn the
ordered rules into cases, and `Selected` compares them: a question is routed lower than
its keywords ask only when a dated flood overrides two sensors that it names but does not
join, or a "cross modal" that names none. Dates may have any year; what a date without
one takes is stated over the years of 19xx and 20xx, which are all the rules see
(`YearsAre`). `DatesAre` needs the earliest and the latest of finitely many dates (`Extremes`), which are there
because the smallest of the sets "the dates from one of them on" has one member. For a
pair, `Checked` and the lemmas before it say when no check fails; `Symmetric` that this
does not tell the order of an optical and a SAR scene; `EligibleHas` what is left to the
analysis. The two theorems are `PlansKeepQuestions` and `PairsAreJudged`.

**T4Session** (`MarkerAssumption`). `IInv` has `RunInv` (a run has done the steps its
outputs record), `FileInv` (while a later run of a stage needs it, the checkpoint of the
earlier one is on the disk) and `StageInv` (which stages are behind it at each
position, each `Proven` by the record and the outputs of its last attempt). `CheckpointsAwait`: a run that resumes finds its
checkpoint. `SummariesAreTrue`: the summary claims a stage only if its evidence is
on the disk and passed. `StepsAreComparable`: the two loss records the resume gate
compares are of the same steps.

**Workspace** (`MarkersAssumption`; in `AnalysisProofs`, at the end).
`UploadsStay`, `CachedByChoice` and
`EvidenceOfPanel` are all three safety properties of the page. `CallsInv` is what
makes them inductive: a panel that has asked shows nothing until it is answered,
and asks once at a time (`OneCall`), so a late answer can only be that of a panel
with a lower number. `AcceptedIsOfRequest` says what `validateAnalysis` ensures of
an answer; that a live request is not answered by a whole cached result is taken
from `analyze_scene`, by the bound on `Replies`.

**Training** (`ReaderAssumption`, `PlanAssumption`, `TrainingAssumption`,
`MarkersAssumption`). Two theorems are about the reader alone, for any number of
patches: `ReaderFollowsStream`, that `next_entry` returns what the reference
stream has at the reader's position and moves on by one, over every epoch
boundary; and `AdvanceIsNext`, that recording a position leaves the reader where
reading would have. `ResumeIsInvisible` needs `SequenceInv`: a session has
trained on exactly the samples before its position (`SessionInv`, with the samples
of the unfinished batch), and every whole checkpoint, under a temporary or
previous name too, holds such a state with the reader at its step
(`FilesInv`). It is inductive because a save writes the state under the temporary
name first, and every `.pt` name is only ever the target of a rename of a whole
file. `FailuresAreKept` needs `RecordInv`: a session that runs is not on an
output whose record is of a failure, since `run_full` refuses to begin there.
`SavesSurvive` needs an invariant of the storage: who is in the registry
(`StorageInv`), and that the newest state is under one of the managed names at
each step between two renames (`NewestInv`). `RecordsMatchCheckpoints` needs that
no session and no checkpoint is past its plan (`StepInv`), and that no session
runs on an output whose record is final (`FinalInv`).

### What is only model-checked

- Liveness (`EveryCallEnds`, `LockIsFreed`, `SessionEnds`): fairness and ENABLED
  are beyond the prover.

Quotas, passes over an archive and readers are recursive functions of data. The
library's theorems on such functions take an operator as a parameter and cannot be
used; an induction over a set of naturals, from its least element (`LeastNumber`,
`WFMin`), can be carried out, and is wherever a theorem needs one.

## 5. Divergences seen without a run of their own

Met while modelling; each is where the code and a text of the repository, or two
parts of the code, disagree, or where a consequence is easily overlooked. The
models follow the code.

- `trace.py:247`: the directory is synced only when the append found no file. If
  a first append creates the file and fails, its retry is acknowledged without
  that sync (`trace.py:149`, `236` promise durability); whether the name may be
  lost depends on the file system.
- `worker.py:260`: `shutdown` continues when it cannot get the lock in time and
  its `_stop` clears the fields under the request that owns the worker; that
  request's own `_stop` finds nothing to stop, and the next one starts a second
  child while the first still infers (`worker.py:10`, `241`).
- `services.py:610`: the listing cuts by modification time and sorts the rest by
  `uploaded_at`; two ingests that cross order these differently, so that the more
  recent upload may be dropped (`services.py:593`, `608`).
- `services.py:603`: the `FileNotFoundError` meant for a directory that is not there is
  also that of a manifest that is removed between the scan and its `stat`, and any
  other failing `stat` counts as an unreadable directory: the listing is then empty,
  although other uploads are there (its docstring: "skipping (and logging) unusable
  manifests").
- `sentinel1.py:570`: if the second ingest fails and so does an unlink of its
  roll-back, the `OSError` is not among the exceptions that are wrapped, and the
  scene already stored is not named (`sentinel1.py:521`).
- `sentinel1.py:66-68`: a window "holds every slice of the chosen pass and nothing
  else"; with windows that touch at midnight, two slices of one pass may be chosen
  as before and after, since the least interval wins. Days are too coarse in the
  model to show it.
- `optical_clouds.py:104`: a pass dated at the limit of a datetime overflows and is
  not among the failures that are turned into "unknown" (`optical_clouds.py:10-12`).
- `router.py:64`: evidence that is a list, but not of objects, is recorded and then
  refused with 502 by the response model (`test_api.py:1045` is named for the
  contrary).
- `planner.py`: its docstring says a `parsed_*` rule id marks exactly the routings
  the keyword rules got wrong; a combined request over a pair of SAR scenes is an
  exception. `question.py`'s docstring omits the comparison words.
- `question.py:103`: a date may have any four digits as its year (`question.py:90-93`),
  but only 19xx and 20xx count as stated years; and a dated flood is routed to change
  although it says "cross modal", which for the planner alone asks for both sensors.
- `pairing.py`: an eligible pair must share one grid, so the overlap and
  resolution thresholds never decide alone.
- `bigearthnet_shards.py:842-847` promises that a rerun verifies and continues;
  a manifest torn by a death, or a damaged shard, makes every later build refuse
  instead. A mirror manifest may name a shard that a later build rewrites; nothing
  is fsynced; the branches on `seen_ids` and on the dtype cannot be reached.
- `build_stage1_train_shards.py:123` keys the excluded tiles by `split_name`, and
  `build_shard_set` looks them up by tile, so the guard on tiles never applies (the
  one on patches does).
- `verify_stage1_train_shards.py`: "re-derives split purity" (its docstring), but without
  `--split` the side is what the sidecars say and a wrong tile passes. A row under the id
  of another patch of its tile passes unless it is sampled, since the checksum is of the
  pixels alone. `all_passed` does not require a complete set,
  and the caption coverage of an empty one divides by zero. `main` of
  `build_stage1_shards.py` returns 0 whatever the set falls short of.
- `stage1_runtime.py:83`: "atomic" and "keep last two" of the storage as a whole: a
  death between the two renames leaves no checkpoint under its own name. A
  session whose cap allows no step ends completed and passed with nothing trained.
- `run_stage1_t4.py:9-12`: a second attempt overwrites the evidence of the first in
  the resume and overfit stages, and an exception in the overfit stage leaves no
  summary.
- `QueryPanel.tsx:42`: the late answer of a panel that was replaced still reaches
  `onResult` and draws its evidence on the other scene (`EvidenceIsPanels` states
  exactly that exception). The answer of an upload that was listed and selected
  meanwhile clears what is drawn; a lost answer is reported as "not uploaded"
  although the scene is stored; an older catalogue that arrives late drops another
  client's scene; `Workspace.tsx:119` says only the pinned scene is shown while the
  catalogue is kept; the keyboard's `ask` does not look at `available`; and
  `validateAnalysis` does not compare the mode of an answer with that of its
  request, although the trace of the answer must have it.
- `gpu_smoke_workflow.py:480` reports a model as not available when both are.

## 6. Not modelled

- Numerical inference and training of the models (a model answers, fails, hangs or
  dies; a step consumes samples), the wording of answers, logs and errors,
  rendering, projections and resampling, matching of words and dates in a text.
- `geocode.py`: nothing in the repository calls it yet.
- `scene_pack.py`, `sar_change_artifacts.py`, provisioning and deployment: they
  verify committed files by hash and keep no state.
- `gpu_smoke_workflow.py`, the evaluation scripts, `bigearthnet_pilot.py` and the
  other preparation of data: sequential checklists and one-shot scripts that leave
  nothing but their output.
- `demo_gui`: a page for one user over the same orchestrator, in a process of its
  own.
- `stage_memory_matrix` of `run_stage1_t4.py`, which `main` never calls, and the
  other pages of the frontend, which draw what they fetch.
- Power losses beside the trace's: scenes, shards and checkpoints are never
  fsynced and nothing is promised of them.

## 7. What is left

Every safety property a `pass` run checks is stated by a theorem. To do: what is left
of the worker's properties once a shutdown has gone on without the lock (only
`OneAtATime` is proved of that).
