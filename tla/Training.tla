------------------------------ MODULE Training ------------------------------
(***************************************************************************)
(* The stage-1 training sessions of scripts/run_stage1_full.py with the    *)
(* bounded checkpoint storage of scripts/stage1_runtime.py, one process at *)
(* a time on one storage root.  A session trains from nothing or from a    *)
(* checkpoint, and may raise, or die, between or within any two calls to   *)
(* the file system.  Models and optimizers are abstracted to the sequence  *)
(* of samples they were trained on, which is what the session's hash chain *)
(* folds; a rename is atomic, a plain write may be torn by a crash.        *)
(***************************************************************************)
EXTENDS ShardReader, TrainingPlan, SequencesExt, FiniteSets

CONSTANTS
  Outputs,     \* the output paths, without their suffix
  Every,       \* checkpoint_every_steps
  MaxSessions, \* bound: sessions ever started
  MaxFaults,   \* bound: calls that raise
  MaxCrashes,  \* bound: processes that die
  Absent, Partial, Torn  \* model values: no file, a prefix of one, bad JSON

ASSUME TrainingAssumption ==
  /\ Every \in Nat \ {0}
  /\ MaxSessions \in Nat /\ MaxFaults \in Nat /\ MaxCrashes \in Nat

\* What the hash chain folds, and what a checkpoint file holds.
Item == [step : Nat, entry : Patches, total : Totals]
Checkpoint == [step : Nat, total : Totals, reader : Readers, chain : Seq(Item)]

ASSUME MarkersAssumption ==
  Absent # Partial /\ {Absent, Partial} \cap Checkpoint = {}

VARIABLES
  files,    \* the checkpoint files of the root
  registry, \* .stage1-checkpoints.json: the managed names, oldest first
  record,   \* the result JSON of each output
  pc,       \* where the session is
  out,      \* its output
  total,    \* its total_steps
  source,   \* its resume_from, or <<>>
  step, reader, used, chain, last,  \* locals of run_full
  stop,     \* its steps_to_run; the cap on them until it has loaded
  guarded,  \* whether the save under way is the wall-clock guard's
  entries,  \* local of bounded_checkpoint_save
  newest,   \* history: the state last published, or Absent
  sessions, faults, crashes

diskVars == <<files, registry, record>>
loopVars == <<step, stop, reader, used, chain, last>>
vars == <<diskVars, pc, out, total, source, loopVars, guarded, entries, newest,
          sessions, faults, crashes>>

\* The names a checkpoint of output o goes through.
Own(o) == <<o, "pt">>
Previous(o) == <<o, "previous">>
Temp(o) == <<o, "tmp">>
Managed == {Own(o) : o \in Outputs} \cup {Previous(o) : o \in Outputs}
Names == Managed \cup {Temp(o) : o \in Outputs}

Exists(f) == files[f] # Absent
Whole(f) == files[f] \notin {Absent, Partial}

\* What a checkpoint saves of the session.
State == [step |-> step, total |-> total, reader |-> reader, chain |-> chain]

\* What a session writes to its record: last says whether the record names
\* a checkpoint of the session.
Record(status, passed) ==
  [status |-> status, passed |-> passed, chain |-> chain, last |-> last]

Init ==
  /\ files = [f \in Names |-> Absent]
  /\ registry = <<>>
  /\ record = [o \in Outputs |-> Absent]
  /\ pc = "idle" /\ out \in Outputs /\ total \in Totals /\ source = <<>>
  /\ step = 0 /\ stop = 0 /\ reader = NewReader
  /\ used = <<>> /\ chain = <<>> /\ last = FALSE
  /\ guarded = FALSE /\ entries = <<>> /\ newest = Absent
  /\ sessions = 0 /\ faults = 0 /\ crashes = 0

Goto(p) == pc' = p
\* The locals of a session that has not begun, or is over.
Cleared(cap) ==
  /\ step' = 0 /\ stop' = cap /\ reader' = NewReader
  /\ used' = <<>> /\ chain' = <<>> /\ last' = FALSE
  /\ guarded' = FALSE /\ entries' = <<>>
SameStore == UNCHANGED <<files, registry, entries, newest>>
SameCounts == UNCHANGED <<sessions, faults, crashes>>
SameSession == UNCHANGED <<out, total, source>>

-----------------------------------------------------------------------------
\* A session begins.  A record that failed is kept: the session is refused,
\* as it is when the record cannot be parsed.
HasRecord(o) == record[o] \notin {Absent, Torn}
Failed(o) == HasRecord(o) /\ record[o].passed = "no"
MutAccepts(o) == record[o] # Torn
Accepts(o) == record[o] # Torn /\ ~Failed(o)

Launch(o, t, cap, f) ==
  /\ pc = "idle" /\ sessions < MaxSessions
  /\ Goto("open") /\ sessions' = sessions + 1
  /\ out' = o /\ total' = t /\ source' = f
  /\ Cleared(cap)
  /\ UNCHANGED <<diskVars, newest, faults, crashes>>

Start(o, p, f) ==
  /\ Accepts(o)
  /\ f # <<>> => Exists(f)
  /\ Launch(o, p.total, p.cap, f)

\* A measurement of the throughput is a session of n steps on a new output.
Measure(o, n) ==
  /\ record[o] = Absent /\ ~Exists(Own(o))
  /\ Launch(o, n, n, <<>>)

\* The first save of the record, outside the try block.
Open ==
  /\ pc = "open" /\ Goto("verify")
  /\ record' = [record EXCEPT ![out] = Record("started", "unset")]
  /\ UNCHANGED <<loopVars, guarded>>
  /\ SameStore /\ SameCounts /\ SameSession

\* verify_checkpoint: the proof goes to the record, and must have passed.
Verify(proof) ==
  /\ pc = "verify" /\ Goto(IF proof THEN "load" ELSE "failing")
  /\ record' = [record EXCEPT ![out] = Record("started", IF proof THEN "yes" ELSE "no")]
  /\ UNCHANGED <<loopVars, guarded>>
  /\ SameStore /\ SameCounts /\ SameSession

\* The checkpoint the session resumes from, or <<>>: resume_from, else the
\* one already under the output's own name.
ResumeState == IF source # <<>> THEN source
               ELSE IF Exists(Own(out)) THEN Own(out) ELSE <<>>

MutRestored(ckpt) ==
  /\ step' = ckpt.step /\ chain' = ckpt.chain /\ reader' = NewReader
Restored(ckpt) ==
  /\ step' = ckpt.step /\ chain' = ckpt.chain /\ reader' = ckpt.reader

LowerOf(a, b) == IF a < b THEN a ELSE b

Resumable(f) == Whole(f) /\ files[f].total = total

Load ==
  /\ pc = "load"
  /\ \/ /\ ResumeState = <<>> /\ Goto("loop")
        /\ stop' = LowerOf(total, stop)
        /\ UNCHANGED <<step, chain, reader>>
     \/ /\ ResumeState # <<>> /\ Resumable(ResumeState) /\ Goto("loop")
        /\ Restored(files[ResumeState])
        /\ stop' = LowerOf(total, files[ResumeState].step + stop)
     \/ /\ ResumeState # <<>> /\ ~Resumable(ResumeState) /\ Goto("failing")
        /\ UNCHANGED <<step, stop, chain, reader>>
  /\ UNCHANGED <<record, used, last, guarded>>
  /\ SameStore /\ SameCounts /\ SameSession

\* One micro-batch: the next patch of the reader.
Draw ==
  /\ pc = "loop" /\ step < stop /\ Len(used) < Accum
  /\ Rolled(reader).epoch <= LastEpoch
  /\ used' = Append(used, NextEntry(reader))
  /\ reader' = AfterNext(reader)
  /\ UNCHANGED <<record, pc, step, stop, chain, last, guarded>>
  /\ SameStore /\ SameCounts /\ SameSession

\* The optimizer step: the chain folds what was used, the record is written.
Fed == chain \o [i \in 1 .. Len(used) |->
                   [step |-> step, entry |-> used[i], total |-> total]]

Train ==
  /\ pc = "loop" /\ step < stop /\ Len(used) = Accum
  /\ Goto("trained")
  /\ chain' = Fed /\ used' = <<>> /\ step' = step + 1
  /\ record' = [record EXCEPT ![out] =
       [Record("running", "yes") EXCEPT !.chain = Fed]]
  /\ UNCHANGED <<stop, reader, last, guarded>>
  /\ SameStore /\ SameCounts /\ SameSession

-----------------------------------------------------------------------------
\* bounded_checkpoint_save, call by call.  It refuses a registry it cannot
\* read and a temporary file that an earlier attempt left.
Refused == registry = Torn \/ Exists(Temp(out))

SaveFrom(guard) ==
  /\ guarded' = guard
  /\ \/ Refused /\ Goto("failing") /\ UNCHANGED entries
     \/ ~Refused /\ Goto("write") /\ entries' = registry
  /\ UNCHANGED <<diskVars, loopVars, newest>> /\ SameCounts /\ SameSession

MutDue == step % Every = 0
Due == step % Every = 0 \/ step = stop
SaveDue == pc = "trained" /\ Due /\ SaveFrom(FALSE)
NoSaveDue ==
  /\ pc = "trained" /\ ~Due /\ Goto("clock")
  /\ UNCHANGED <<diskVars, loopVars, guarded, entries, newest>>
  /\ SameCounts /\ SameSession

SaveStep(from, to) ==
  /\ pc = from /\ Goto(to)
  /\ UNCHANGED <<record, loopVars, guarded>> /\ SameCounts /\ SameSession

\* The state goes to the temporary file, whole and synced.
WriteTemp ==
  /\ SaveStep("write", "previous")
  /\ files' = [files EXCEPT ![Temp(out)] = State]
  /\ UNCHANGED <<registry, entries, newest>>

\* The list without a name; no name is in it twice.
Without(s, f) ==
  IF f \in Range(s)
  THEN LET at == CHOOSE i \in 1 .. Len(s) : s[i] = f IN RemoveAt(s, at)
  ELSE s

\* An earlier version of this output moves to its previous name, unless a
\* file is there that the registry does not manage.
MayReplace == Exists(Previous(out)) => Previous(out) \in Range(entries)

MutKeepPrevious ==
  /\ SaveStep("previous", "publish")
  /\ files' = [files EXCEPT ![Own(out)] = Absent]
  /\ UNCHANGED <<entries, registry, newest>>
KeepPrevious ==
  /\ pc = "previous"
  /\ \/ /\ ~Exists(Own(out)) /\ SaveStep("previous", "publish")
        /\ UNCHANGED <<files, entries>>
     \/ /\ Exists(Own(out)) /\ MayReplace /\ SaveStep("previous", "publish")
        /\ files' = [files EXCEPT ![Previous(out)] = files[Own(out)],
                                  ![Own(out)] = Absent]
        /\ entries' = Append(Without(Without(entries, Own(out)), Previous(out)),
                             Previous(out))
     \/ /\ Exists(Own(out)) /\ ~MayReplace /\ SaveStep("previous", "failing")
        /\ UNCHANGED <<files, entries>>
  /\ UNCHANGED <<registry, newest>>

Publish ==
  /\ SaveStep("publish", "register")
  /\ files' = [files EXCEPT ![Own(out)] = files[Temp(out)],
                            ![Temp(out)] = Absent]
  /\ entries' = Append(Without(entries, Own(out)), Own(out))
  /\ newest' = files[Temp(out)]
  /\ UNCHANGED registry

LastTwo(s) == SubSeq(s, IF Len(s) > 2 THEN Len(s) - 1 ELSE 1, Len(s))
Expired(s) == SubSeq(s, 1, Len(s) - 2)

Register ==
  /\ SaveStep("register", "expire")
  /\ registry' = LastTwo(entries) /\ entries' = Expired(entries)
  /\ UNCHANGED <<files, newest>>

\* The names that are no longer managed are unlinked one by one, and the
\* save returns.
MutExpire ==
  /\ entries # <<>> /\ SaveStep("expire", "expire")
  /\ files' = [files EXCEPT ![Head(entries)] = Absent]
  /\ UNCHANGED <<registry, entries, newest>>
Expire ==
  /\ entries # <<>> /\ SaveStep("expire", "expire")
  /\ files' = [files EXCEPT ![Head(entries)] = Absent]
  /\ entries' = Tail(entries)
  /\ UNCHANGED <<registry, newest>>

Return ==
  /\ entries = <<>> /\ SaveStep("expire", "saved")
  /\ UNCHANGED <<files, registry, entries, newest>>

-----------------------------------------------------------------------------
\* The record names the checkpoint; after the guard's save the session ends.
Saved ==
  /\ pc = "saved" /\ ~guarded /\ Goto("clock")
  /\ last' = TRUE
  /\ record' = [record EXCEPT ![out] =
       [Record("running", "yes") EXCEPT !.last = TRUE]]
  /\ UNCHANGED <<step, stop, reader, used, chain, guarded>>
  /\ SameStore /\ SameCounts /\ SameSession

\* The end of a session, which writes its record.
End(final) ==
  /\ Goto("idle") /\ Cleared(0)
  /\ record' = [record EXCEPT ![out] = final]
  /\ UNCHANGED <<files, registry, newest>> /\ SameCounts /\ SameSession

GuardExit ==
  /\ pc = "saved" /\ guarded
  /\ End([Record("guard", "yes") EXCEPT !.last = TRUE])

\* The clock at the end of an iteration: on with the loop, or the guard.
OnTime ==
  /\ pc = "clock" /\ Goto("loop")
  /\ UNCHANGED <<diskVars, loopVars, guarded, entries, newest>>
  /\ SameCounts /\ SameSession
Guard == pc = "clock" /\ SaveFrom(TRUE)

Finish ==
  /\ pc = "loop" /\ step >= stop
  /\ End(Record("completed", "yes"))

\* The except block writes the record and raises on.
Fail == pc = "failing" /\ End(Record("failed", "no"))

\* The evaluation, before the clock is read, trains nothing and writes the
\* record once more.
Evaluates == pc = "clock"

\* What a call that is cut short may leave: the file it was writing torn.
WritesRecord ==
  \/ pc \in {"open", "verify", "saved", "failing"} \/ Evaluates
  \/ pc = "loop" /\ (step < stop => Len(used) = Accum)
CutShort ==
  /\ \/ UNCHANGED diskVars
     \/ /\ WritesRecord /\ UNCHANGED <<files, registry>>
        /\ record' = [record EXCEPT ![out] = Torn]
     \/ /\ pc = "write" /\ UNCHANGED <<registry, record>>
        /\ files' = [files EXCEPT ![Temp(out)] = Partial]
     \/ /\ pc = "register" /\ UNCHANGED <<files, record>>
        /\ registry' = Torn
  /\ UNCHANGED <<newest, sessions>> /\ SameSession

\* A call raises: the storage cap, a non-finite loss, an I/O error.  The
\* first and the last write of the record are outside the try block.
Raise ==
  /\ pc # "idle" /\ faults < MaxFaults
  /\ faults' = faults + 1 /\ UNCHANGED crashes
  /\ \/ pc \in {"open", "failing"} /\ Goto("idle") /\ Cleared(0)
     \/ /\ pc \notin {"open", "failing"} /\ Goto("failing")
        /\ UNCHANGED <<loopVars, guarded, entries>>
  /\ CutShort

\* The process dies.
Crash ==
  /\ pc # "idle" /\ crashes < MaxCrashes
  /\ crashes' = crashes + 1 /\ UNCHANGED faults
  /\ Goto("idle") /\ Cleared(0)
  /\ CutShort

Session ==
  \/ Open \/ (\E proof \in BOOLEAN : Verify(proof)) \/ Load \/ Draw \/ Train
  \/ SaveDue \/ NoSaveDue \/ WriteTemp \/ KeepPrevious \/ Publish \/ Register
  \/ Expire \/ Return \/ Saved \/ GuardExit \/ OnTime \/ Guard \/ Finish \/ Fail

Next ==
  \/ \E o \in Outputs, p \in Plans, f \in Managed \cup {<<>>} : Start(o, p, f)
  \/ \E o \in Outputs, n \in Measures : Measure(o, n)
  \/ Session \/ Raise \/ Crash

Spec == Init /\ [][Next]_vars
FairSpec == Spec /\ WF_vars(Session)
-----------------------------------------------------------------------------
Statuses == {"started", "running", "completed", "guard", "failed"}
Records == [status : Statuses, passed : {"unset", "yes", "no"},
            chain : Seq(Item), last : BOOLEAN]
Pcs == {"idle", "open", "verify", "load", "loop", "trained", "write",
        "previous", "publish", "register", "expire", "saved", "clock",
        "failing"}

\* The type invariant.
TypeOK ==
  /\ files \in [Names -> Checkpoint \cup {Absent, Partial}]
  /\ registry = Torn \/ registry \in Seq(Managed)
  /\ record \in [Outputs -> Records \cup {Absent, Torn}]
  /\ pc \in Pcs /\ out \in Outputs /\ total \in Totals
  /\ source \in Managed \cup {<<>>}
  /\ step \in Nat /\ stop \in Nat /\ reader \in Readers
  /\ used \in Seq(Patches) /\ chain \in Seq(Item) /\ last \in BOOLEAN
  /\ guarded \in BOOLEAN /\ entries \in Seq(Managed)
  /\ newest \in Checkpoint \cup {Absent, Partial}
  /\ sessions \in Nat /\ faults \in Nat /\ crashes \in Nat

\* What an undisturbed run with total t would have trained on in s steps.
Undisturbed(s, t) ==
  [i \in 1 .. s * Accum |-> [step |-> (i - 1) \div Accum,
                             entry |-> Reference(i - 1), total |-> t]]

\* Resuming is invisible: whatever sequence of sessions, resumes, failures
\* and crashes led to it, every checkpoint under a .pt name is whole and was
\* trained on exactly the samples, in the order and under the schedule, of
\* one run that was never interrupted (run_full's resume, ShardDataset's
\* position, and the atomic save).
SequenceIsReference ==
  \A f \in Managed : Exists(f) =>
    /\ files[f] # Partial
    /\ files[f].chain = Undisturbed(files[f].step, files[f].total)

\* The state last published, and so that of the last save that returned, is
\* on disk under a .pt name until another is published, through every
\* failure and crash (bounded_checkpoint_save moves the preceding version
\* aside while it replaces it, and expires only older names).
LastSaveSurvives ==
  newest # Absent => \E f \in Managed : files[f] = newest

\* A session that ended well and names its checkpoint left the record of
\* exactly the samples that checkpoint was trained on; and no checkpoint is
\* past the end of its plan, whatever the sessions were allowed.
RecordMatchesCheckpoint ==
  /\ \A f \in Managed : Whole(f) => files[f].step <= files[f].total
  /\ \A o \in Outputs :
       (/\ HasRecord(o)
        /\ record[o].status \in {"completed", "guard"} /\ record[o].last
        /\ Exists(Own(o)))
       => files[Own(o)].chain = record[o].chain

\* "Keep failed attempts": the record of a failure is replaced by nobody but
\* the session that is failing (run_full refuses the output of a failure).
FailedRecordKept ==
  [][\A o \in Outputs :
       Failed(o) /\ record'[o] # record[o] => pc = "failing"]_vars

\* A session that is left alone ends.
SessionEnds == pc # "idle" ~> pc = "idle"
=============================================================================
