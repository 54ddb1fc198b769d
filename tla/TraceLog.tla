------------------------------ MODULE TraceLog ------------------------------
(***************************************************************************)
(* The hash-chained execution trace of orchestrator/trace.py, on a disk    *)
(* whose unsynced writes a power loss may undo.                            *)
(*                                                                         *)
(* The bytes of trace.jsonl are abstracted to its newline-terminated lines *)
(* and the unterminated bytes after the last newline (the tail).  A line   *)
(* is a record or Junk (not a JSON object).  A hash is modelled as an      *)
(* injective function of what is hashed, so two hashes are equal exactly   *)
(* when the chains they close are.  Every operation runs under the module  *)
(* lock from its first statement to its last, so at most one is under way  *)
(* and pc is its position; a crash, and any OSError, may fall between two  *)
(* of its system calls.                                                    *)
(***************************************************************************)
EXTENDS Naturals, Sequences

CONSTANTS
  Payloads,            \* what callers record
  Junk,                \* a line that is not a JSON object
  NoTail,              \* the file ends with a newline, or is empty
  MaxRecords,          \* bound on the records ever kept in the file
  FsyncPersistsEntry,  \* fsync of a new file also persists its directory entry
  Damage               \* someone may edit the file behind the process

ASSUME ConstantsAssumption ==
  /\ MaxRecords \in Nat
  /\ FsyncPersistsEntry \in BOOLEAN
  /\ Damage \in BOOLEAN

VARIABLES
  file,       \* the file as the operating system shows it
  pers,       \* the files a power loss may leave in its place
  evidence,   \* torn tails that a quarantine file holds durably
  trace,      \* _TRACE
  loaded,     \* _LOADED_PATH = TRACE_PATH
  pc, kind,   \* position and kind of the operation holding _LOCK
  candidate,  \* local of _ensure_loaded
  stored,     \* local of append_record
  created,    \* local of append_record
  verdict,    \* what the last verify_chain() answered
  acked,      \* history: <<position, record>> of the acknowledged appends
  damaged     \* history: a line was edited from outside

locals == <<candidate, stored, created>>
vars == <<file, pers, evidence, trace, loaded, pc, kind, locals, verdict,
          acked, damaged>>

-----------------------------------------------------------------------------
(* Records, hashes and the chain.                                          *)

Hash == Seq(Payloads)
Genesis == <<>>
RecordHash(payload, prev) == Append(prev, payload)

Record == [payload : Payloads, prev_hash : Hash, record_hash : Hash]

Chained(payload, prev) ==
  [payload |-> payload, prev_hash |-> prev,
   record_hash |-> RecordHash(payload, prev)]

LastHash(chain) ==
  IF chain = <<>> THEN Genesis ELSE chain[Len(chain)].record_hash

ExpectedPrev(chain, i) ==
  IF i = 1 THEN Genesis ELSE chain[i - 1].record_hash

Linked(chain, i) ==
  /\ chain[i].prev_hash = ExpectedPrev(chain, i)
  /\ chain[i].record_hash =
       RecordHash(chain[i].payload, ExpectedPrev(chain, i))

Verified(chain) == \A i \in DOMAIN chain : Linked(chain, i)

-----------------------------------------------------------------------------
(* Files.                                                                  *)

ASSUME MarkersAssumption ==
  /\ Junk \notin Record
  /\ NoTail \notin [kind : {"torn", "full"}, line : Record \cup {Junk}]

Line == Record \cup {Junk}
TailBytes == [kind : {"torn"}, line : Line] \cup [kind : {"full"}, line : Record]
               \cup {NoTail}
File == [exists : BOOLEAN, lines : Seq(Line), tail : TailBytes]
NoFile == [exists |-> FALSE, lines |-> <<>>, tail |-> NoTail]

Torn(line) == [kind |-> "torn", line |-> line]
Full(line) == [kind |-> "full", line |-> line]
IsTorn(f) == f.tail # NoTail /\ f.tail.kind = "torn"
IsFull(f) == f.tail # NoTail /\ f.tail.kind = "full"

\* Appending the bytes of a record's line to f, stopped after the open (0),
\* inside the JSON text (1), before the newline (2) or not at all (3).  Bytes
\* written after an unterminated tail are glued to it: no JSON object.
Grown(f, rec, stage) ==
  LET line == IF f.tail = NoTail THEN rec ELSE Junk
      end  == IF f.tail = NoTail THEN Full(line) ELSE Torn(line)
  IN  [exists |-> TRUE,
       lines  |-> IF stage = 3 THEN Append(f.lines, line) ELSE f.lines,
       tail   |-> CASE stage = 0 -> f.tail
                    [] stage = 1 -> Torn(line)
                    [] stage = 2 -> end
                    [] stage = 3 -> NoTail]

Terminated(f) ==
  [exists |-> f.exists, lines |-> Append(f.lines, f.tail.line), tail |-> NoTail]

\* Mutant: good_length counts one line too few.
MutTruncated(f) ==
  [exists |-> f.exists, lines |-> SubSeq(f.lines, 1, Len(f.lines) - 1),
   tail |-> NoTail]

Truncated(f) == [exists |-> f.exists, lines |-> f.lines, tail |-> NoTail]

\* _parse_trace with tail repair: every complete line is an object, and a
\* complete object without its newline is the last record.
Parses(f) == \A i \in DOMAIN f.lines : f.lines[i] # Junk

\* Mutant: a complete record without its newline is not a record.
MutCandidate(f) == f.lines

Candidate(f) == IF IsFull(f) THEN Append(f.lines, f.tail.line) ELSE f.lines

Loadable(f) == Parses(f) /\ Verified(Candidate(f))

\* Mutant: the record is flushed but not fsynced.
MutAfterFsync == pers

\* fsync leaves one possible file, but need not persist a new directory entry.
AfterFsync ==
  {file} \cup (IF FsyncPersistsEntry THEN {} ELSE pers \cap {NoFile})

-----------------------------------------------------------------------------
Init ==
  /\ file = NoFile
  /\ pers = {NoFile}
  /\ evidence = {}
  /\ trace = <<>>
  /\ loaded = FALSE
  /\ pc = "idle" /\ kind = "records"
  /\ candidate = <<>> /\ stored = Junk /\ created = FALSE
  /\ verdict = "none"
  /\ acked = {}
  /\ damaged = FALSE

\* The operation leaves, by a return or an exception, and clears its locals.
Leave ==
  /\ pc' = "idle"
  /\ candidate' = <<>> /\ stored' = Junk /\ created' = FALSE

\* A caller enters append_record, records or verify_chain and takes _LOCK.
Begin(k) ==
  /\ pc = "idle"
  /\ k = "append" => Len(Candidate(file)) < MaxRecords
  /\ kind' = k
  /\ pc' = IF loaded THEN "run" ELSE "load"
  /\ verdict' = "none"
  /\ UNCHANGED <<file, pers, evidence, trace, loaded, locals, acked, damaged>>

-----------------------------------------------------------------------------
(* _ensure_loaded and _apply_tail_repair.                                  *)

\* The history needs no repair and becomes the memory of the process.
LoadClean ==
  /\ pc = "load"
  /\ Loadable(file) /\ file.tail = NoTail
  /\ trace' = Candidate(file)
  /\ loaded' = TRUE
  /\ pc' = "run"
  /\ UNCHANGED <<file, pers, evidence, kind, locals, verdict, acked, damaged>>

\* The history verifies and its tail needs a repair, which is planned here.
LoadRepair ==
  /\ pc = "load"
  /\ Loadable(file) /\ file.tail # NoTail
  /\ candidate' = Candidate(file)
  /\ pc' = IF IsFull(file) THEN "newline" ELSE "quarantine"
  /\ UNCHANGED <<file, pers, evidence, trace, loaded, kind, stored, created,
                 verdict, acked, damaged>>

\* TraceIntegrityError: a malformed line, or a chain that does not verify.
LoadRefused ==
  /\ pc = "load"
  /\ ~Loadable(file)
  /\ Leave
  /\ UNCHANGED <<file, pers, evidence, trace, loaded, kind, verdict, acked,
                 damaged>>

\* An OSError while reading or repairing becomes TraceIntegrityError; a
\* repair's write may have happened all the same.
LoadFails ==
  /\ pc \in {"load", "newline", "quarantine", "truncate", "repairsync"}
  /\ Leave
  /\ UNCHANGED <<file, pers, evidence, trace, loaded, kind, verdict, acked,
                 damaged>>

CompleteNewline ==
  /\ pc = "newline"
  /\ file' = Terminated(file)
  /\ pers' = pers \cup {Terminated(file)}
  /\ pc' = "repairsync"
  /\ UNCHANGED <<evidence, trace, loaded, kind, locals, verdict, acked,
                 damaged>>

\* Mutant: the tail is truncated without keeping its bytes.
MutQuarantineTail ==
  /\ pc = "quarantine"
  /\ pc' = "truncate"
  /\ UNCHANGED <<file, pers, evidence, trace, loaded, kind, locals, verdict,
                 acked, damaged>>

\* The torn bytes are written to a fresh file, synced with its directory.
QuarantineTail ==
  /\ pc = "quarantine"
  /\ evidence' = evidence \cup {file.tail}
  /\ pers' = pers \ {NoFile}
  /\ pc' = "truncate"
  /\ UNCHANGED <<file, trace, loaded, kind, locals, verdict, acked, damaged>>

TruncateTail ==
  /\ pc = "truncate"
  /\ file' = Truncated(file)
  /\ pers' = pers \cup {Truncated(file)}
  /\ pc' = "repairsync"
  /\ UNCHANGED <<evidence, trace, loaded, kind, locals, verdict, acked,
                 damaged>>

SyncRepair ==
  /\ pc = "repairsync"
  /\ pers' = AfterFsync
  /\ trace' = candidate
  /\ loaded' = TRUE
  /\ pc' = "run"
  /\ candidate' = <<>>
  /\ UNCHANGED <<file, evidence, kind, stored, created, verdict, acked,
                 damaged>>

-----------------------------------------------------------------------------
(* append_record.                                                          *)

\* The record is chained to the last one in memory and its line written; until
\* the fsync any prefix of the line may be what the disk holds.
AppendWrite(payload) ==
  LET rec == Chained(payload, LastHash(trace))
  IN  /\ pc = "run" /\ kind = "append"
      /\ file' = Grown(file, rec, 3)
      /\ pers' = pers \cup {Grown(file, rec, s) : s \in 0 .. 3}
      /\ stored' = rec
      /\ created' = ~file.exists
      /\ pc' = "fsync"
      /\ UNCHANGED <<evidence, trace, loaded, kind, candidate, verdict, acked,
                     damaged>>

\* The write stops somewhere with an exception; memory is no longer trusted.
AppendWriteFails(payload) ==
  LET rec == Chained(payload, LastHash(trace))
  IN  /\ pc = "run" /\ kind = "append"
      /\ \E stage \in 0 .. 3 :
           /\ file' = Grown(file, rec, stage)
           /\ pers' = pers \cup {Grown(file, rec, s) : s \in 0 .. stage}
      /\ loaded' = FALSE
      /\ Leave
      /\ UNCHANGED <<evidence, trace, kind, verdict, acked, damaged>>

\* The file cannot be opened: nothing is written, memory is dropped as well.
AppendOpenFails ==
  /\ pc = "run" /\ kind = "append"
  /\ loaded' = FALSE
  /\ Leave
  /\ UNCHANGED <<file, pers, evidence, trace, kind, verdict, acked, damaged>>

Acknowledge ==
  /\ trace' = Append(trace, stored)
  /\ acked' = acked \cup {<<Len(trace) + 1, stored>>}
  /\ Leave

\* fsync of an existing file, after which the append is acknowledged.
AppendFsync ==
  /\ pc = "fsync" /\ ~created
  /\ pers' = AfterFsync
  /\ Acknowledge
  /\ UNCHANGED <<file, evidence, loaded, kind, verdict, damaged>>

\* fsync of a file this append created: its directory is synced next.
AppendFsyncNew ==
  /\ pc = "fsync" /\ created
  /\ pers' = AfterFsync
  /\ pc' = "syncdir"
  /\ UNCHANGED <<file, evidence, trace, loaded, kind, locals, verdict, acked,
                 damaged>>

SyncDirectory ==
  /\ pc = "syncdir"
  /\ pers' = pers \ {NoFile}
  /\ Acknowledge
  /\ UNCHANGED <<file, evidence, loaded, kind, verdict, damaged>>

\* Mutant: a failed fsync leaves the memory trusted.
MutAppendFsyncFails ==
  /\ pc = "fsync"
  /\ Leave
  /\ UNCHANGED <<file, pers, evidence, trace, loaded, kind, verdict, acked,
                 damaged>>

\* fsync fails: the line is in the file, unacknowledged and maybe unsynced.
AppendFsyncFails ==
  /\ pc = "fsync"
  /\ loaded' = FALSE
  /\ Leave
  /\ UNCHANGED <<file, pers, evidence, trace, kind, verdict, acked, damaged>>

-----------------------------------------------------------------------------
(* records and verify_chain.                                               *)

ReturnRecords ==
  /\ pc = "run" /\ kind = "records"
  /\ Leave
  /\ UNCHANGED <<file, pers, evidence, trace, loaded, kind, verdict, acked,
                 damaged>>

\* Mutant: only the copy in memory is verified.
MutVerifyChain ==
  /\ pc = "run" /\ kind = "verify"
  /\ verdict' = IF Verified(trace) THEN "verified" ELSE "rejected"
  /\ Leave
  /\ UNCHANGED <<file, pers, evidence, trace, loaded, kind, acked, damaged>>

\* The file is read again, without repair, and compared with the memory.
VerifyChain ==
  /\ pc = "run" /\ kind = "verify"
  /\ verdict' = IF Loadable(file) /\ file.tail = NoTail /\ file.lines = trace
                THEN "verified" ELSE "rejected"
  /\ Leave
  /\ UNCHANGED <<file, pers, evidence, trace, loaded, kind, acked, damaged>>

VerifyUnreadable ==
  /\ pc = "run" /\ kind = "verify"
  /\ verdict' = "unreadable"
  /\ Leave
  /\ UNCHANGED <<file, pers, evidence, trace, loaded, kind, acked, damaged>>

-----------------------------------------------------------------------------
(* The environment.                                                        *)

Restart ==
  /\ trace' = <<>>
  /\ loaded' = FALSE
  /\ verdict' = "none"
  /\ Leave

\* The process dies; what it wrote stays in the page cache.
ProcessCrash ==
  /\ Restart
  /\ UNCHANGED <<file, pers, evidence, kind, acked, damaged>>

\* The machine dies; the disk holds one of the files it may hold.
PowerLoss ==
  /\ \E f \in pers : file' = f /\ pers' = {f}
  /\ Restart
  /\ UNCHANGED <<evidence, kind, acked, damaged>>

Alterations(line) ==
  {Junk} \cup {[line EXCEPT !.payload = p] : p \in Payloads \ {line.payload}}

\* Someone edits one line of the quiescent file.
Edit ==
  /\ Damage /\ ~damaged
  /\ pc = "idle" /\ pers = {file} /\ file.tail = NoTail
  /\ \E i \in DOMAIN file.lines :
       /\ file.lines[i] # Junk
       /\ \E line \in Alterations(file.lines[i]) :
            file' = [file EXCEPT !.lines = [@ EXCEPT ![i] = line]]
  /\ pers' = {file'}
  /\ damaged' = TRUE
  /\ UNCHANGED <<evidence, trace, loaded, pc, kind, locals, verdict, acked>>

Next ==
  \/ \E k \in {"append", "records", "verify"} : Begin(k)
  \/ LoadClean \/ LoadRepair \/ LoadRefused \/ LoadFails
  \/ CompleteNewline \/ QuarantineTail \/ TruncateTail \/ SyncRepair
  \/ \E p \in Payloads : AppendWrite(p) \/ AppendWriteFails(p)
  \/ AppendOpenFails
  \/ AppendFsync \/ AppendFsyncNew \/ SyncDirectory \/ AppendFsyncFails
  \/ ReturnRecords \/ VerifyChain \/ VerifyUnreadable
  \/ ProcessCrash \/ PowerLoss \/ Edit

Spec == Init /\ [][Next]_vars

-----------------------------------------------------------------------------
(* Correctness.                                                            *)

\* The state stays within the types of the code's variables and of the file.
TypeOK ==
  /\ file \in File /\ pers \subseteq File /\ evidence \subseteq TailBytes
  /\ trace \in Seq(Record) /\ candidate \in Seq(Record)
  /\ stored \in Line
  /\ loaded \in BOOLEAN /\ created \in BOOLEAN /\ damaged \in BOOLEAN
  /\ pc \in {"idle", "load", "newline", "quarantine", "truncate",
             "repairsync", "run", "fsync", "syncdir"}
  /\ kind \in {"append", "records", "verify"}
  /\ verdict \in {"none", "verified", "rejected", "unreadable"}
  /\ acked \subseteq (Nat \X Record)

Holds(chain, a) == a[1] \in DOMAIN chain /\ chain[a[1]] = a[2]

\* append_record returns only what no later crash, failed append or recovery
\* can take back: whatever a power loss leaves, every acknowledged record is
\* still a complete line, at the position and with the links it was given.
AckedSurvive ==
  ~damaged => \A f \in pers : \A a \in acked : Holds(f.lines, a)

\* No crash, failed write or failed repair leaves a file that _ensure_loaded
\* refuses: what a process writes, the next process can load and extend.  And
\* after an edit of any line every later load refuses the file, in this process
\* or in one that starts after a crash: the trace fails closed.
LoadableUnlessEdited == \A f \in pers : Loadable(f) <=> ~damaged

\* Between operations a trusted memory is exactly the file, so the next append
\* chains to the record that really is last on disk.
MemoryIsFile ==
  ~damaged /\ loaded /\ pc = "idle" => trace = file.lines /\ file.tail = NoTail

\* verify_chain answers that the history is broken or diverges only when a line
\* was edited, never because of a crash, a failed append or a repair; and after
\* an edit it never answers that the chain is verified.
VerdictIsRight ==
  [][verdict' # verdict =>
       /\ verdict' = "rejected" => damaged'
       /\ verdict' = "verified" => ~damaged]_vars

\* "Preserve the torn bytes durably before removing them from the log": once a
\* torn tail is on the disk for good, it leaves the log only when a quarantine
\* file holds it for good.
SurelyTorn(tail, files) == \A f \in files : f.tail = tail
EvidenceKept ==
  [][\A f \in pers :
       IsTorn(f) /\ SurelyTorn(f.tail, pers) /\ ~SurelyTorn(f.tail, pers')
         => f.tail \in evidence']_vars

\* Until somebody edits the file the trace implements the abstract log,
\* whatever crashes and fails.
Audit == INSTANCE AuditLog WITH Entry <- Record, log <- Candidate(file)
ImplementsAuditLog ==
  Audit!Init /\ [][Audit!Next \/ damaged']_<<Candidate(file), acked>>

=============================================================================
