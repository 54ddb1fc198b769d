--------------------------- MODULE TraceLogProofs ---------------------------
(***************************************************************************)
(* Proofs about TraceLog, for any payloads and any number of records.      *)
(***************************************************************************)
EXTENDS TraceLog, SequenceTheorems, TLAPS

\* The parts of a file, and the two kinds of tail, which exclude each other.
LEMMA TailTypes ==
  ASSUME NEW f \in File
  PROVE  /\ f.lines \in Seq(Line) /\ f.exists \in BOOLEAN /\ f.tail \in TailBytes
         /\ IsFull(f) => f.tail.line \in Record
         /\ IsFull(f) \/ IsTorn(f) \/ f.tail = NoTail
         /\ ~(IsFull(f) /\ IsTorn(f))
BY DEF File, TailBytes, IsFull, IsTorn

\* A file that does not exist is a file with no lines.
LEMMA NoFileType == NoFile \in File
BY DEF NoFile, File, TailBytes

\* Bytes appended to a file, stopped anywhere, leave a file.
LEMMA GrownType ==
  ASSUME NEW f \in File, NEW rec \in Record, NEW stage \in 0 .. 3
  PROVE  Grown(f, rec, stage) \in File
<1> DEFINE line == IF f.tail = NoTail THEN rec ELSE Junk
           end == IF f.tail = NoTail THEN Full(line) ELSE Torn(line)
<1>1. f.lines \in Seq(Line) /\ f.tail \in TailBytes
  BY TailTypes
<1>2. line \in Line /\ Torn(line) \in TailBytes /\ end \in TailBytes
  BY DEF Line, Torn, Full, TailBytes
<1>3. Append(f.lines, line) \in Seq(Line)
  BY <1>1, <1>2
<1>. QED  BY <1>1, <1>2, <1>3 DEF Grown, File, TailBytes

\* The newline written after a complete record leaves a file.
LEMMA TerminatedType ==
  ASSUME NEW f \in File, IsFull(f)
  PROVE  Terminated(f) \in File
<1>1. f.tail.line \in Line
  BY TailTypes DEF Line
<1>. QED  BY <1>1, TailTypes DEF Terminated, File, TailBytes

\* Cutting the tail leaves a file.
LEMMA TruncatedType ==
  ASSUME NEW f \in File
  PROVE  Truncated(f) \in File
BY DEF Truncated, File, TailBytes

\* A file that parses yields a history made of records only.
LEMMA CandidateType ==
  ASSUME NEW f \in File, Parses(f)
  PROVE  f.lines \in Seq(Record) /\ Candidate(f) \in Seq(Record)
<1>1. f.lines \in Seq(Line) /\ Len(f.lines) \in Nat
  BY TailTypes
<1>2. \A i \in 1 .. Len(f.lines) : f.lines[i] \in Record
  BY <1>1 DEF Parses, Line
<1>3. f.lines \in Seq(Record)
  BY <1>1, <1>2
<1>. QED  BY <1>3, TailTypes DEF Candidate

\* The record append_record builds is a record.
LEMMA ChainedType ==
  ASSUME NEW chain \in Seq(Record), NEW payload \in Payloads
  PROVE  Chained(payload, LastHash(chain)) \in Record
<1>1. LastHash(chain) \in Hash
  <2>1. CASE chain = <<>>
    BY <2>1 DEF LastHash, Genesis, Hash
  <2>2. CASE chain # <<>>
    <3>1. chain[Len(chain)] \in Record
      BY <2>2
    <3>. QED  BY <2>2, <3>1 DEF LastHash, Record
  <2>. QED  BY <2>1, <2>2
<1>. QED  BY <1>1 DEF Chained, RecordHash, Hash, Record

-----------------------------------------------------------------------------
(* Type correctness.                                                       *)

\* What an operation that leaves does to the variables it clears.
LEMMA LeaveType ==
  ASSUME Leave
  PROVE  /\ pc' = "idle" /\ candidate' \in Seq(Record)
         /\ stored' \in Line /\ created' \in BOOLEAN
<1>1. <<>> \in Seq(Record) /\ Junk \in Line
  BY DEF Line
<1>. QED  BY <1>1 DEF Leave

\* An edit of one line leaves a file.
LEMMA AlteredType ==
  ASSUME TypeOK, Edit
  PROVE  file' \in File
<1>1. PICK i \in DOMAIN file.lines :
        /\ file.lines[i] # Junk
        /\ \E line \in Alterations(file.lines[i]) :
             file' = [file EXCEPT !.lines = [@ EXCEPT ![i] = line]]
  BY DEF Edit
<1>2. PICK line \in Alterations(file.lines[i]) :
        file' = [file EXCEPT !.lines = [@ EXCEPT ![i] = line]]
  BY <1>1
<1>3. file \in File /\ file.lines \in Seq(Line)
  BY TailTypes DEF TypeOK
<1>4. file.lines[i] \in Record
  BY <1>1, <1>3 DEF Line
<1>5. line \in Line
  BY <1>4 DEF Alterations, Line, Record
<1>6. [file.lines EXCEPT ![i] = line] \in Seq(Line)
  BY <1>3, <1>5
<1>. QED  BY <1>2, <1>3, <1>6 DEF File

\* What the typing of a step needs besides the types.
TypeInv ==
  /\ TypeOK
  /\ pc = "newline" => IsFull(file)
  /\ pc \in {"fsync", "syncdir"} => stored \in Record

\* The process starts in a state of the right types.
LEMMA TypeInit == Init => TypeInv
<1>1. <<>> \in Seq(Record) /\ Junk \in Line
  BY DEF Line
<1>. QED  BY <1>1, NoFileType DEF Init, TypeOK, TypeInv

\* Every step keeps the types and the locals its position needs.
LEMMA TypeStep == TypeInv /\ [Next]_vars => TypeInv'
<1> SUFFICES ASSUME TypeInv, [Next]_vars PROVE TypeInv'
  OBVIOUS
<1> USE DEF TypeOK, TypeInv, locals
<1>1. ASSUME NEW k \in {"append", "records", "verify"}, Begin(k) PROVE TypeInv'
  BY <1>1 DEF Begin
<1>2. CASE LoadClean
  <2>1. Candidate(file) \in Seq(Record)
    BY <1>2, CandidateType DEF LoadClean, Loadable
  <2>. QED  BY <1>2, <2>1 DEF LoadClean
<1>3. CASE LoadRepair
  <2>1. Candidate(file) \in Seq(Record)
    BY <1>3, CandidateType DEF LoadRepair, Loadable
  <2>. QED  BY <1>3, <2>1 DEF LoadRepair
<1>4. CASE LoadRefused
  BY <1>4, LeaveType DEF LoadRefused
<1>5. CASE LoadFails
  BY <1>5, LeaveType DEF LoadFails
<1>6. CASE CompleteNewline
  <2>1. IsFull(file) => Terminated(file) \in File
    BY TerminatedType
  <2>. QED  BY <1>6, <2>1 DEF CompleteNewline
<1>7. CASE QuarantineTail
  BY <1>7, TailTypes DEF QuarantineTail
<1>8. CASE TruncateTail
  BY <1>8, TruncatedType DEF TruncateTail
<1>9. CASE SyncRepair
  BY <1>9 DEF SyncRepair, AfterFsync
<1>10. ASSUME NEW p \in Payloads, AppendWrite(p) PROVE TypeInv'
  <2> DEFINE rec == Chained(p, LastHash(trace))
  <2>1. rec \in Record
    BY ChainedType
  <2>2. \A s \in 0 .. 3 : Grown(file, rec, s) \in File
    BY <2>1, GrownType
  <2>3. file.exists \in BOOLEAN
    BY TailTypes
  <2>. QED  BY <1>10, <2>1, <2>2, <2>3 DEF AppendWrite, Line
<1>11. ASSUME NEW p \in Payloads, AppendWriteFails(p) PROVE TypeInv'
  <2> DEFINE rec == Chained(p, LastHash(trace))
  <2>1. \A s \in 0 .. 3 : Grown(file, rec, s) \in File
    BY ChainedType, GrownType
  <2>2. PICK stage \in 0 .. 3 :
          /\ file' = Grown(file, rec, stage)
          /\ pers' = pers \cup {Grown(file, rec, s) : s \in 0 .. stage}
    BY <1>11 DEF AppendWriteFails
  <2>3. file' \in File /\ pers' \subseteq File
    BY <2>1, <2>2
  <2>. QED  BY <1>11, <2>3, LeaveType DEF AppendWriteFails
<1>12. CASE AppendOpenFails
  BY <1>12, LeaveType DEF AppendOpenFails
<1>13. ASSUME Acknowledge, stored \in Record
       PROVE  /\ trace' \in Seq(Record) /\ acked' \subseteq Nat \X Record
              /\ pc' = "idle" /\ candidate' \in Seq(Record)
              /\ stored' \in Line /\ created' \in BOOLEAN
  BY <1>13, LeaveType DEF Acknowledge
<1>14. CASE AppendFsync
  BY <1>13, <1>14 DEF AppendFsync, AfterFsync
<1>15. CASE AppendFsyncNew
  BY <1>15 DEF AppendFsyncNew, AfterFsync
<1>16. CASE SyncDirectory
  BY <1>13, <1>16 DEF SyncDirectory
<1>17. CASE AppendFsyncFails
  BY <1>17, LeaveType DEF AppendFsyncFails
<1>18. CASE ReturnRecords
  BY <1>18, LeaveType DEF ReturnRecords
<1>19. CASE VerifyChain
  BY <1>19, LeaveType DEF VerifyChain
<1>20. CASE VerifyUnreadable
  BY <1>20, LeaveType DEF VerifyUnreadable
<1>21. Restart => trace' \in Seq(Record)
  BY DEF Restart
<1>22. CASE ProcessCrash
  BY <1>21, <1>22, LeaveType DEF ProcessCrash, Restart
<1>23. CASE PowerLoss
  BY <1>21, <1>23, LeaveType DEF PowerLoss, Restart
<1>24. CASE Edit
  <2>1. file' \in File
    BY <1>24, AlteredType
  <2>. QED  BY <1>24, <2>1 DEF Edit
<1>25. CASE UNCHANGED vars
  BY <1>25 DEF vars, IsFull
<1>. QED
  BY <1>1, <1>2, <1>3, <1>4, <1>5, <1>6, <1>7, <1>8, <1>9, <1>10, <1>11,
     <1>12, <1>14, <1>15, <1>16, <1>17, <1>18, <1>19, <1>20, <1>22, <1>23,
     <1>24, <1>25 DEF Next

\* Every variable of the trace keeps its type.
THEOREM TypeCorrect == Spec => []TypeOK
<1>1. Spec => []TypeInv
  BY TypeInit, TypeStep, PTL DEF Spec
<1>2. TypeInv => TypeOK
  BY DEF TypeInv
<1>. QED  BY <1>1, <1>2, PTL

-----------------------------------------------------------------------------
(* Lemmas about chains and files.                                          *)

Prefix(s, t) ==
  /\ Len(s) <= Len(t)
  /\ \A i \in 1 .. Len(s) : s[i] = t[i]

\* A record chained to the last one extends a verified chain to a verified one.
LEMMA VerifiedExtends ==
  ASSUME NEW chain \in Seq(Record), Verified(chain), NEW p \in Payloads
  PROVE  Verified(Append(chain, Chained(p, LastHash(chain))))
<1> DEFINE rec == Chained(p, LastHash(chain))
           longer == Append(chain, rec)
<1>1. rec \in Record
  BY ChainedType
<1>2. /\ Len(longer) = Len(chain) + 1 /\ DOMAIN longer = 1 .. Len(chain) + 1
      /\ longer[Len(chain) + 1] = rec /\ Len(chain) \in Nat
      /\ \A i \in 1 .. Len(chain) : longer[i] = chain[i]
  BY <1>1
<1>3. ASSUME NEW i \in 1 .. Len(chain) PROVE Linked(longer, i)
  <2>1. Linked(chain, i)
    BY DEF Verified
  <2>2. ExpectedPrev(longer, i) = ExpectedPrev(chain, i)
    BY <1>2 DEF ExpectedPrev
  <2>. QED  BY <1>2, <2>1, <2>2 DEF Linked
<1>4. Linked(longer, Len(chain) + 1)
  <2>1. ExpectedPrev(longer, Len(chain) + 1) = LastHash(chain)
    BY <1>2 DEF ExpectedPrev, LastHash
  <2>2. /\ rec.payload = p /\ rec.prev_hash = LastHash(chain)
        /\ rec.record_hash = RecordHash(p, LastHash(chain))
    BY DEF Chained
  <2>. QED  BY <1>2, <2>1, <2>2 DEF Linked
<1>. QED  BY <1>2, <1>3, <1>4 DEF Verified

\* Whatever part of its line a write leaves behind a terminated, loadable file,
\* the file stays loadable and its history is the old one or one record longer.
LEMMA GrownLoadable ==
  ASSUME NEW f \in File, f.tail = NoTail, Loadable(f),
         NEW p \in Payloads, NEW s \in 0 .. 3
  PROVE  LET rec == Chained(p, LastHash(f.lines))
             g == Grown(f, rec, s)
         IN  /\ Loadable(g)
             /\ Candidate(g) \in {f.lines, Append(f.lines, rec)}
             /\ g.lines \in {f.lines, Append(f.lines, rec)}
             /\ s = 3 => g.lines = Append(f.lines, rec) /\ g.tail = NoTail
<1> DEFINE rec == Chained(p, LastHash(f.lines))
           g == Grown(f, rec, s)
<1>1. f.lines \in Seq(Record) /\ Candidate(f) = f.lines
  BY CandidateType DEF Loadable, Candidate, IsFull
<1>2. rec \in Record /\ rec # Junk
  BY <1>1, ChainedType, MarkersAssumption
<1>3. Verified(f.lines) /\ Verified(Append(f.lines, rec))
  BY <1>1, VerifiedExtends DEF Loadable
<1>4. \A i \in DOMAIN Append(f.lines, rec) : Append(f.lines, rec)[i] # Junk
  BY <1>1, <1>2, MarkersAssumption
<1>5. Torn(rec) # NoTail /\ Full(rec) # NoTail
  BY <1>2, MarkersAssumption DEF Torn, Full
<1>6. CASE s = 0
  BY <1>1, <1>3, <1>6 DEF Grown, Loadable, Parses, Candidate, IsFull
<1>7. CASE s = 1
  BY <1>1, <1>3, <1>7 DEF Grown, Loadable, Parses, Candidate, IsFull, Torn
<1>8. CASE s = 2
  BY <1>1, <1>3, <1>5, <1>8 DEF Grown, Loadable, Parses, Candidate, IsFull, Full
<1>9. CASE s = 3
  BY <1>1, <1>3, <1>4, <1>9 DEF Grown, Loadable, Parses, Candidate, IsFull
<1>. QED  BY <1>6, <1>7, <1>8, <1>9

\* The two repairs keep the history that the load has verified.
LEMMA TerminatedLoadable ==
  ASSUME NEW f \in File, IsFull(f), Loadable(f)
  PROVE  /\ Loadable(Terminated(f)) /\ Candidate(Terminated(f)) = Candidate(f)
         /\ Terminated(f).lines = Candidate(f) /\ Terminated(f).tail = NoTail
<1>1. f.lines \in Seq(Record) /\ f.tail.line \in Record
  BY CandidateType, TailTypes DEF Loadable
<1>2. \A i \in DOMAIN Append(f.lines, f.tail.line) :
        Append(f.lines, f.tail.line)[i] # Junk
  BY <1>1, MarkersAssumption
<1>. QED
  BY <1>1, <1>2 DEF Terminated, Candidate, Loadable, Parses, IsFull

\* Cutting a torn tail keeps the history the file stands for.
LEMMA TruncatedLoadable ==
  ASSUME NEW f \in File, IsTorn(f), Loadable(f)
  PROVE  /\ Loadable(Truncated(f)) /\ Candidate(Truncated(f)) = Candidate(f)
         /\ Truncated(f).lines = Candidate(f) /\ Truncated(f).tail = NoTail
BY TailTypes DEF Truncated, Candidate, Loadable, Parses, IsFull, IsTorn

-----------------------------------------------------------------------------
(* The inductive invariant: until someone edits the file, every file a     *)
(* power loss may leave is loadable, carries a prefix of the history the   *)
(* file shows and holds what was acknowledged; and the memory, or the      *)
(* local copy of the load in progress, is that history.                    *)

Survivors ==
  \A f \in pers :
    /\ Loadable(f)
    /\ Prefix(Candidate(f), Candidate(file))
    /\ FsyncPersistsEntry => \A a \in acked : Holds(f.lines, a)

Position ==
  /\ loaded /\ pc \in {"idle", "run"} => trace = file.lines /\ file.tail = NoTail
  /\ pc \in {"run", "fsync", "syncdir"} => loaded
  /\ pc \in {"load", "newline", "quarantine", "truncate", "repairsync"} => ~loaded
  /\ pc \in {"newline", "quarantine", "truncate", "repairsync"}
       => candidate = Candidate(file)
  /\ pc = "newline" => IsFull(file)
  /\ pc \in {"quarantine", "truncate"} => IsTorn(file)
  /\ pc = "repairsync" => file.tail = NoTail
  /\ pc \in {"fsync", "syncdir"} =>
       file.lines = Append(trace, stored) /\ file.tail = NoTail
  /\ pc = "syncdir" /\ FsyncPersistsEntry => pers = {file}

IInv ==
  /\ TypeInv
  /\ verdict = "rejected" => damaged
  /\ ~damaged => file \in pers /\ Survivors /\ Position

\* A history is a prefix of itself.
LEMMA PrefixItself ==
  ASSUME NEW s \in Seq(Record)
  PROVE  Prefix(s, s)
BY DEF Prefix

\* A prefix stays one when the history grows.
LEMMA PrefixExtended ==
  ASSUME NEW s \in Seq(Record), NEW t \in Seq(Record), NEW r \in Record,
         Prefix(s, t)
  PROVE  Prefix(s, Append(t, r))
BY DEF Prefix

\* An entry held by a chain is held by every extension of it.
LEMMA HoldsExtended ==
  ASSUME NEW s \in Seq(Record), NEW r \in Record, NEW a, Holds(s, a)
  PROVE  Holds(Append(s, r), a)
BY DEF Holds

\* Forgetting possible files, while the file stays, keeps Survivors.
LEMMA SurvivorsShrink ==
  ASSUME Survivors, file' = file, pers' \subseteq pers, acked' = acked
  PROVE  Survivors'
BY DEF Survivors, Candidate, IsFull, Loadable, Parses, Verified, Linked,
       ExpectedPrev, Holds, Prefix

\* A repair makes one more file possible, with the same history.
LEMMA SurvivorsRepair ==
  ASSUME TypeInv, file \in pers, Survivors, NEW g \in File,
         file' = g, pers' = pers \cup {g}, acked' = acked,
         Loadable(g), Candidate(g) = Candidate(file), g.lines = Candidate(file)
  PROVE  Survivors'
<1>1. file \in File /\ Parses(file)
  BY DEF TypeInv, TypeOK, Survivors, Loadable
<1>2. Candidate(file) \in Seq(Record) /\ file.lines \in Seq(Record)
  BY <1>1, CandidateType
<1>3. ASSUME NEW a, Holds(file.lines, a) PROVE Holds(Candidate(file), a)
  BY <1>1, <1>2, <1>3, HoldsExtended, TailTypes DEF Candidate
<1>4. Prefix(Candidate(g), Candidate(g))
  BY <1>2, PrefixItself
<1>5. ASSUME NEW f \in pers
      PROVE  /\ Loadable(f) /\ Prefix(Candidate(f), Candidate(g))
             /\ FsyncPersistsEntry => \A a \in acked : Holds(f.lines, a)
  BY DEF Survivors
<1>6. FsyncPersistsEntry => \A a \in acked : Holds(g.lines, a)
  BY <1>3 DEF Survivors
<1>7. \A f \in pers \cup {g} :
        /\ Loadable(f) /\ Prefix(Candidate(f), Candidate(g))
        /\ FsyncPersistsEntry => \A a \in acked : Holds(f.lines, a)
  BY <1>4, <1>5, <1>6
<1>. QED  BY <1>7 DEF Survivors

\* A write, complete or not, makes its prefixes possible.
LEMMA SurvivorsWrite ==
  ASSUME TypeInv, file \in pers, Survivors,
         trace = file.lines, file.tail = NoTail,
         NEW p \in Payloads, NEW stage \in 0 .. 3,
         file' = Grown(file, Chained(p, LastHash(trace)), stage),
         pers' = pers \cup {Grown(file, Chained(p, LastHash(trace)), s) :
                             s \in 0 .. stage},
         acked' = acked
  PROVE  Survivors'
<1> DEFINE rec == Chained(p, LastHash(file.lines))
           H == file.lines
           G(s) == Grown(file, rec, s)
<1>1. file \in File /\ Loadable(file) /\ H \in Seq(Record) /\ Candidate(file) = H
  BY CandidateType DEF TypeInv, TypeOK, Survivors, Loadable, Candidate, IsFull
<1>2. rec \in Record
  BY <1>1, ChainedType
<1>3. \A s \in 0 .. 3 :
        /\ Loadable(G(s)) /\ Candidate(G(s)) \in {H, Append(H, rec)}
        /\ G(s).lines \in {H, Append(H, rec)}
  BY <1>1, GrownLoadable
<1>4. Candidate(G(stage)) = H => \A s \in 0 .. stage : Candidate(G(s)) = H
  <2>1. Candidate(G(0)) = H /\ Candidate(G(1)) = H
    BY DEF Grown, Candidate, IsFull, Torn
  <2>2. CASE stage \in {0, 1}
    BY <2>1, <2>2
  <2>3. CASE stage \in {2, 3}
    <3>1. Full(rec) # NoTail
      BY <1>2, MarkersAssumption DEF Full
    <3>2. Candidate(G(stage)) = Append(H, rec)
      BY <2>3, <3>1 DEF Grown, Candidate, IsFull, Full
    <3>3. Len(Append(H, rec)) # Len(H)
      BY <1>1, <1>2
    <3>. QED  BY <3>2, <3>3
  <2>. QED  BY <2>2, <2>3
<1>5. \A f \in pers : Prefix(Candidate(f), H) /\ Loadable(f)
  BY <1>1 DEF Survivors
<1>6. \A f \in pers : Candidate(f) \in Seq(Record)
  BY <1>5, CandidateType DEF TypeInv, TypeOK, Loadable
<1>7. ASSUME NEW s \in 0 .. stage PROVE Prefix(Candidate(G(s)), Candidate(G(stage)))
  <2>1. Append(H, rec) \in Seq(Record)
    BY <1>1, <1>2
  <2>2. Prefix(H, H) /\ Prefix(Append(H, rec), Append(H, rec))
    BY <1>1, <2>1, PrefixItself
  <2>3. Prefix(H, Append(H, rec))
    BY <1>1, <1>2, <2>2, PrefixExtended
  <2>4. s \in 0 .. 3
    OBVIOUS
  <2>5. /\ Candidate(G(s)) \in {H, Append(H, rec)}
        /\ Candidate(G(stage)) \in {H, Append(H, rec)}
    BY <1>3, <2>4
  <2>. QED  BY <1>4, <2>2, <2>3, <2>5
<1>8. ASSUME NEW f \in pers PROVE Prefix(Candidate(f), Candidate(G(stage)))
  BY <1>1, <1>2, <1>3, <1>5, <1>6, PrefixExtended
<1>9. ASSUME FsyncPersistsEntry, NEW a \in acked, NEW s \in 0 .. stage
      PROVE  Holds(G(s).lines, a)
  <2>1. Holds(H, a)
    BY <1>9 DEF Survivors
  <2>2. Holds(Append(H, rec), a)
    BY <1>1, <1>2, <2>1, HoldsExtended
  <2>3. G(s).lines \in {H, Append(H, rec)}
    BY <1>3, SMTT(20)
  <2>. QED  BY <2>1, <2>2, <2>3
<1>10. \A f \in pers \cup {G(s) : s \in 0 .. stage} :
         /\ Loadable(f) /\ Prefix(Candidate(f), Candidate(G(stage)))
         /\ FsyncPersistsEntry => \A a \in acked : Holds(f.lines, a)
  BY <1>3, <1>5, <1>7, <1>8, <1>9 DEF Survivors
<1>. QED  BY <1>10 DEF Survivors

\* An append is acknowledged when one file is possible, and it ends with the
\* record acknowledged.
LEMMA SurvivorsAcknowledge ==
  ASSUME TypeInv, Survivors, trace \in Seq(Record), stored \in Record,
         file.lines = Append(trace, stored), file' = file,
         pers' \subseteq pers, FsyncPersistsEntry => pers' \subseteq {file},
         acked' = acked \cup {<<Len(trace) + 1, stored>>}
  PROVE  Survivors'
<1> DEFINE a0 == <<Len(trace) + 1, stored>>
<1>1. Holds(file.lines, a0)
  BY DEF Holds
<1>2. \A f \in pers' : Loadable(f) /\ Prefix(Candidate(f), Candidate(file))
  BY DEF Survivors
<1>3. ASSUME FsyncPersistsEntry, NEW f \in pers', NEW a \in acked'
      PROVE  Holds(f.lines, a)
  <2>1. f = file /\ f \in pers
    BY <1>3
  <2>2. CASE a \in acked
    BY <1>3, <2>1, <2>2 DEF Survivors
  <2>3. CASE a = a0
    BY <1>1, <2>1, <2>3
  <2>. QED  BY <2>2, <2>3
<1>4. \A f \in pers' :
        /\ Loadable(f) /\ Prefix(Candidate(f), Candidate(file'))
        /\ FsyncPersistsEntry => \A a \in acked' : Holds(f.lines, a)
  BY <1>2, <1>3
<1>. QED  BY <1>4 DEF Survivors

\* The empty log satisfies the inductive invariant.
LEMMA SafetyInit == Init => IInv
<1> SUFFICES ASSUME Init PROVE IInv
  OBVIOUS
<1>1. Candidate(NoFile) = <<>> /\ Loadable(NoFile)
  BY DEF NoFile, Candidate, IsFull, Loadable, Parses, Verified
<1>2. Prefix(<<>>, <<>>)
  BY DEF Prefix
<1>3. Survivors
  BY <1>1, <1>2 DEF Init, Survivors
<1>4. Position
  BY DEF Init, Position
<1>. QED  BY <1>3, <1>4, TypeInit DEF Init, IInv

\* Every step of every operation, failure and crash keeps the inductive invariant.
LEMMA SafetyStep == IInv /\ [Next]_vars => IInv'
<1> SUFFICES ASSUME IInv, [Next]_vars, TypeInv', ~damaged'
             PROVE  /\ verdict' # "rejected"
                    /\ file' \in pers' /\ Survivors' /\ Position'
  BY TypeStep DEF IInv
<1>1. ~damaged
  BY DEF Next, Begin, LoadClean, LoadRepair, LoadRefused, LoadFails,
     CompleteNewline, QuarantineTail, TruncateTail, SyncRepair, AppendWrite,
     AppendWriteFails, AppendOpenFails, AppendFsync, AppendFsyncNew,
     SyncDirectory, AppendFsyncFails, ReturnRecords, VerifyChain,
     VerifyUnreadable, ProcessCrash, PowerLoss, Edit, vars
<1>2. TypeInv /\ TypeOK /\ file \in pers /\ Survivors /\ Position
      /\ verdict # "rejected" /\ file \in File
  BY <1>1 DEF IInv, TypeInv, TypeOK
<1>3. Loadable(file) /\ Candidate(file) \in Seq(Record) /\ file.lines \in Seq(Record)
  BY <1>2, CandidateType DEF Survivors, Loadable
<1>4. file.tail = NoTail => Candidate(file) = file.lines
  BY DEF Candidate, IsFull
<1>5. AfterFsync \subseteq pers /\ file \in AfterFsync
  BY <1>2 DEF AfterFsync
<1>6. file.tail # NoTail => file # NoFile
  BY DEF NoFile
<1> USE DEF locals
<1>7. ASSUME NEW k \in {"append", "records", "verify"}, Begin(k)
      PROVE  /\ verdict' # "rejected"
             /\ file' \in pers' /\ Survivors' /\ Position'
  <2>1. Survivors'
    BY <1>2, <1>7, SurvivorsShrink DEF Begin
  <2>. QED  BY <1>2, <1>7, <2>1 DEF Begin, Position
<1>8. CASE LoadClean
  <2>1. Survivors'
    BY <1>2, <1>8, SurvivorsShrink DEF LoadClean
  <2>. QED  BY <1>2, <1>4, <1>8, <2>1 DEF LoadClean, Position
<1>9. CASE LoadRepair
  <2>1. Survivors'
    BY <1>2, <1>9, SurvivorsShrink DEF LoadRepair
  <2>2. IsFull(file) \/ IsTorn(file)
    BY <1>2, <1>9, TailTypes DEF LoadRepair
  <2>3. (IsFull(file))' = IsFull(file) /\ (IsTorn(file))' = IsTorn(file)
        /\ Candidate(file)' = Candidate(file)
    BY <1>9 DEF LoadRepair, IsFull, IsTorn, Candidate
  <2>. QED  BY <1>2, <1>9, <2>1, <2>2, <2>3 DEF LoadRepair, Position
<1>10. ASSUME Leave, UNCHANGED <<file, pers, acked, trace>>,
              verdict' # "rejected", loaded' => loaded /\ pc = "run"
       PROVE  /\ verdict' # "rejected"
              /\ file' \in pers' /\ Survivors' /\ Position'
  <2>1. Survivors'
    BY <1>2, <1>10, SurvivorsShrink
  <2>2. Position'
    BY <1>2, <1>10 DEF Leave, Position
  <2>. QED  BY <1>2, <1>10, <2>1, <2>2
<1>11. CASE LoadRefused
  BY <1>2, <1>3, <1>11 DEF LoadRefused
<1>12. CASE LoadFails
  BY <1>2, <1>10, <1>12 DEF LoadFails, Position
<1>13. CASE CompleteNewline
  <2> DEFINE g == Terminated(file)
  <2>1. IsFull(file) /\ candidate = Candidate(file)
    BY <1>2, <1>13 DEF CompleteNewline, Position
  <2>2. /\ g \in File /\ Loadable(g) /\ Candidate(g) = Candidate(file)
        /\ g.lines = Candidate(file) /\ g.tail = NoTail
    BY <1>2, <1>3, <2>1, TerminatedType, TerminatedLoadable
  <2>3. Survivors'
    BY <1>2, <1>13, <2>2, SurvivorsRepair DEF CompleteNewline
  <2>4. Candidate(file)' = Candidate(file) /\ file'.tail = NoTail
    BY <1>13, <2>2 DEF CompleteNewline, Candidate, IsFull
  <2>. QED  BY <1>2, <1>13, <2>1, <2>3, <2>4 DEF CompleteNewline, Position
<1>14. CASE TruncateTail
  <2> DEFINE g == Truncated(file)
  <2>1. IsTorn(file) /\ candidate = Candidate(file)
    BY <1>2, <1>14 DEF TruncateTail, Position
  <2>2. /\ g \in File /\ Loadable(g) /\ Candidate(g) = Candidate(file)
        /\ g.lines = Candidate(file) /\ g.tail = NoTail
    BY <1>2, <1>3, <2>1, TruncatedType, TruncatedLoadable
  <2>3. Survivors'
    BY <1>2, <1>14, <2>2, SurvivorsRepair DEF TruncateTail
  <2>4. Candidate(file)' = Candidate(file) /\ file'.tail = NoTail
    BY <1>14, <2>2 DEF TruncateTail, Candidate, IsFull
  <2>. QED  BY <1>2, <1>14, <2>1, <2>3, <2>4 DEF TruncateTail, Position
<1>15. CASE QuarantineTail
  <2>1. Survivors'
    BY <1>2, <1>15, SurvivorsShrink DEF QuarantineTail
  <2>2. IsTorn(file) /\ file \in pers'
    BY <1>2, <1>6, <1>15 DEF QuarantineTail, Position, IsTorn
  <2>3. (IsTorn(file))' = IsTorn(file) /\ Candidate(file)' = Candidate(file)
    BY <1>15 DEF QuarantineTail, IsTorn, IsFull, Candidate
  <2>. QED  BY <1>2, <1>15, <2>1, <2>2, <2>3 DEF QuarantineTail, Position
<1>16. CASE SyncRepair
  <2>1. Survivors'
    BY <1>2, <1>5, <1>16, SurvivorsShrink DEF SyncRepair
  <2>. QED  BY <1>2, <1>4, <1>5, <1>16, <2>1 DEF SyncRepair, Position
<1>17. ASSUME pc = "run" PROVE trace = file.lines /\ file.tail = NoTail /\ loaded
  BY <1>2, <1>17 DEF Position
<1>18. ASSUME NEW p \in Payloads, AppendWrite(p)
       PROVE  /\ verdict' # "rejected"
              /\ file' \in pers' /\ Survivors' /\ Position'
  <2> DEFINE rec == Chained(p, LastHash(trace))
  <2>1. pc = "run" /\ trace = file.lines /\ file.tail = NoTail
    BY <1>17, <1>18 DEF AppendWrite
  <2>2. Survivors'
    BY <1>2, <1>18, <2>1, SurvivorsWrite DEF AppendWrite
  <2>3. file'.lines = Append(trace, rec) /\ file'.tail = NoTail
    BY <1>2, <1>3, <1>18, <2>1, GrownLoadable DEF AppendWrite
  <2>. QED  BY <1>2, <1>17, <1>18, <2>2, <2>3 DEF AppendWrite, Position
<1>19. ASSUME NEW p \in Payloads, AppendWriteFails(p)
       PROVE  /\ verdict' # "rejected"
              /\ file' \in pers' /\ Survivors' /\ Position'
  <2> DEFINE rec == Chained(p, LastHash(trace))
  <2>1. pc = "run" /\ trace = file.lines /\ file.tail = NoTail
    BY <1>17, <1>19 DEF AppendWriteFails
  <2>2. PICK stage \in 0 .. 3 :
          /\ file' = Grown(file, rec, stage)
          /\ pers' = pers \cup {Grown(file, rec, s) : s \in 0 .. stage}
    BY <1>19 DEF AppendWriteFails
  <2>3. Survivors'
    BY <1>2, <1>19, <2>1, <2>2, SurvivorsWrite DEF AppendWriteFails
  <2>4. file' \in pers'
    BY <2>2
  <2>. QED  BY <1>2, <1>19, <2>3, <2>4 DEF AppendWriteFails, Leave, Position
<1>20. CASE AppendOpenFails
  BY <1>2, <1>10, <1>20 DEF AppendOpenFails
<1>21. ASSUME pc \in {"fsync", "syncdir"}
       PROVE  /\ stored \in Record /\ trace \in Seq(Record) /\ loaded
              /\ file.lines = Append(trace, stored) /\ file.tail = NoTail
              /\ file # NoFile
  <2>1. stored \in Record /\ trace \in Seq(Record)
    BY <1>2, <1>21 DEF TypeInv, TypeOK
  <2>2. file.lines = Append(trace, stored) /\ file.tail = NoTail /\ loaded
    BY <1>2, <1>21 DEF Position
  <2>3. Len(Append(trace, stored)) # Len(<<>>)
    BY <2>1
  <2>. QED  BY <2>1, <2>2, <2>3 DEF NoFile
<1>22. CASE AppendFsync
  <2>1. /\ stored \in Record /\ trace \in Seq(Record) /\ file.tail = NoTail
        /\ file.lines = Append(trace, stored)
    BY <1>21, <1>22 DEF AppendFsync
  <2>2. FsyncPersistsEntry => AfterFsync \subseteq {file}
    BY DEF AfterFsync
  <2>3. Survivors'
    BY <1>2, <1>5, <1>22, <2>1, <2>2, SurvivorsAcknowledge
    DEF AppendFsync, Acknowledge
  <2>. QED
    BY <1>2, <1>5, <1>22, <2>1, <2>3
    DEF AppendFsync, Acknowledge, Leave, Position
<1>23. CASE AppendFsyncNew
  <2>1. Survivors'
    BY <1>2, <1>5, <1>23, SurvivorsShrink DEF AppendFsyncNew
  <2>2. FsyncPersistsEntry => pers' = {file}
    BY <1>23 DEF AppendFsyncNew, AfterFsync
  <2>. QED  BY <1>2, <1>5, <1>21, <1>23, <2>1, <2>2 DEF AppendFsyncNew, Position
<1>24. CASE SyncDirectory
  <2>1. /\ stored \in Record /\ trace \in Seq(Record) /\ file.tail = NoTail
        /\ file.lines = Append(trace, stored) /\ file # NoFile
    BY <1>21, <1>24 DEF SyncDirectory
  <2>2. FsyncPersistsEntry => pers' \subseteq {file}
    BY <1>2, <1>24 DEF SyncDirectory, Position
  <2>3. Survivors'
    BY <1>2, <1>24, <2>1, <2>2, SurvivorsAcknowledge
    DEF SyncDirectory, Acknowledge
  <2>. QED
    BY <1>2, <1>24, <2>1, <2>3 DEF SyncDirectory, Acknowledge, Leave, Position
<1>25. CASE AppendFsyncFails
  BY <1>2, <1>10, <1>25 DEF AppendFsyncFails
<1>26. CASE ReturnRecords
  BY <1>2, <1>10, <1>26 DEF ReturnRecords
<1>27. CASE VerifyChain
  <2>1. verdict' # "rejected"
    BY <1>3, <1>17, <1>27 DEF VerifyChain
  <2>. QED  BY <1>2, <1>10, <1>27, <2>1 DEF VerifyChain
<1>28. CASE VerifyUnreadable
  BY <1>2, <1>10, <1>28 DEF VerifyUnreadable
<1>29. CASE ProcessCrash
  <2>1. Survivors'
    BY <1>2, <1>29, SurvivorsShrink DEF ProcessCrash
  <2>. QED  BY <1>2, <1>29, <2>1 DEF ProcessCrash, Restart, Leave, Position
<1>30. CASE PowerLoss
  <2>1. PICK f \in pers : file' = f /\ pers' = {f}
    BY <1>30 DEF PowerLoss
  <2>2. Candidate(f) \in Seq(Record)
    BY <1>2, CandidateType DEF TypeOK, Survivors, Loadable
  <2>3. Prefix(Candidate(f), Candidate(f))
    BY <2>2, PrefixItself
  <2>4. Survivors'
    BY <1>2, <1>30, <2>1, <2>3 DEF PowerLoss, Survivors
  <2>. QED  BY <1>30, <2>1, <2>4 DEF PowerLoss, Restart, Leave, Position
<1>31. CASE Edit
  BY <1>31 DEF Edit
<1>32. CASE UNCHANGED vars
  <2>1. Survivors'
    BY <1>2, <1>32, SurvivorsShrink DEF vars
  <2>2. Position'
    BY <1>2, <1>32 DEF vars, Position, IsFull, IsTorn, Candidate
  <2>. QED  BY <1>2, <1>32, <2>1, <2>2 DEF vars
<1>. QED
  BY <1>7, <1>8, <1>9, <1>11, <1>12, <1>13, <1>14, <1>15, <1>16, <1>18, <1>19,
     <1>20, <1>22, <1>23, <1>24, <1>25, <1>26, <1>27, <1>28, <1>29, <1>30,
     <1>31, <1>32
  DEF Next

-----------------------------------------------------------------------------
(* The theorems.                                                           *)

\* Until an edit, every file a power loss may leave is loadable, keeps what was
\* acknowledged, and agrees with the memory and the position of the operation.
THEOREM Safety == Spec => []IInv
BY SafetyInit, SafetyStep, PTL DEF Spec

\* Where fsync of a new file persists its directory entry, whatever a power
\* loss leaves holds every record append_record has returned.
THEOREM AcknowledgedIsDurable ==
  ASSUME FsyncPersistsEntry
  PROVE  Spec => []AckedSurvive
<1>1. IInv => AckedSurvive
  BY DEF IInv, Survivors, AckedSurvive
<1>. QED  BY <1>1, Safety, PTL

\* The memory that the next append chains to is the file.
THEOREM MemoryMatchesFile == Spec => []MemoryIsFile
<1>1. IInv => MemoryIsFile
  BY DEF IInv, Position, MemoryIsFile
<1>. QED  BY <1>1, Safety, PTL

-----------------------------------------------------------------------------
(* An edit is never hidden.  A broken line stays where it is: no action    *)
(* removes a line, so every file that may survive carries it.              *)

Broken(lines) ==
  \E i \in 1 .. Len(lines) : lines[i] = Junk \/ ~Linked(lines, i)

EditInv ==
  damaged =>
    /\ file \in pers
    /\ \A f \in pers : Broken(f.lines)
    /\ pc \notin {"newline", "quarantine", "truncate", "repairsync"}
    /\ pc \in {"run", "fsync", "syncdir"} => loaded
    /\ loaded => file.tail = NoTail

\* A broken line is not mended by a later one.
LEMMA BrokenExtended ==
  ASSUME NEW lines \in Seq(Line), Broken(lines), NEW line \in Line
  PROVE  Broken(Append(lines, line))
<1> DEFINE longer == Append(lines, line)
<1>1. /\ Len(longer) = Len(lines) + 1 /\ Len(lines) \in Nat
      /\ \A i \in 1 .. Len(lines) : longer[i] = lines[i]
  OBVIOUS
<1>2. PICK i \in 1 .. Len(lines) : lines[i] = Junk \/ ~Linked(lines, i)
  BY DEF Broken
<1>3. i \in 1 .. Len(longer) /\ longer[i] = lines[i]
  BY <1>1
<1>4. ExpectedPrev(longer, i) = ExpectedPrev(lines, i)
  BY <1>1 DEF ExpectedPrev
<1>5. Linked(longer, i) <=> Linked(lines, i)
  BY <1>3, <1>4 DEF Linked
<1>. QED  BY <1>2, <1>3, <1>5 DEF Broken

\* A file with a broken line is not loadable.
LEMMA BrokenIsRefused ==
  ASSUME NEW f \in File, Broken(f.lines)
  PROVE  ~Loadable(f)
<1> SUFFICES ASSUME Loadable(f) PROVE FALSE
  OBVIOUS
<1>1. Candidate(f) \in Seq(Record) /\ f.lines \in Seq(Line)
  BY CandidateType, TailTypes DEF Loadable
<1>2. \A i \in 1 .. Len(f.lines) : f.lines[i] # Junk
  BY <1>1 DEF Loadable, Parses
<1>3. Broken(Candidate(f))
  BY <1>1, BrokenExtended, TailTypes DEF Candidate, Line
<1>4. \A i \in 1 .. Len(Candidate(f)) : Candidate(f)[i] \in Record
  BY <1>1
<1>5. \A i \in 1 .. Len(Candidate(f)) : Linked(Candidate(f), i)
  BY <1>1 DEF Loadable, Verified
<1>. QED  BY <1>3, <1>4, <1>5, MarkersAssumption DEF Broken

\* Bytes appended to a file do not mend a broken line.
LEMMA BrokenGrown ==
  ASSUME NEW f \in File, Broken(f.lines), NEW rec \in Record, NEW s \in 0 .. 3
  PROVE  Broken(Grown(f, rec, s).lines)
<1> DEFINE line == IF f.tail = NoTail THEN rec ELSE Junk
<1>1. f.lines \in Seq(Line) /\ line \in Line
  BY TailTypes DEF Line
<1>2. Broken(Append(f.lines, line))
  BY <1>1, BrokenExtended
<1>. QED  BY <1>2 DEF Grown

\* Hashing is injective, so altering a payload breaks the record's own hash.
LEMMA EditBreaks ==
  ASSUME TypeOK, Loadable(file), Edit
  PROVE  Broken(file'.lines)
<1>1. PICK i \in DOMAIN file.lines :
        \E line \in Alterations(file.lines[i]) :
          file' = [file EXCEPT !.lines = [@ EXCEPT ![i] = line]]
  BY DEF Edit
<1>2. PICK line \in Alterations(file.lines[i]) :
        file' = [file EXCEPT !.lines = [@ EXCEPT ![i] = line]]
  BY <1>1
<1>3. file \in File /\ file.lines \in Seq(Record) /\ file.tail = NoTail
  BY CandidateType DEF TypeOK, Loadable, Edit
<1>4. /\ file'.lines = [file.lines EXCEPT ![i] = line] /\ i \in 1 .. Len(file.lines)
      /\ file.lines[i] \in Record
  BY <1>2, <1>3 DEF File
<1>5. /\ Len(file'.lines) = Len(file.lines) /\ file'.lines[i] = line
      /\ \A j \in 1 .. Len(file.lines) : j # i => file'.lines[j] = file.lines[j]
  BY <1>3, <1>4
<1>6. CASE line = Junk
  BY <1>4, <1>5, <1>6 DEF Broken
<1>7. CASE line # Junk
  <2>1. PICK p \in Payloads \ {file.lines[i].payload} :
          line = [file.lines[i] EXCEPT !.payload = p]
    BY <1>7 DEF Alterations
  <2>2. Linked(file.lines, i)
    BY <1>3, <1>4 DEF Loadable, Verified, Candidate, IsFull
  <2>3. ExpectedPrev(file'.lines, i) = ExpectedPrev(file.lines, i)
    BY <1>3, <1>4, <1>5 DEF ExpectedPrev
  <2>4. /\ line.payload = p /\ line.record_hash = file.lines[i].record_hash
        /\ line.prev_hash = file.lines[i].prev_hash
    BY <1>4, <2>1 DEF Record
  <2>5. /\ file.lines[i].prev_hash \in Seq(Payloads)
        /\ ExpectedPrev(file.lines, i) = file.lines[i].prev_hash
    BY <1>4, <2>2 DEF Linked, Record, Hash
  <2>6. RecordHash(p, file.lines[i].prev_hash)
          # RecordHash(file.lines[i].payload, file.lines[i].prev_hash)
    <3>1. \A h \in Seq(Payloads), q \in Payloads : Append(h, q)[Len(h) + 1] = q
      OBVIOUS
    <3>. QED  BY <1>4, <2>1, <2>5, <3>1 DEF RecordHash, Record
  <2>7. ~Linked(file'.lines, i)
    BY <1>5, <2>2, <2>3, <2>4, <2>5, <2>6 DEF Linked
  <2>. QED  BY <1>4, <1>5, <2>7 DEF Broken
<1>. QED  BY <1>6, <1>7

\* The edit breaks a line, and no step after it removes or mends that line.
LEMMA EditStep == IInv /\ EditInv /\ [Next]_vars => EditInv'
<1> SUFFICES ASSUME IInv, EditInv, [Next]_vars, damaged' PROVE EditInv'
  BY DEF EditInv
<1> USE DEF locals
<1>1. CASE ~damaged
  <2>1. Edit
    BY <1>1 DEF Next, Begin, LoadClean, LoadRepair, LoadRefused, LoadFails,
       CompleteNewline, QuarantineTail, TruncateTail, SyncRepair, AppendWrite,
       AppendWriteFails, AppendOpenFails, AppendFsync, AppendFsyncNew,
       SyncDirectory, AppendFsyncFails, ReturnRecords, VerifyChain,
       VerifyUnreadable, ProcessCrash, PowerLoss, vars
  <2>2. Loadable(file) /\ TypeOK
    BY <1>1 DEF IInv, TypeInv, Survivors
  <2>3. Broken(file'.lines)
    BY <2>1, <2>2, EditBreaks
  <2>4. file'.tail = NoTail
    BY <2>1, <2>2, TailTypes DEF Edit, TypeOK, File
  <2>. QED  BY <2>1, <2>3, <2>4 DEF Edit, EditInv
<1>2. CASE damaged
  <2>1. /\ file \in pers /\ \A f \in pers : f \in File /\ Broken(f.lines)
        /\ file \in File /\ ~Loadable(file) /\ file # NoFile
    BY <1>2, BrokenIsRefused DEF EditInv, IInv, TypeInv, TypeOK, NoFile, Broken
  <2>2. AfterFsync \subseteq pers /\ file \in AfterFsync
    BY <2>1 DEF AfterFsync
  <2> USE DEF EditInv
  <2>3. ASSUME NEW k \in {"append", "records", "verify"}, Begin(k) PROVE EditInv'
    BY <1>2, <2>3 DEF Begin
  <2>4. CASE LoadClean \/ LoadRepair
    BY <2>1, <2>4 DEF LoadClean, LoadRepair
  <2>5. CASE LoadRefused \/ LoadFails \/ AppendOpenFails \/ AppendFsyncFails
    BY <1>2, <2>5
    DEF LoadRefused, LoadFails, AppendOpenFails, AppendFsyncFails, Leave
  <2>6. CASE CompleteNewline \/ QuarantineTail \/ TruncateTail \/ SyncRepair
    BY <1>2, <2>6 DEF CompleteNewline, QuarantineTail, TruncateTail, SyncRepair
  <2>7. ASSUME NEW p \in Payloads, pc = "run",
               NEW stage \in 0 .. 3,
               file' = Grown(file, Chained(p, LastHash(trace)), stage),
               pers' = pers \cup {Grown(file, Chained(p, LastHash(trace)), s) :
                                   s \in 0 .. stage}
        PROVE  /\ file' \in pers' /\ \A f \in pers' : Broken(f.lines)
               /\ stage = 3 => file'.tail = NoTail
    <3> DEFINE rec == Chained(p, LastHash(trace))
    <3>1. rec \in Record
      BY ChainedType DEF IInv, TypeInv, TypeOK
    <3>2. \A s \in 0 .. 3 : Broken(Grown(file, rec, s).lines)
      BY <2>1, <3>1, BrokenGrown
    <3>3. stage = 3 => file'.tail = NoTail
      BY <2>7 DEF Grown
    <3>. QED  BY <2>1, <2>7, <3>2, <3>3
  <2>8. ASSUME NEW p \in Payloads, AppendWrite(p) PROVE EditInv'
    BY <1>2, <2>7, <2>8 DEF AppendWrite
  <2>9. ASSUME NEW p \in Payloads, AppendWriteFails(p) PROVE EditInv'
    <3>1. PICK stage \in 0 .. 3 :
            /\ file' = Grown(file, Chained(p, LastHash(trace)), stage)
            /\ pers' = pers \cup {Grown(file, Chained(p, LastHash(trace)), s) :
                                  s \in 0 .. stage}
      BY <2>9 DEF AppendWriteFails
    <3>2. file' \in pers' /\ \A f \in pers' : Broken(f.lines)
      BY <2>7, <2>9, <3>1 DEF AppendWriteFails
    <3>. QED  BY <2>9, <3>2 DEF AppendWriteFails, Leave
  <2>10. CASE AppendFsync
    BY <1>2, <2>1, <2>2, <2>10 DEF AppendFsync, Acknowledge, Leave
  <2>11. CASE AppendFsyncNew
    BY <1>2, <2>1, <2>2, <2>11 DEF AppendFsyncNew
  <2>12. CASE SyncDirectory
    BY <1>2, <2>1, <2>12 DEF SyncDirectory, Acknowledge, Leave
  <2>13. CASE ReturnRecords \/ VerifyChain \/ VerifyUnreadable
    BY <1>2, <2>13 DEF ReturnRecords, VerifyChain, VerifyUnreadable, Leave
  <2>14. CASE ProcessCrash \/ PowerLoss
    BY <1>2, <2>14 DEF ProcessCrash, PowerLoss, Restart, Leave
  <2>15. CASE Edit
    BY <1>2, <2>15 DEF Edit
  <2>16. CASE UNCHANGED vars
    BY <1>2, <2>16 DEF vars
  <2>. QED
    BY <2>3, <2>4, <2>5, <2>6, <2>8, <2>9, <2>10, <2>11, <2>12, <2>13, <2>14,
       <2>15, <2>16
    DEF Next
<1>. QED  BY <1>1, <1>2 DEF IInv, TypeInv, TypeOK

\* The invariant of the edited log holds in every reachable state.
LEMMA EditSafety == Spec => [](IInv /\ EditInv)
<1>1. Init => EditInv
  BY DEF Init, EditInv
<1>. QED  BY <1>1, SafetyInit, SafetyStep, EditStep, PTL DEF Spec

\* On every file system, no failure of a write or a repair and no crash leaves
\* a file that the next load refuses; after an edit of any one line no load
\* succeeds again.
THEOREM LoadFailsClosedOnly == Spec => []LoadableUnlessEdited
<1>1. IInv /\ EditInv => LoadableUnlessEdited
  <2>1. IInv /\ ~damaged => \A f \in pers : Loadable(f)
    BY DEF IInv, Survivors
  <2>2. IInv /\ EditInv /\ damaged => \A f \in pers : ~Loadable(f)
    BY BrokenIsRefused DEF IInv, TypeInv, TypeOK, EditInv
  <2>3. IInv => damaged \in BOOLEAN
    BY DEF IInv, TypeInv, TypeOK
  <2>. QED  BY <2>1, <2>2, <2>3 DEF LoadableUnlessEdited
<1>. QED  BY <1>1, EditSafety, PTL

\* verify_chain never blames a crash on an edit, and after an edit it never
\* answers that the chain is verified.
THEOREM VerdictsAreRight == Spec => VerdictIsRight
<1>1. IInv' => (verdict' = "rejected" => damaged')
  BY DEF IInv
<1>2. IInv /\ EditInv /\ [Next]_vars
        => [damaged /\ verdict' # verdict => verdict' # "verified"]_vars
  <2> SUFFICES ASSUME IInv, EditInv, [Next]_vars, damaged, verdict' # verdict
               PROVE  verdict' # "verified"
    OBVIOUS
  <2>1. ~Loadable(file)
    BY BrokenIsRefused DEF EditInv, IInv, TypeInv, TypeOK
  <2>. QED
    BY <2>1
    DEF Next, Begin, LoadClean, LoadRepair, LoadRefused, LoadFails,
        CompleteNewline, QuarantineTail, TruncateTail, SyncRepair, AppendWrite,
        AppendWriteFails, AppendOpenFails, AppendFsync, AppendFsyncNew,
        SyncDirectory, AppendFsyncFails, ReturnRecords, VerifyChain,
        VerifyUnreadable, ProcessCrash, PowerLoss, Restart, Edit, vars
<1>3. IInv /\ EditInv /\ IInv' /\ [Next]_vars
        => [verdict' # verdict =>
              /\ verdict' = "rejected" => damaged'
              /\ verdict' = "verified" => ~damaged]_vars
  BY <1>1, <1>2
<1>. QED  BY <1>3, EditSafety, PTL DEF Spec, VerdictIsRight

-----------------------------------------------------------------------------
(* The trace implements the abstract log.                                  *)

\* A history that a longer one starts with is a part of it.
LEMMA PrefixIsSubSeq ==
  ASSUME NEW s \in Seq(Record), NEW t \in Seq(Record), Prefix(s, t)
  PROVE  SubSeq(t, 1, Len(s)) = s /\ Len(s) \in 0 .. Len(t)
<1>1. Len(s) \in 0 .. Len(t)
  BY DEF Prefix
<1>2. /\ SubSeq(t, 1, Len(s)) \in Seq(Record) /\ Len(SubSeq(t, 1, Len(s))) = Len(s)
      /\ \A i \in 1 .. Len(s) : SubSeq(t, 1, Len(s))[i] = t[i]
  BY <1>1, SMT
<1>3. \A i \in 1 .. Len(s) : SubSeq(t, 1, Len(s))[i] = s[i]
  BY <1>2 DEF Prefix
<1>. QED  BY <1>1, <1>2, <1>3, SeqEqual

\* A history grown by one record is the abstract Record.
LEMMA GrowthIsRecord ==
  ASSUME NEW rec \in Record, Candidate(file) \in Seq(Record),
         Candidate(file)' = Append(Candidate(file), rec), acked' = acked
  PROVE  Audit!Record
<1> DEFINE l == Candidate(file)
           m == Append(l, rec)
<1>1. Len(m) = Len(l) + 1 /\ m[Len(m)] = rec /\ SubSeq(m, 1, Len(l)) = l
  BY SMT
<1>. QED  BY <1>1 DEF Audit!Record

\* Until an edit every step is one of the abstract log, or leaves it alone.
LEMMA StepRefines ==
  ASSUME FsyncPersistsEntry, IInv, IInv', [Next]_vars, ~damaged'
  PROVE  Audit!Next \/ UNCHANGED <<Candidate(file), acked>>
<1> USE DEF locals
<1>1. ~damaged
  BY DEF Next, Begin, LoadClean, LoadRepair, LoadRefused, LoadFails,
     CompleteNewline, QuarantineTail, TruncateTail, SyncRepair, AppendWrite,
     AppendWriteFails, AppendOpenFails, AppendFsync, AppendFsyncNew,
     SyncDirectory, AppendFsyncFails, ReturnRecords, VerifyChain,
     VerifyUnreadable, ProcessCrash, PowerLoss, Edit, vars
<1>2. file \in pers /\ Survivors /\ Position /\ TypeInv
  BY <1>1 DEF IInv
<1>3. file \in File /\ Loadable(file) /\ Candidate(file) \in Seq(Record)
  BY <1>2, CandidateType DEF TypeInv, TypeOK, Survivors, Loadable
<1>4. CASE UNCHANGED <<file, acked>>
  BY <1>4 DEF Candidate, IsFull
<1>5. CASE CompleteNewline
  <2>1. IsFull(file) /\ file' = Terminated(file) /\ acked' = acked
    BY <1>2, <1>5 DEF CompleteNewline, Position
  <2>2. Candidate(Terminated(file)) = Candidate(file)
    BY <1>3, <2>1, TerminatedLoadable
  <2>3. Candidate(file)' = Candidate(Terminated(file))
    BY <2>1 DEF Candidate, IsFull
  <2>. QED  BY <2>1, <2>2, <2>3
<1>6. CASE TruncateTail
  <2>1. IsTorn(file) /\ file' = Truncated(file) /\ acked' = acked
    BY <1>2, <1>6 DEF TruncateTail, Position
  <2>2. Candidate(Truncated(file)) = Candidate(file)
    BY <1>3, <2>1, TruncatedLoadable
  <2>3. Candidate(file)' = Candidate(Truncated(file))
    BY <2>1 DEF Candidate, IsFull
  <2>. QED  BY <2>1, <2>2, <2>3
<1>7. ASSUME NEW p \in Payloads, NEW s \in 0 .. 3, pc = "run", acked' = acked,
             file' = Grown(file, Chained(p, LastHash(trace)), s)
      PROVE  Audit!Next \/ UNCHANGED <<Candidate(file), acked>>
  <2> DEFINE rec == Chained(p, LastHash(file.lines))
             g == Grown(file, rec, s)
  <2>1. trace = file.lines /\ file.tail = NoTail
    BY <1>2, <1>7 DEF Position
  <2>2. Candidate(file) = file.lines
    BY <2>1 DEF Candidate, IsFull
  <2>3. rec \in Record
    BY <1>3, <2>2, ChainedType
  <2>4. Candidate(g) \in {file.lines, Append(file.lines, rec)}
    BY <1>3, <2>1, GrownLoadable
  <2>5. Candidate(file)' = Candidate(g)
    BY <1>7, <2>1 DEF Candidate, IsFull
  <2>6. CASE Candidate(g) = file.lines
    BY <1>7, <2>2, <2>5, <2>6
  <2>7. CASE Candidate(g) = Append(file.lines, rec)
    <3>1. Audit!Record
      BY <1>3, <1>7, <2>2, <2>3, <2>5, <2>7, GrowthIsRecord
    <3>. QED  BY <3>1 DEF Audit!Next
  <2>. QED  BY <2>4, <2>6, <2>7
<1>8. ASSUME NEW p \in Payloads, AppendWrite(p)
      PROVE  Audit!Next \/ UNCHANGED <<Candidate(file), acked>>
  <2>1. /\ pc = "run" /\ acked' = acked
        /\ file' = Grown(file, Chained(p, LastHash(trace)), 3)
    BY <1>8 DEF AppendWrite
  <2>. QED  BY <1>7, <2>1
<1>9. ASSUME NEW p \in Payloads, AppendWriteFails(p)
      PROVE  Audit!Next \/ UNCHANGED <<Candidate(file), acked>>
  <2>1. PICK stage \in 0 .. 3 : file' = Grown(file, Chained(p, LastHash(trace)), stage)
    BY <1>9 DEF AppendWriteFails
  <2>. QED  BY <1>7, <1>9, <2>1 DEF AppendWriteFails
<1>10. ASSUME Acknowledge, file' = file, pc \in {"fsync", "syncdir"}
       PROVE  Audit!Next
  <2>1. /\ stored \in Record /\ trace \in Seq(Record)
        /\ file.lines = Append(trace, stored) /\ file.tail = NoTail
    BY <1>2, <1>10 DEF Position, TypeInv, TypeOK
  <2>2. Candidate(file) = Append(trace, stored)
    BY <2>1 DEF Candidate, IsFull
  <2>3. /\ Len(Candidate(file)) = Len(trace) + 1 /\ Candidate(file) # <<>>
        /\ Candidate(file)[Len(trace) + 1] = stored
    BY <2>1, <2>2, SMT
  <2>4. acked' = acked \cup {<<Len(Candidate(file)), Candidate(file)[Len(Candidate(file))]>>}
    BY <1>10, <2>3 DEF Acknowledge
  <2>5. Candidate(file)' = Candidate(file)
    BY <1>10 DEF Candidate, IsFull
  <2>. QED  BY <2>3, <2>4, <2>5 DEF Audit!Next, Audit!Acknowledge
<1>11. CASE AppendFsync \/ SyncDirectory
  BY <1>10, <1>11 DEF AppendFsync, SyncDirectory
<1>12. CASE PowerLoss
  <2>1. PICK f \in pers : file' = f
    BY <1>12 DEF PowerLoss
  <2>2. /\ Loadable(f) /\ Prefix(Candidate(f), Candidate(file))
        /\ \A a \in acked : Holds(f.lines, a)
    BY <1>2 DEF Survivors
  <2>3. f \in File /\ Candidate(f) \in Seq(Record) /\ f.lines \in Seq(Record)
    BY <1>2, <2>2, CandidateType DEF TypeInv, TypeOK, Loadable
  <2>4. /\ SubSeq(Candidate(file), 1, Len(Candidate(f))) = Candidate(f)
        /\ Len(Candidate(f)) \in 0 .. Len(Candidate(file))
    BY <1>3, <2>2, <2>3, PrefixIsSubSeq
  <2>5. \A a \in acked : Holds(Candidate(f), a)
    <3> TAKE a \in acked
    <3>1. CASE ~IsFull(f)
      BY <2>2, <3>1 DEF Candidate
    <3>2. CASE IsFull(f)
      <4>1. f.tail.line \in Record /\ Candidate(f) = Append(f.lines, f.tail.line)
        BY <2>3, <3>2, TailTypes DEF Candidate
      <4>. QED  BY <2>2, <2>3, <4>1, HoldsExtended
    <3>. QED  BY <3>1, <3>2
  <2>6. Candidate(file)' = Candidate(f)
    BY <2>1 DEF Candidate, IsFull
  <2>7. \A a \in acked : Audit!Holds(Candidate(f), a)
    BY <2>5 DEF Holds, Audit!Holds
  <2>8. Audit!Forget(Len(Candidate(f)))
    BY <1>12, <2>4, <2>6, <2>7 DEF Audit!Forget, PowerLoss
  <2>. QED  BY <2>4, <2>8 DEF Audit!Next
<1>13. CASE Edit
  BY <1>13 DEF Edit
<1>. QED
  BY <1>4, <1>5, <1>6, <1>8, <1>9, <1>11, <1>12, <1>13
  DEF Next, Begin, LoadClean, LoadRepair, LoadRefused, LoadFails, QuarantineTail,
      SyncRepair, AppendOpenFails, AppendFsyncNew, AppendFsyncFails, ReturnRecords,
      VerifyChain, VerifyUnreadable, ProcessCrash, vars

\* Where fsync of a new file persists its directory entry, the trace implements
\* the abstract log until somebody edits the file: it grows at its end by one
\* record at a time, and what a crash, a failed append or a repair forgets was
\* never acknowledged.
THEOREM TraceImplementsLog ==
  ASSUME FsyncPersistsEntry
  PROVE  Spec => ImplementsAuditLog
<1>1. Init => Audit!Init
  BY DEF Init, Audit!Init, Candidate, IsFull, NoFile
<1>2. IInv /\ IInv' /\ [Next]_vars
        => [Audit!Next \/ damaged']_<<Candidate(file), acked>>
  BY StepRefines
<1>. QED  BY <1>1, <1>2, Safety, PTL DEF Spec, ImplementsAuditLog

-----------------------------------------------------------------------------
(* Torn bytes are kept.                                                    *)

\* The tail to be truncated is in a quarantine file.
Quarantined == pc = "truncate" => file.tail \in evidence

LEMMA QuarantinedAlways == Spec => []Quarantined
<1>1. Init => Quarantined
  BY DEF Init, Quarantined
<1>2. Quarantined /\ [Next]_vars => Quarantined'
  <2> SUFFICES ASSUME Quarantined, [Next]_vars, pc' = "truncate"
               PROVE  file'.tail \in evidence'
    BY DEF Quarantined
  <2>1. QuarantineTail \/ UNCHANGED <<pc, file, evidence>>
    BY DEF Next, Begin, LoadClean, LoadRepair, LoadRefused, LoadFails,
       CompleteNewline, TruncateTail, SyncRepair, AppendWrite,
       AppendWriteFails, AppendOpenFails, AppendFsync, AppendFsyncNew,
       SyncDirectory, AppendFsyncFails, ReturnRecords, VerifyChain,
       VerifyUnreadable, ProcessCrash, PowerLoss, Restart, Leave, Acknowledge, Edit, vars
  <2>. QED  BY <2>1 DEF QuarantineTail, Quarantined
<1>. QED  BY <1>1, <1>2, PTL DEF Spec

\* A torn tail that is on the disk for good stays there until a quarantine file
\* holds it for good (_apply_tail_repair, _persist_torn_bytes).
THEOREM TornBytesAreKept == Spec => EvidenceKept
<1>1. ASSUME IInv, EditInv, Quarantined, [Next]_vars, NEW f \in pers,
             IsTorn(f), SurelyTorn(f.tail, pers), ~SurelyTorn(f.tail, pers')
      PROVE  f.tail \in evidence'
  <2>1. file \in pers /\ file.tail = f.tail /\ IsTorn(file) /\ file.tail # NoTail
    BY <1>1 DEF IInv, EditInv, SurelyTorn, IsTorn
  <2>2. ~(pers' \subseteq pers)
    BY <1>1 DEF SurelyTorn
  <2>3. AfterFsync \subseteq pers
    BY <2>1 DEF AfterFsync
  <2>4. pc \notin {"run", "newline"}
    BY <1>1, <2>1, TailTypes DEF IInv, EditInv, Position, TypeInv, TypeOK
  <2>5. TruncateTail
    BY <1>1, <2>1, <2>2, <2>3, <2>4
    DEF Next, Begin, LoadClean, LoadRepair, LoadRefused, LoadFails,
        CompleteNewline, QuarantineTail, SyncRepair, AppendWrite,
        AppendWriteFails, AppendOpenFails, AppendFsync, AppendFsyncNew,
        SyncDirectory, AppendFsyncFails, ReturnRecords, VerifyChain,
        VerifyUnreadable, ProcessCrash, PowerLoss, Edit, vars
  <2>. QED  BY <1>1, <2>1, <2>5 DEF TruncateTail, Quarantined
<1>2. IInv /\ EditInv /\ Quarantined /\ [Next]_vars =>
        [\A f \in pers :
           IsTorn(f) /\ SurelyTorn(f.tail, pers) /\ ~SurelyTorn(f.tail, pers')
             => f.tail \in evidence']_vars
  BY <1>1
<1>. QED
  BY <1>2, EditSafety, QuarantinedAlways, PTL DEF Spec, EvidenceKept

=============================================================================
