--------------------------- MODULE TrainingProofs ---------------------------
(***************************************************************************)
(* Proofs about the reader and the training sessions, for every number of  *)
(* patches, outputs, plans and sessions.  The invariant of a session is    *)
(* that its chain is the one of an undisturbed run and that its reader     *)
(* stands where that run's would; the invariant of the disk is that every  *)
(* whole checkpoint file holds such a session; that of the storage is what *)
(* the calls of a save have done so far.                                   *)
(***************************************************************************)
EXTENDS Training, SequenceTheorems, TLAPS

\* The stream position of a reader.
Pos(r) == r.epoch * N + r.cursor

-----------------------------------------------------------------------------
\* What the proofs use of the constants.
LEMMA Constants ==
  /\ N \in Nat \ {0} /\ LastEpoch \in Nat
  /\ Accum \in Nat \ {0}
  /\ Absent # Partial /\ Absent \notin Checkpoint /\ Partial \notin Checkpoint
  BY ReaderAssumption, PlanAssumption, MarkersAssumption

\* Whole steps of whole seconds.
LEMMA StepsInType ==
  ASSUME NEW seconds \in Int, NEW rate \in Nat
  PROVE  StepsIn(seconds, rate) \in Nat
<1>1. CASE seconds > 0
  <2>1. PICK n \in Nat : n = seconds * rate  BY <1>1, SMT
  <2>2. n \div Accum \in Nat  BY <2>1, Constants, SMT
  <2> QED  BY <1>1, <2>1, <2>2 DEF StepsIn
<1>2. CASE ~(seconds > 0)  BY <1>2 DEF StepsIn
<1> QED  BY <1>1, <1>2

\* A plan has steps, and caps a session at a number of them.
LEMMA PlanType ==
  ASSUME NEW p \in Plans
  PROVE  p.total \in Totals /\ p.cap \in Nat
<1>1. PICK a \in Asks : Planned(a) /\ p = [total |-> TotalSteps(a), cap |-> SessionCap(a)]
  BY DEF Plans
<1>2. a.throughput.rate \in Nat /\ Given(a.limit, Limit) - Reserve \in Int
  BY <1>1, PlanAssumption, SMT DEF Planned, Usable
<1>3. SessionCap(a) \in Nat  BY <1>2, StepsInType DEF SessionCap
<1> QED  BY <1>1, <1>3 DEF Totals

\* The totals are numbers of steps.
LEMMA TotalsType == Totals \subseteq Nat \ {0}
<1>1. ASSUME NEW a \in Asks, Planned(a) PROVE TotalSteps(a) \in Nat \ {0}
  <2>1. a.throughput.rate \in Nat /\ Given(a.budget, Budget) \in Int
    BY <1>1, PlanAssumption, SMT DEF Planned, Usable
  <2>2. TotalSteps(a) \in Nat  BY <2>1, StepsInType DEF TotalSteps
  <2> QED  BY <1>1, <2>2, SMT DEF Planned
<1>2. ASSUME NEW p \in Plans PROVE p.total \in Nat \ {0}
  <2>1. PICK a \in Asks : Planned(a) /\ p = [total |-> TotalSteps(a), cap |-> SessionCap(a)]
    BY DEF Plans
  <2> QED  BY <1>1, <2>1
<1>3. Measures \subseteq Nat \ {0}  BY PlanAssumption
<1> QED  BY <1>2, <1>3 DEF Totals

\* The order of an epoch names patches.
LEMMA OrderInRange ==
  ASSUME NEW e \in 0 .. LastEpoch, NEW c \in Patches
  PROVE  EpochOrder[e][c] \in Patches
<1>1. EpochOrder[e] \in [Patches -> Patches]  BY ReaderAssumption
<1> QED  BY <1>1

\* Arithmetic of positions.
LEMMA DivMod ==
  ASSUME NEW a \in Nat, NEW n \in Nat \ {0}, NEW r \in 0 .. n-1
  PROVE  (a * n + r) \div n = a /\ (a * n + r) % n = r
  BY SMT

\* One more multiple.
LEMMA NextMultiple ==
  ASSUME NEW a \in Nat, NEW n \in Nat
  PROVE  (a + 1) * n = a * n + n /\ a * n \in Nat
  BY SMT

\* The items of step a + 1 of a run are those after the first a * n.
LEMMA SplitIndex ==
  ASSUME NEW a \in Nat, NEW n \in Nat \ {0}, NEW i \in 1 .. (a + 1) * n,
         i > a * n
  PROVE  (i - 1) \div n = a
<1> DEFINE r == i - 1 - a * n
<1>1. r \in 0 .. n-1 /\ i - 1 = a * n + r  BY NextMultiple, SMT
<1> HIDE DEF r
<1> QED  BY <1>1, DivMod, SMT

\* A new reader is at the start of the stream.
LEMMA NewReaderPos == NewReader \in Readers /\ Pos(NewReader) = 0
  BY Constants, SMT DEF NewReader, Readers, Pos, Patches

\* next_entry: it returns the patch the undisturbed stream has at the
\* reader's position, and moves the position on by exactly one, whether or
\* not the epoch rolls over (ShardDataset.next_entry).
THEOREM ReaderFollowsStream ==
  ASSUME NEW r \in Readers, Rolled(r).epoch <= LastEpoch
  PROVE  /\ NextEntry(r) = Reference(Pos(r))
         /\ NextEntry(r) \in Patches
         /\ AfterNext(r) \in Readers
         /\ Pos(AfterNext(r)) = Pos(r) + 1
<1>1. Rolled(r) = r  BY Constants, SMT DEF Rolled, Readers, Patches
<1>2. r.epoch \in 0 .. LastEpoch /\ r.cursor \in Patches
  BY <1>1, Constants, SMT DEF Readers
<1>3. Pos(r) \div N = r.epoch /\ Pos(r) % N = r.cursor
  <2>1. N \in Nat \ {0} /\ r.epoch \in Nat  BY <1>2, Constants
  <2> QED  BY <2>1, <1>2, DivMod DEF Pos, Patches
<1>4. NextEntry(r) = Reference(Pos(r)) /\ NextEntry(r) \in Patches
  BY <1>1, <1>2, <1>3, OrderInRange, SMT DEF NextEntry, Reference
<1>5. CASE r.cursor + 1 >= N
  <2>1. AfterNext(r) = [epoch |-> r.epoch + 1, cursor |-> 0]
    BY <1>1, <1>2, <1>5, Constants, SMT DEF AfterNext, Rolled, Patches
  <2>2. Pos(AfterNext(r)) = (r.epoch + 1) * N  BY <1>2, <2>1, Constants, SMT DEF Pos, Patches
  <2>3. r.cursor + 1 = N  BY <1>2, <1>5, Constants, SMT DEF Patches
  <2>4. Pos(r) + 1 = r.epoch * N + N  BY <1>2, <2>3, NextMultiple, Constants, SMT DEF Pos, Patches
  <2> QED  BY <1>2, <1>4, <2>1, <2>2, <2>4, NextMultiple, Constants, SMT DEF Readers, Patches
<1>6. CASE ~(r.cursor + 1 >= N)
  <2>1. AfterNext(r) = [epoch |-> r.epoch, cursor |-> r.cursor + 1]
    BY <1>1, <1>2, <1>6, Constants, SMT DEF AfterNext, Rolled, Patches
  <2>2. AfterNext(r) \in Readers  BY <1>2, <1>6, <2>1, Constants, SMT DEF Readers, Patches
  <2>3. Pos(AfterNext(r)) = Pos(r) + 1
    BY <1>2, <2>1, NextMultiple, Constants, SMT DEF Pos, Patches
  <2> QED  BY <1>4, <2>2, <2>3
<1> QED  BY <1>5, <1>6

\* The two ways to read agree: recording the position after the one drawn
\* (entries_from and advance) leaves the reader that next_entry leaves.
THEOREM AdvanceIsNext ==
  ASSUME NEW r \in Readers
  PROVE  Advance(r, r.cursor + 1) = AfterNext(r)
  BY Constants, SMT DEF Advance, AfterNext, Rolled, Readers, Patches
-----------------------------------------------------------------------------
\* The file names of an output differ, and only the first two are managed.
LEMMA NamesDiffer ==
  ASSUME NEW o \in Outputs
  PROVE  /\ Own(o) \in Managed /\ Previous(o) \in Managed
         /\ Own(o) \in Names /\ Previous(o) \in Names /\ Temp(o) \in Names
         /\ Temp(o) \notin Managed
         /\ Own(o) # Previous(o) /\ Own(o) # Temp(o) /\ Previous(o) # Temp(o)
         /\ <<>> \notin Managed
  BY DEF Own, Previous, Temp, Managed, Names

\* The managed names are names of files.
LEMMA ManagedAreNames == Managed \subseteq Names
  BY DEF Names

\* Removing a name from a list of names leaves a list of names.
LEMMA WithoutType ==
  ASSUME NEW s \in Seq(Managed), NEW f
  PROVE  Without(s, f) \in Seq(Managed)
<1>1. CASE f \notin Range(s)  BY <1>1 DEF Without
<1>2. CASE f \in Range(s)
  <2> DEFINE at == CHOOSE i \in 1 .. Len(s) : s[i] = f
  <2>1. at \in 1 .. Len(s)  BY <1>2, SMT DEF Range
  <2> HIDE DEF at
  <2>2. SubSeq(s, 1, at - 1) \in Seq(Managed)
    BY <2>1, SMT
  <2>3. SubSeq(s, at + 1, Len(s)) \in Seq(Managed)
    BY <2>1, SMT
  <2>4. RemoveAt(s, at) \in Seq(Managed)  BY <2>2, <2>3 DEF RemoveAt
  <2> QED  BY <1>2, <2>4 DEF Without, at
<1> QED  BY <1>1, <1>2

\* What the registry keeps, and what it expires, are managed names.
LEMMA RegisterTypes ==
  ASSUME NEW s \in Seq(Managed)
  PROVE  LastTwo(s) \in Seq(Managed) /\ Expired(s) \in Seq(Managed)
  BY SMT DEF LastTwo, Expired

-----------------------------------------------------------------------------
\* Type correctness, split by what an action disturbs.
DiskType ==
  /\ files \in [Names -> Checkpoint \cup {Absent, Partial}]
  /\ registry = Torn \/ registry \in Seq(Managed)
  /\ record \in [Outputs -> Records \cup {Absent, Torn}]
  /\ newest \in Checkpoint \cup {Absent, Partial}
LoopType ==
  /\ step \in Nat /\ stop \in Nat /\ reader \in Readers
  /\ used \in Seq(Patches) /\ chain \in Seq(Item) /\ last \in BOOLEAN
SessionType ==
  /\ pc \in Pcs /\ out \in Outputs /\ total \in Totals
  /\ source \in Managed \cup {<<>>}
  /\ guarded \in BOOLEAN /\ entries \in Seq(Managed)
  /\ sessions \in Nat /\ faults \in Nat /\ crashes \in Nat

\* The type invariant is the three parts.
LEMMA TypeParts == TypeOK <=> DiskType /\ LoopType /\ SessionType
  BY DEF TypeOK, DiskType, LoopType, SessionType

\* What a save writes is a checkpoint (bounded_checkpoint_save).
LEMMA StateType == ASSUME TypeOK PROVE State \in Checkpoint
  BY DEF TypeOK, State, Checkpoint

\* What a session writes to its record is a record.
LEMMA RecordType ==
  ASSUME TypeOK, NEW s \in Statuses, NEW p \in {"unset", "yes", "no"}
  PROVE  Record(s, p) \in Records
  BY DEF TypeOK, Record, Records

\* The chain after a step is a sequence of items.
LEMMA FedType == ASSUME TypeOK PROVE Fed \in Seq(Item)
<1>1. \A i \in 1 .. Len(used) :
        [step |-> step, entry |-> used[i], total |-> total] \in Item
  BY DEF TypeOK, Item
<1>2. Len(used) \in Nat  BY DEF TypeOK
<1>3. [i \in 1 .. Len(used) |->
         [step |-> step, entry |-> used[i], total |-> total]] \in Seq(Item)
  BY <1>1, <1>2, SMT
<1>4. chain \in Seq(Item)  BY DEF TypeOK
<1> QED  BY <1>3, <1>4, SMT DEF Fed

\* The locals of a session that begins or is over.
LEMMA ClearedType ==
  ASSUME NEW cap \in Nat, Cleared(cap)
  PROVE  LoopType' /\ guarded' \in BOOLEAN /\ entries' \in Seq(Managed)
<1>1. <<>> \in Seq(Patches) /\ <<>> \in Seq(Item) /\ <<>> \in Seq(Managed)
  BY SMT
<1>2. 0 \in Nat /\ FALSE \in BOOLEAN  OBVIOUS
<1> QED  BY <1>1, <1>2, NewReaderPos, Zenon DEF Cleared, LoopType

\* One file changes and the others stay.
LEMMA FilesUpdate ==
  ASSUME TypeOK, NEW f \in Names, NEW x \in Checkpoint \cup {Absent, Partial}
  PROVE  /\ [files EXCEPT ![f] = x]
              \in [Names -> Checkpoint \cup {Absent, Partial}]
         /\ [files EXCEPT ![f] = x][f] = x
         /\ \A g \in Names \ {f} : [files EXCEPT ![f] = x][g] = files[g]
  BY DEF TypeOK

\* A rename changes two files and the others stay.
LEMMA FilesUpdateTwo ==
  ASSUME TypeOK, NEW f \in Names, NEW x \in Checkpoint \cup {Absent, Partial},
         NEW g \in Names, NEW y \in Checkpoint \cup {Absent, Partial}, f # g
  PROVE  /\ [files EXCEPT ![f] = x, ![g] = y]
              \in [Names -> Checkpoint \cup {Absent, Partial}]
         /\ [files EXCEPT ![f] = x, ![g] = y][f] = x
         /\ [files EXCEPT ![f] = x, ![g] = y][g] = y
         /\ \A h \in Names \ {f, g} :
              [files EXCEPT ![f] = x, ![g] = y][h] = files[h]
  BY DEF TypeOK

\* The session writes its own record.
LEMMA RecordUpdate ==
  ASSUME TypeOK, NEW x \in Records \cup {Absent, Torn}
  PROVE  [record EXCEPT ![out] = x] \in [Outputs -> Records \cup {Absent, Torn}]
  BY DEF TypeOK

\* The types hold of an empty storage root.
LEMMA InitType == Init => TypeOK
<1>1. <<>> \in Seq(Patches) /\ <<>> \in Seq(Item) /\ <<>> \in Seq(Managed)
  BY SMT
<1> SUFFICES ASSUME Init PROVE TypeOK  OBVIOUS
<1>2. DiskType  BY <1>1 DEF Init, DiskType
<1>3. LoopType  BY <1>1, NewReaderPos DEF Init, LoopType
<1>4. SessionType  BY <1>1 DEF Init, SessionType, Pcs
<1> QED  BY <1>2, <1>3, <1>4, TypeParts

\* A call cut short leaves the disk well typed, torn files included.
LEMMA CutShortType ==
  TypeOK /\ CutShort => DiskType' /\ out' \in Outputs /\ total' \in Totals
                        /\ source' \in Managed \cup {<<>>} /\ sessions' \in Nat
<1> SUFFICES ASSUME TypeOK, CutShort
             PROVE  DiskType' /\ out' \in Outputs /\ total' \in Totals
                    /\ source' \in Managed \cup {<<>>} /\ sessions' \in Nat
  OBVIOUS
<1>1. Temp(out) \in Names  BY NamesDiffer DEF TypeOK
<1>2. out' \in Outputs /\ total' \in Totals /\ source' \in Managed \cup {<<>>}
      /\ sessions' \in Nat
  BY DEF CutShort, SameSession, TypeOK
<1>3. files' \in [Names -> Checkpoint \cup {Absent, Partial}]
  BY <1>1, FilesUpdate DEF CutShort, TypeOK, diskVars
<1>4. registry' = Torn \/ registry' \in Seq(Managed)
  BY DEF CutShort, TypeOK, diskVars
<1>5. record' \in [Outputs -> Records \cup {Absent, Torn}]
  BY RecordUpdate DEF CutShort, TypeOK, diskVars
<1>6. newest' \in Checkpoint \cup {Absent, Partial}  BY DEF CutShort, TypeOK
<1> QED  BY <1>2, <1>3, <1>4, <1>5, <1>6 DEF DiskType

\* A session begins with some total and some cap, whatever it is for.
Launched ==
  \E o \in Outputs, t \in Totals, cap \in Nat, f \in Managed \cup {<<>>} :
    Launch(o, t, cap, f)

\* A planned session and a measurement both begin so.
LEMMA BeginIsLaunched ==
  /\ \A o \in Outputs, p \in Plans, f \in Managed \cup {<<>>} :
       Start(o, p, f) => Launched
  /\ \A o \in Outputs, n \in Measures : Measure(o, n) => Launched
<1>1. ASSUME NEW o \in Outputs, NEW p \in Plans,
             NEW f \in Managed \cup {<<>>}, Start(o, p, f)
      PROVE  Launched
  BY <1>1, PlanType DEF Start, Launched
<1>2. ASSUME NEW o \in Outputs, NEW n \in Measures, Measure(o, n)
      PROVE  Launched
  <2>1. n \in Totals /\ n \in Nat  BY PlanAssumption DEF Totals
  <2> QED  BY <1>2, <2>1 DEF Measure, Launched
<1> QED  BY <1>1, <1>2

\* Every step of a session keeps the types.
LEMMA SessionKeepsType == TypeOK /\ Session => TypeOK'
<1> SUFFICES ASSUME TypeOK, Session PROVE TypeOK'  OBVIOUS
<1> USE DEF Goto, SameStore, SameCounts, SameSession, diskVars, loopVars
<1>0. DiskType /\ LoopType /\ SessionType  BY TypeParts
<1>a. /\ Own(out) \in Names /\ Previous(out) \in Names /\ Temp(out) \in Names
      /\ Own(out) \in Managed /\ Previous(out) \in Managed
      /\ Own(out) # Previous(out) /\ Own(out) # Temp(out)
      /\ <<>> \notin Managed
  BY <1>0, NamesDiffer DEF SessionType
<1>b. State \in Checkpoint  BY StateType
<1>c. <<>> \in Seq(Patches) /\ <<>> \in Seq(Item) /\ <<>> \in Seq(Managed)
  BY SMT
<1>d. Managed \subseteq Names  BY ManagedAreNames
<1>e. step + 1 \in Nat  BY <1>0, SMT DEF LoopType
<1>t. total \in Nat /\ stop \in Nat  BY <1>0, TotalsType DEF SessionType, LoopType
<1>1. CASE Open
  <2>1. Record("started", "unset") \in Records  BY RecordType DEF Statuses
  <2>2. DiskType'  BY <1>0, <1>1, <2>1, RecordUpdate DEF Open, DiskType
  <2>3. LoopType' /\ SessionType'
    BY <1>0, <1>1 DEF Open, LoopType, SessionType, Pcs
  <2> QED  BY <2>2, <2>3, TypeParts DEF TypeOK, DiskType, LoopType, SessionType
<1>2. CASE \E proof \in BOOLEAN : Verify(proof)
  <2> PICK proof \in BOOLEAN : Verify(proof)  BY <1>2
  <2>1. Record("started", IF proof THEN "yes" ELSE "no") \in Records
    BY RecordType DEF Statuses
  <2>2. DiskType'  BY <1>0, <2>1, RecordUpdate DEF Verify, DiskType
  <2>3. LoopType' /\ SessionType'
    BY <1>0 DEF Verify, LoopType, SessionType, Pcs
  <2> QED  BY <2>2, <2>3 DEF TypeOK, DiskType, LoopType, SessionType
<1>3. CASE Load
  <2>1. DiskType' /\ SessionType'
    BY <1>0, <1>3 DEF Load, DiskType, SessionType, Pcs
  <2>2. CASE ResumeState = <<>>
    <3>1. stop' \in Nat
      BY <1>3, <1>t, <2>2 DEF Load, LowerOf
    <3> QED  BY <1>0, <1>3, <2>1, <2>2, <3>1
             DEF Load, LoopType, TypeOK, DiskType, SessionType
  <2>3. CASE ResumeState # <<>> /\ Resumable(ResumeState)
    <3>1. ResumeState \in Names
      BY <1>0, <1>a, <1>d, <2>3 DEF ResumeState, SessionType
    <3>2. files[ResumeState] \in Checkpoint
      BY <1>0, <2>3, <3>1 DEF Resumable, Whole, DiskType
    <3>3. PICK ckpt \in Checkpoint : ckpt = files[ResumeState]  BY <3>2
    <3>4. ckpt.step \in Nat /\ ckpt.chain \in Seq(Item) /\ ckpt.reader \in Readers
      BY DEF Checkpoint
    <3>5. step' = ckpt.step /\ chain' = ckpt.chain /\ reader' = ckpt.reader
          /\ stop' = LowerOf(total, ckpt.step + stop)
          /\ used' = used /\ last' = last
      BY <1>3, <2>3, <3>3 DEF Load, Restored
    <3>6. stop' \in Nat
      BY <1>t, <3>4, <3>5, SMT DEF LowerOf
    <3> QED  BY <1>0, <2>1, <3>4, <3>5, <3>6
             DEF LoopType, TypeOK, DiskType, SessionType
  <2>4. CASE ResumeState # <<>> /\ ~Resumable(ResumeState)
    BY <1>0, <1>3, <2>1, <2>4
    DEF Load, LoopType, TypeOK, DiskType, SessionType
  <2> QED  BY <2>2, <2>3, <2>4
<1>4. CASE Draw
  <2>1. NextEntry(reader) \in Patches /\ AfterNext(reader) \in Readers
    BY <1>0, <1>4, ReaderFollowsStream DEF Draw, LoopType
  <2>2. Append(used, NextEntry(reader)) \in Seq(Patches)
    BY <1>0, <2>1, SMT DEF LoopType
  <2>3. LoopType' BY <1>0, <1>4, <2>1, <2>2 DEF Draw, LoopType
  <2>4. DiskType' /\ SessionType'
    BY <1>0, <1>4 DEF Draw, DiskType, SessionType
  <2> QED  BY <2>3, <2>4 DEF TypeOK, DiskType, LoopType, SessionType
<1>5. CASE Train
  <2>1. Fed \in Seq(Item)  BY FedType
  <2>2. Record("running", "yes") \in Records  BY RecordType DEF Statuses
  <2>3. [Record("running", "yes") EXCEPT !.chain = Fed] \in Records
    BY <2>1, <2>2 DEF Records
  <2>4. DiskType'  BY <1>0, <1>5, <2>3, RecordUpdate DEF Train, DiskType
  <2>5. LoopType'  BY <1>0, <1>5, <1>c, <1>e, <2>1 DEF Train, LoopType
  <2>6. SessionType'  BY <1>0, <1>5 DEF Train, SessionType, Pcs
  <2> QED  BY <2>4, <2>5, <2>6 DEF TypeOK, DiskType, LoopType, SessionType
<1>6. CASE SaveDue \/ Guard
  <2>1. SaveFrom(FALSE) \/ SaveFrom(TRUE)  BY <1>6 DEF SaveDue, Guard
  <2>2. DiskType' /\ LoopType'
    BY <1>0, <2>1 DEF SaveFrom, DiskType, LoopType
  <2>3. entries' \in Seq(Managed) /\ pc' \in Pcs /\ guarded' \in BOOLEAN
    BY <1>0, <2>1 DEF SaveFrom, Refused, DiskType, SessionType, Pcs
  <2>4. SessionType'  BY <1>0, <2>1, <2>3 DEF SaveFrom, SessionType
  <2> QED  BY <2>2, <2>4 DEF TypeOK, DiskType, LoopType, SessionType
<1>7. CASE NoSaveDue \/ OnTime
  <2>1. DiskType' /\ LoopType'
    BY <1>0, <1>7 DEF NoSaveDue, OnTime, DiskType, LoopType
  <2>2. SessionType'  BY <1>0, <1>7 DEF NoSaveDue, OnTime, SessionType, Pcs
  <2> QED  BY <2>1, <2>2 DEF TypeOK, DiskType, LoopType, SessionType
<1>8. CASE WriteTemp
  <2>1. files' \in [Names -> Checkpoint \cup {Absent, Partial}]
    BY <1>8, <1>a, <1>b, FilesUpdate DEF WriteTemp
  <2>2. DiskType'  BY <1>0, <1>8, <2>1 DEF WriteTemp, SaveStep, DiskType
  <2>3. LoopType' /\ SessionType'
    BY <1>0, <1>8 DEF WriteTemp, SaveStep, LoopType, SessionType, Pcs
  <2> QED  BY <2>2, <2>3 DEF TypeOK, DiskType, LoopType, SessionType
<1>9. CASE KeepPrevious
  <2>1. files' \in [Names -> Checkpoint \cup {Absent, Partial}]
    <3>1. files[Own(out)] \in Checkpoint \cup {Absent, Partial}
      BY <1>0, <1>a DEF DiskType
    <3> QED  BY <1>0, <1>9, <1>a, <3>1, FilesUpdateTwo
             DEF KeepPrevious, DiskType
  <2>2. DiskType'
    BY <1>0, <1>9, <2>1 DEF KeepPrevious, SaveStep, DiskType
  <2>3. LoopType'
    BY <1>0, <1>9 DEF KeepPrevious, SaveStep, LoopType
  <2>4. entries' \in Seq(Managed)
    <3>1. Without(Without(entries, Own(out)), Previous(out)) \in Seq(Managed)
      BY <1>0, WithoutType DEF SessionType
    <3>2. Append(Without(Without(entries, Own(out)), Previous(out)),
                 Previous(out)) \in Seq(Managed)
      BY <1>a, <3>1, SMT
    <3> QED  BY <1>0, <1>9, <3>2 DEF KeepPrevious, SessionType
  <2>5. SessionType'
    BY <1>0, <1>9, <2>4 DEF KeepPrevious, SaveStep, SessionType, Pcs
  <2> QED  BY <2>2, <2>3, <2>5 DEF TypeOK, DiskType, LoopType, SessionType
<1>10. CASE Publish
  <2>1. files[Temp(out)] \in Checkpoint \cup {Absent, Partial}
    BY <1>0, <1>a DEF DiskType
  <2>2. files' \in [Names -> Checkpoint \cup {Absent, Partial}]
    BY <1>0, <1>10, <1>a, <2>1, FilesUpdateTwo DEF Publish, DiskType
  <2>3. DiskType'
    BY <1>0, <1>10, <2>1, <2>2 DEF Publish, SaveStep, DiskType
  <2>4. Without(entries, Own(out)) \in Seq(Managed)
    BY <1>0, WithoutType DEF SessionType
  <2>5. Append(Without(entries, Own(out)), Own(out)) \in Seq(Managed)
    BY <1>a, <2>4, SMT
  <2>6. LoopType'  BY <1>0, <1>10 DEF Publish, SaveStep, LoopType
  <2>7. SessionType'
    BY <1>0, <1>10, <2>5 DEF Publish, SaveStep, SessionType, Pcs
  <2> QED  BY <2>3, <2>6, <2>7 DEF TypeOK, DiskType, LoopType, SessionType
<1>11. CASE Register
  <2>1. LastTwo(entries) \in Seq(Managed) /\ Expired(entries) \in Seq(Managed)
    BY <1>0, RegisterTypes DEF SessionType
  <2>2. DiskType' /\ LoopType'
    BY <1>0, <1>11, <2>1 DEF Register, SaveStep, DiskType, LoopType
  <2>3. SessionType'
    BY <1>0, <1>11, <2>1 DEF Register, SaveStep, SessionType, Pcs
  <2> QED  BY <2>2, <2>3 DEF TypeOK, DiskType, LoopType, SessionType
<1>12. CASE Expire
  <2>1. Head(entries) \in Managed /\ Tail(entries) \in Seq(Managed)
    BY <1>0, <1>12, SMT DEF Expire, SessionType
  <2>2. files' \in [Names -> Checkpoint \cup {Absent, Partial}]
    BY <1>12, <1>d, <2>1, FilesUpdate DEF Expire
  <2>3. DiskType' /\ LoopType'
    BY <1>0, <1>12, <2>2 DEF Expire, SaveStep, DiskType, LoopType
  <2>4. SessionType'
    BY <1>0, <1>12, <2>1 DEF Expire, SaveStep, SessionType, Pcs
  <2> QED  BY <2>3, <2>4 DEF TypeOK, DiskType, LoopType, SessionType
<1>13. CASE Return
  <2>1. DiskType' /\ LoopType' /\ SessionType'
    BY <1>0, <1>13
    DEF Return, SaveStep, DiskType, LoopType, SessionType, Pcs
  <2> QED  BY <2>1 DEF TypeOK, DiskType, LoopType, SessionType
<1>14. CASE Saved
  <2>1. Record("running", "yes") \in Records  BY RecordType DEF Statuses
  <2>2. [Record("running", "yes") EXCEPT !.last = TRUE] \in Records
    BY <2>1 DEF Records
  <2>3. DiskType'  BY <1>0, <1>14, <2>2, RecordUpdate DEF Saved, DiskType
  <2>4. LoopType' /\ SessionType'
    BY <1>0, <1>14 DEF Saved, LoopType, SessionType, Pcs
  <2> QED  BY <2>3, <2>4 DEF TypeOK, DiskType, LoopType, SessionType
<1>15. CASE GuardExit \/ Finish \/ Fail
  <2>1. /\ Record("guard", "yes") \in Records
        /\ Record("completed", "yes") \in Records
        /\ Record("failed", "no") \in Records
    BY RecordType DEF Statuses
  <2>2. [Record("guard", "yes") EXCEPT !.last = TRUE] \in Records
    BY <2>1 DEF Records
  <2>3. PICK final \in Records : End(final)
    BY <1>15, <2>1, <2>2 DEF GuardExit, Finish, Fail
  <2>4. DiskType'  BY <1>0, <2>3, RecordUpdate DEF End, DiskType
  <2>5. LoopType' /\ guarded' \in BOOLEAN /\ entries' \in Seq(Managed)
    BY <2>3, ClearedType DEF End
  <2>6. SessionType'  BY <1>0, <2>3, <2>5 DEF End, SessionType, Pcs
  <2> QED  BY <2>4, <2>5, <2>6 DEF TypeOK, DiskType, LoopType, SessionType
<1> QED  BY <1>1, <1>2, <1>3, <1>4, <1>5, <1>6, <1>7, <1>8, <1>9, <1>10,
            <1>11, <1>12, <1>13, <1>14, <1>15
         DEF Session

\* The beginning of a session, and what cuts one short, keep the types.
LEMMA OutsideKeepsType ==
  ASSUME TypeOK,
         \/ Launched
         \/ Raise \/ Crash
  PROVE  TypeOK'
<1>0. DiskType /\ LoopType /\ SessionType  BY TypeParts
<1>1. ASSUME NEW o \in Outputs, NEW t \in Totals, NEW cap \in Nat,
             NEW f \in Managed \cup {<<>>}, Launch(o, t, cap, f)
      PROVE  TypeOK'
  <2>1. LoopType' /\ guarded' \in BOOLEAN /\ entries' \in Seq(Managed)
    BY <1>1, ClearedType DEF Launch
  <2>2. DiskType'  BY <1>0, <1>1 DEF Launch, DiskType, diskVars
  <2>3. sessions' \in Nat /\ faults' \in Nat /\ crashes' \in Nat
    BY <1>0, <1>1, SMT DEF Launch, SessionType
  <2>4. SessionType'
    BY <1>0, <1>1, <2>1, <2>3 DEF Launch, SessionType, Pcs, Goto
  <2> QED  BY <2>1, <2>2, <2>4 DEF TypeOK, DiskType, LoopType, SessionType
<1>2. ASSUME Raise \/ Crash PROVE TypeOK'
  <2>1. DiskType' /\ out' \in Outputs /\ total' \in Totals
        /\ source' \in Managed \cup {<<>>} /\ sessions' \in Nat
    BY <1>2, CutShortType DEF Raise, Crash
  <2>2. LoopType' /\ guarded' \in BOOLEAN /\ entries' \in Seq(Managed)
    <3>1. Cleared(0) \/ UNCHANGED <<loopVars, guarded, entries>>
      BY <1>2 DEF Raise, Crash
    <3> QED  BY <1>0, <3>1, ClearedType DEF loopVars, LoopType, SessionType
  <2>3. faults' \in Nat /\ crashes' \in Nat
    BY <1>0, <1>2, SMT DEF Raise, Crash, SessionType
  <2>4. pc' \in Pcs  BY <1>2 DEF Raise, Crash, Goto, Pcs
  <2> QED  BY <2>1, <2>2, <2>3, <2>4 DEF TypeOK, DiskType, LoopType
<1> QED  BY <1>1, <1>2 DEF Launched

\* Type correctness of the sessions, whatever raises or crashes.
THEOREM TypeCorrect == Spec => []TypeOK
<1>1. TypeOK /\ [Next]_vars => TypeOK'
  <2> SUFFICES ASSUME TypeOK, [Next]_vars PROVE TypeOK'  OBVIOUS
  <2>1. CASE Next
    BY <2>1, BeginIsLaunched, SessionKeepsType, OutsideKeepsType DEF Next
  <2>2. CASE UNCHANGED vars
    BY <2>2 DEF vars, diskVars, loopVars, TypeOK
  <2> QED  BY <2>1, <2>2
<1> QED  BY InitType, <1>1, PTL DEF Spec

-----------------------------------------------------------------------------
\* What a session has trained on, and a checkpoint of it.
GoodState(c) ==
  /\ c.chain = Undisturbed(c.step, c.total)
  /\ Pos(c.reader) = c.step * Accum
SessionInv ==
  /\ chain = Undisturbed(step, total)
  /\ Pos(reader) = step * Accum + Len(used)
  /\ Len(used) <= Accum
  /\ \A i \in 1 .. Len(used) : used[i] = Reference(step * Accum + i - 1)
  /\ used # <<>> => pc \in {"loop", "failing"}
FilesInv ==
  /\ \A f \in Names : Whole(f) => GoodState(files[f])
  /\ \A f \in Managed : files[f] # Partial
  /\ pc \in {"previous", "publish"} => Whole(Temp(out))
SequenceInv == SessionInv /\ FilesInv

\* No step has been made, no sample used.
LEMMA UndisturbedStart == ASSUME NEW t PROVE Undisturbed(0, t) = <<>>
<1>1. 0 * Accum = 0  BY Constants
<1>2. 1 .. 0 = {}  BY SMT
<1> QED  BY <1>1, <1>2, SMT DEF Undisturbed

\* A sequence h cut in two, after its first n elements, into f and g.
CutsInto(S, n, m, f, g, h) ==
  /\ n \in Nat /\ m \in Nat
  /\ f \in [1 .. n -> S] /\ g \in [1 .. m -> S] /\ h \in [1 .. n + m -> S]
  /\ \A i \in 1 .. n : h[i] = f[i]
  /\ \A i \in 1 .. m : h[n + i] = g[i]

\* A sequence is its first n items followed by the m after them.
LEMMA CutSequence ==
  ASSUME NEW S, NEW n, NEW m, NEW f, NEW g, NEW h, CutsInto(S, n, m, f, g, h)
  PROVE  f \o g = h
<1> USE DEF CutsInto
<1>1. /\ f \in Seq(S) /\ Len(f) = n /\ g \in Seq(S) /\ Len(g) = m
      /\ h \in Seq(S) /\ Len(h) = n + m
  BY SMT
<1>2. /\ f \o g \in Seq(S) /\ Len(f \o g) = n + m
      /\ \A i \in 1 .. n + m :
           (f \o g)[i] = IF i <= n THEN f[i] ELSE g[i - n]
  BY <1>1, ConcatProperties
<1>3. \A i \in 1 .. n + m : (f \o g)[i] = h[i]
  <2> TAKE i \in 1 .. n + m
  <2>1. CASE i <= n  BY <1>2, <2>1, SMT
  <2>2. CASE ~(i <= n)
    <3>1. (f \o g)[i] = g[i - n]  BY <1>2, <2>2
    <3>2. i - n \in 1 .. m /\ n + (i - n) = i  BY <2>2, SMT
    <3>3. h[n + (i - n)] = g[i - n]  BY <3>2
    <3> QED  BY <3>1, <3>2, <3>3
  <2> QED  BY <2>1, <2>2
<1> QED  BY <1>1, <1>2, <1>3, SeqEqual

\* One more step of an undisturbed run uses the next Accum samples.
LEMMA UndisturbedNext ==
  ASSUME NEW s \in Nat, NEW t, NEW u \in Seq(Patches), Len(u) = Accum,
         \A i \in 1 .. Accum : u[i] = Reference(s * Accum + i - 1)
  PROVE  Undisturbed(s, t) \o
           [i \in 1 .. Len(u) |-> [step |-> s, entry |-> u[i], total |-> t]]
         = Undisturbed(s + 1, t)
<1> DEFINE n == s * Accum
           e(i) == [step |-> (i - 1) \div Accum, entry |-> Reference(i - 1),
                    total |-> t]
           f == [i \in 1 .. n |-> e(i)]
           g == [i \in 1 .. Accum |->
                   [step |-> s, entry |-> u[i], total |-> t]]
           h == [i \in 1 .. n + Accum |-> e(i)]
           S == {e(i) : i \in 1 .. n + Accum}
<1>1. n \in Nat /\ (s + 1) * Accum = n + Accum /\ Accum \in Nat \ {0}
  BY NextMultiple, Constants
<1>2. ASSUME NEW i \in 1 .. Accum
      PROVE  e(n + i) = [step |-> s, entry |-> u[i], total |-> t]
  <2>1. n + i \in 1 .. (s + 1) * Accum /\ n + i > s * Accum
    BY <1>1, SMT
  <2>2. ((n + i) - 1) \div Accum = s
    BY <1>1, <2>1, SplitIndex
  <2>3. u[i] = Reference(n + i - 1)  OBVIOUS
  <2> QED  BY <2>2, <2>3
<1>3. f = Undisturbed(s, t) /\ h = Undisturbed(s + 1, t)
  BY <1>1 DEF Undisturbed
<1> HIDE DEF n
<1>4. f \in [1 .. n -> S] /\ h \in [1 .. n + Accum -> S]
  BY <1>1, SMT
<1>5. g \in [1 .. Accum -> S]
  <2> SUFFICES ASSUME NEW i \in 1 .. Accum PROVE g[i] \in S  OBVIOUS
  <2>1. n + i \in 1 .. n + Accum  BY <1>1, SMT
  <2> QED  BY <1>2, <2>1
<1>6. \A i \in 1 .. n : h[i] = f[i]  BY <1>1, SMT
<1>7. \A i \in 1 .. Accum : h[n + i] = g[i]
  <2> TAKE i \in 1 .. Accum
  <2>1. n + i \in 1 .. n + Accum  BY <1>1, SMT
  <2> QED  BY <1>2, <2>1
<1>8. f \o g = h
  <2>1. CutsInto(S, n, Accum, f, g, h)
    BY <1>1, <1>4, <1>5, <1>6, <1>7, Zenon DEF CutsInto
  <2> HIDE DEF f, g, h, S
  <2> QED  BY <2>1, CutSequence
<1> QED  BY <1>3, <1>8

\* The invariant holds of an empty storage root.
LEMMA InitSequence == Init => SequenceInv
<1> SUFFICES ASSUME Init PROVE SequenceInv  OBVIOUS
<1>1. /\ step = 0 /\ used = <<>> /\ chain = <<>> /\ reader = NewReader
      /\ pc = "idle" /\ files = [f \in Names |-> Absent]
  BY DEF Init
<1>2. Len(used) = 0 /\ 0 * Accum = 0  BY <1>1, Constants, SMT
<1>3. SessionInv
  <2>1. chain = Undisturbed(step, total)  BY <1>1, UndisturbedStart
  <2>2. Pos(reader) = step * Accum + Len(used) /\ Len(used) <= Accum
    BY <1>1, <1>2, NewReaderPos, Constants, SMT
  <2>3. \A i \in 1 .. Len(used) : used[i] = Reference(step * Accum + i - 1)
    BY <1>2, SMT
  <2> QED  BY <1>1, <2>1, <2>2, <2>3 DEF SessionInv
<1>4. \A f \in Names : files[f] = Absent  BY <1>1
<1>5. FilesInv  BY <1>1, <1>4, ManagedAreNames, Constants DEF FilesInv, Whole
<1> QED  BY <1>3, <1>5 DEF SequenceInv

\* A cleared session has trained on nothing.
LEMMA ClearedInv == ASSUME TypeOK, NEW cap \in Nat, Cleared(cap) PROVE SessionInv'
<1>1. /\ step' = 0 /\ used' = <<>> /\ chain' = <<>> /\ reader' = NewReader
  BY DEF Cleared
<1>2. Len(used') = 0 /\ 0 * Accum = 0  BY <1>1, Constants, SMT
<1> QED  BY <1>1, <1>2, UndisturbedStart, NewReaderPos, Constants, SMT
         DEF SessionInv

\* The state a save writes is a good one.
LEMMA StateIsGood ==
  ASSUME TypeOK, SessionInv, used = <<>>
  PROVE  GoodState(State)
<1>1. Len(used) = 0  BY SMT
<1>2. Pos(reader) = step * Accum
  <2>1. step * Accum \in Nat  BY NextMultiple, Constants DEF TypeOK
  <2> QED  BY <1>1, <2>1, SMT DEF SessionInv
<1> QED  BY <1>2 DEF GoodState, State, SessionInv, Pos

\* Of a partial or an absent file nothing is claimed.
LEMMA NotWhole ==
  ASSUME NEW f, files'[f] \in {Absent, Partial} PROVE ~Whole(f)'
  BY DEF Whole

\* A step that leaves the session's samples and its files alone.
LEMMA SequenceStays ==
  ASSUME SequenceInv, UNCHANGED <<step, total, reader, used, chain, files, out>>,
         used # <<>> => pc' \in {"loop", "failing"},
         pc' \in {"previous", "publish"} => Whole(Temp(out))
  PROVE  SequenceInv'
<1>1. SessionInv'  BY DEF SequenceInv, SessionInv
<1>2. FilesInv'  BY DEF SequenceInv, FilesInv, Whole
<1> QED  BY <1>1, <1>2 DEF SequenceInv

\* Every step of a session keeps the two invariants.
LEMMA SessionKeepsSequence == TypeOK /\ SequenceInv /\ Session => SequenceInv'
<1> SUFFICES ASSUME TypeOK, SequenceInv, Session PROVE SequenceInv'  OBVIOUS
<1> USE DEF Goto, SameStore, SameCounts, SameSession, diskVars, loopVars
<1>0. DiskType /\ LoopType /\ SessionType /\ SessionInv /\ FilesInv
  BY TypeParts DEF SequenceInv
<1>a. /\ Own(out) \in Names /\ Previous(out) \in Names /\ Temp(out) \in Names
      /\ Own(out) \in Managed /\ Previous(out) \in Managed
      /\ Temp(out) \notin Managed
      /\ Own(out) # Previous(out) /\ Own(out) # Temp(out)
      /\ Previous(out) # Temp(out) /\ <<>> \notin Managed
  BY <1>0, NamesDiffer DEF SessionType
<1>b. Managed \subseteq Names  BY ManagedAreNames
<1>c. Absent # Partial  BY Constants
<1>1. CASE Open \/ NoSaveDue \/ OnTime \/ SaveDue \/ Guard
  <2>1. /\ UNCHANGED <<step, total, reader, used, chain, files, out>>
        /\ pc' \in {"verify", "clock", "loop", "write", "failing"}
        /\ pc \in {"open", "trained", "clock"}
    BY <1>1 DEF Open, NoSaveDue, OnTime, SaveDue, Guard, SaveFrom
  <2>2. used = <<>>  BY <1>0, <2>1 DEF SessionInv
  <2> QED  BY <2>1, <2>2, SequenceStays
<1>2. CASE (\E proof \in BOOLEAN : Verify(proof)) \/ Register \/ Return \/ Saved
  <2>1. /\ UNCHANGED <<step, total, reader, used, chain, files, out>>
        /\ pc' \in {"load", "failing", "expire", "saved", "clock"}
        /\ pc \in {"verify", "register", "expire", "saved"}
    BY <1>2 DEF Verify, Register, Return, Saved, SaveStep
  <2>2. used = <<>>  BY <1>0, <2>1 DEF SessionInv
  <2> QED  BY <2>1, <2>2, SequenceStays
<1>3. CASE Load
  <2>1. UNCHANGED <<files, used, total, out>> /\ pc' \in {"loop", "failing"}
        /\ pc = "load"
    BY <1>3 DEF Load
  <2>2. used = <<>> /\ Len(used) = 0  BY <1>0, <2>1, SMT DEF SessionInv
  <2>3. FilesInv'  BY <1>0, <2>1 DEF FilesInv, Whole
  <2>4. CASE UNCHANGED <<step, chain, reader>>
    BY <2>1, <2>4, SequenceStays
  <2>5. CASE ResumeState # <<>> /\ Resumable(ResumeState)
             /\ Restored(files[ResumeState])
    <3>1. ResumeState \in Names
      BY <1>0, <1>a, <1>b, <2>5 DEF ResumeState, SessionType
    <3>2. GoodState(files[ResumeState]) /\ files[ResumeState].total = total
      BY <1>0, <2>5, <3>1 DEF FilesInv, Resumable
    <3>3. chain' = Undisturbed(step', total')
      BY <2>1, <2>5, <3>2 DEF Restored, GoodState
    <3>4. Pos(reader') = step' * Accum
      BY <2>1, <2>5, <3>2 DEF Restored, GoodState
    <3>5. files[ResumeState] \in Checkpoint
      BY <1>0, <2>5, <3>1 DEF DiskType, Resumable, Whole
    <3>6. step' \in Nat  BY <2>5, <3>5 DEF Restored, Checkpoint
    <3>7. Pos(reader') = step' * Accum + Len(used')
      BY <2>1, <2>2, <3>4, <3>6, NextMultiple, Constants, SMT
    <3>8. Len(used') <= Accum  BY <2>1, <2>2, Constants, SMT
    <3>9. \A i \in 1 .. Len(used') :
            used'[i] = Reference(step' * Accum + i - 1)
      BY <2>1, <2>2, SMT
    <3>10. SessionInv'
      BY <2>1, <2>2, <3>3, <3>7, <3>8, <3>9 DEF SessionInv, Pos
    <3> QED  BY <2>3, <3>10 DEF SequenceInv
  <2> QED  BY <1>3, <2>4, <2>5 DEF Load
<1>4. CASE Draw
  <2>1. /\ UNCHANGED <<files, step, total, chain, out, pc>> /\ pc = "loop"
        /\ used' = Append(used, NextEntry(reader))
        /\ reader' = AfterNext(reader) /\ Len(used) < Accum
    BY <1>4 DEF Draw
  <2>2. /\ NextEntry(reader) = Reference(Pos(reader))
        /\ NextEntry(reader) \in Patches
        /\ Pos(AfterNext(reader)) = Pos(reader) + 1
    BY <1>0, <1>4, ReaderFollowsStream DEF Draw, LoopType
  <2>3. step * Accum \in Nat  BY <1>0, NextMultiple, Constants DEF LoopType
  <2>4. /\ Len(used) \in Nat /\ Len(used') = Len(used) + 1
        /\ used'[Len(used) + 1] = NextEntry(reader)
        /\ \A i \in 1 .. Len(used) : used'[i] = used[i]
    BY <1>0, <2>1, <2>2, SMT DEF LoopType
  <2>5. Pos(reader') = step' * Accum + Len(used')
    <3>1. Pos(reader) = step * Accum + Len(used)  BY <1>0 DEF SessionInv
    <3>2. Pos(AfterNext(reader)) = step * Accum + (Len(used) + 1)
      BY <2>2, <2>3, <2>4, <3>1, SMT
    <3> QED  BY <2>1, <2>4, <3>2
  <2>6. Len(used') <= Accum  BY <2>1, <2>4, Constants, SMT
  <2>7. \A i \in 1 .. Len(used') : used'[i] = Reference(step' * Accum + i - 1)
    <3> TAKE i \in 1 .. Len(used')
    <3>1. CASE i \in 1 .. Len(used)
      BY <1>0, <2>1, <2>4, <3>1 DEF SessionInv
    <3>2. CASE i \notin 1 .. Len(used)
      <4>1. i = Len(used) + 1  BY <2>4, <3>2, SMT
      <4>2. Pos(reader) = step * Accum + i - 1
        BY <1>0, <2>3, <2>4, <4>1, SMT DEF SessionInv
      <4> QED  BY <2>1, <2>2, <2>4, <4>1, <4>2
    <3> QED  BY <3>1, <3>2
  <2>8. SessionInv'
    BY <1>0, <2>1, <2>5, <2>6, <2>7 DEF SessionInv, Pos
  <2>9. FilesInv'  BY <1>0, <2>1 DEF FilesInv, Whole
  <2> QED  BY <2>8, <2>9 DEF SequenceInv
<1>5. CASE Train
  <2>1. /\ UNCHANGED <<files, total, reader, out>> /\ pc' = "trained"
        /\ chain' = Fed /\ used' = <<>> /\ step' = step + 1
        /\ Len(used) = Accum
    BY <1>5 DEF Train
  <2>2. step \in Nat /\ used \in Seq(Patches)  BY <1>0 DEF LoopType
  <2>3. \A i \in 1 .. Accum : used[i] = Reference(step * Accum + i - 1)
    BY <1>0, <2>1 DEF SessionInv
  <2>4. Undisturbed(step, total) \o
          [i \in 1 .. Len(used) |->
             [step |-> step, entry |-> used[i], total |-> total]]
        = Undisturbed(step + 1, total)
    BY <2>1, <2>2, <2>3, UndisturbedNext
  <2>5. chain' = Undisturbed(step', total')
    BY <1>0, <2>1, <2>4 DEF SessionInv, Fed
  <2>6. Len(used') = 0  BY <2>1, SMT
  <2>7. Pos(reader') = step' * Accum + Len(used')
    <3>1. Pos(reader) = step * Accum + Accum  BY <1>0, <2>1 DEF SessionInv
    <3>2. (step + 1) * Accum = step * Accum + Accum /\ (step + 1) * Accum \in Nat
      BY <2>2, NextMultiple, Constants, SMT
    <3> QED  BY <2>1, <2>6, <3>1, <3>2, SMT
  <2>8. Len(used') <= Accum  BY <2>6, Constants, SMT
  <2>9. \A i \in 1 .. Len(used') : used'[i] = Reference(step' * Accum + i - 1)
    BY <2>6, SMT
  <2>10. SessionInv'  BY <2>1, <2>5, <2>7, <2>8, <2>9 DEF SessionInv, Pos
  <2>11. FilesInv'  BY <1>0, <2>1 DEF FilesInv, Whole
  <2> QED  BY <2>10, <2>11 DEF SequenceInv
<1>6. CASE WriteTemp \/ KeepPrevious \/ Publish \/ Expire
  <2>1. UNCHANGED <<step, total, reader, used, chain, out>>
        /\ pc \in {"write", "previous", "publish", "expire"}
    BY <1>6 DEF WriteTemp, KeepPrevious, Publish, Expire, SaveStep
  <2>2. used = <<>>  BY <1>0, <2>1 DEF SessionInv
  <2>3. SessionInv'  BY <1>0, <2>1, <2>2 DEF SessionInv, Pos
  <2>4. FilesInv'
    <3>1. CASE WriteTemp
      <4>1. GoodState(State) /\ State \in Checkpoint
        BY <1>0, <2>2, StateIsGood, StateType
      <4>2. files'[Temp(out)] = State
            /\ \A g \in Names \ {Temp(out)} : files'[g] = files[g]
        BY <3>1, <4>1, <1>a, FilesUpdate DEF WriteTemp
      <4>3. \A f \in Names : Whole(f)' => GoodState(files'[f])
        BY <1>0, <4>1, <4>2 DEF FilesInv, Whole
      <4>4. \A f \in Managed : files'[f] # Partial
        BY <1>0, <1>a, <1>b, <4>2 DEF FilesInv
      <4>5. Whole(Temp(out))'
        BY <2>1, <4>1, <4>2, Constants DEF Whole, Temp
      <4> QED  BY <2>1, <4>3, <4>4, <4>5 DEF FilesInv, GoodState, Pos
    <3>2. CASE KeepPrevious
      <4>1. CASE UNCHANGED files
        <5>1. pc' \in {"publish", "failing"} /\ pc = "previous"
          BY <3>2 DEF KeepPrevious, SaveStep
        <5> QED  BY <1>0, <2>1, <4>1, <5>1 DEF FilesInv, Whole
      <4>2. CASE files' = [files EXCEPT ![Previous(out)] = files[Own(out)],
                                        ![Own(out)] = Absent]
        <5>1. files[Own(out)] \in Checkpoint \cup {Absent, Partial}
          BY <1>0, <1>a DEF DiskType
        <5>2. /\ files'[Previous(out)] = files[Own(out)]
              /\ files'[Own(out)] = Absent
              /\ \A g \in Names \ {Previous(out), Own(out)} :
                   files'[g] = files[g]
          <6>1. LET u == [files EXCEPT ![Previous(out)] = files[Own(out)],
                                       ![Own(out)] = Absent]
                IN  /\ u[Previous(out)] = files[Own(out)] /\ u[Own(out)] = Absent
                    /\ \A g \in Names \ {Previous(out), Own(out)} :
                         u[g] = files[g]
            BY <1>0, <1>a, SMT DEF DiskType
          <6> QED  BY <4>2, <6>1
        <5>3. \A f \in Names : Whole(f)' => GoodState(files'[f])
          BY <1>0, <1>a, <5>2 DEF FilesInv, Whole
        <5>4. \A f \in Managed : files'[f] # Partial
          BY <1>0, <1>a, <1>b, <1>c, <5>2 DEF FilesInv
        <5>5. Whole(Temp(out)) /\ files'[Temp(out)] = files[Temp(out)]
          BY <1>0, <1>a, <3>2, <5>2 DEF FilesInv, KeepPrevious
        <5> QED  BY <2>1, <5>3, <5>4, <5>5 DEF FilesInv, GoodState, Pos, Whole
      <4> QED  BY <3>2, <4>1, <4>2 DEF KeepPrevious
    <3>3. CASE Publish
      <4>1. Whole(Temp(out))
        BY <1>0, <3>3 DEF FilesInv, Publish, SaveStep
      <4>2. files[Temp(out)] \in Checkpoint \cup {Absent, Partial}
        BY <1>0, <1>a DEF DiskType
      <4>3. /\ files'[Own(out)] = files[Temp(out)]
            /\ files'[Temp(out)] = Absent
            /\ \A g \in Names \ {Own(out), Temp(out)} : files'[g] = files[g]
        <5>1. LET u == [files EXCEPT ![Own(out)] = files[Temp(out)],
                                     ![Temp(out)] = Absent]
              IN  /\ u[Own(out)] = files[Temp(out)] /\ u[Temp(out)] = Absent
                  /\ \A g \in Names \ {Own(out), Temp(out)} : u[g] = files[g]
          BY <1>0, <1>a, SMT DEF DiskType
        <5> QED  BY <3>3, <5>1 DEF Publish
      <4>4. \A f \in Names : Whole(f)' => GoodState(files'[f])
        BY <1>0, <1>a, <4>3 DEF FilesInv, Whole
      <4>5. \A f \in Managed : files'[f] # Partial
        BY <1>0, <1>a, <1>b, <4>1, <4>3 DEF FilesInv, Whole
      <4>6. pc' = "register"  BY <3>3 DEF Publish, SaveStep
      <4> QED  BY <4>4, <4>5, <4>6 DEF FilesInv, GoodState, Pos
    <3>4. CASE Expire
      <4>1. Head(entries) \in Names
        BY <1>0, <1>b, <3>4, SMT DEF Expire, SessionType
      <4>2. files'[Head(entries)] = Absent
            /\ \A g \in Names \ {Head(entries)} : files'[g] = files[g]
        BY <3>4, <4>1, FilesUpdate DEF Expire
      <4>3. \A f \in Names : Whole(f)' => GoodState(files'[f])
        BY <1>0, <4>2 DEF FilesInv, Whole
      <4>4. \A f \in Managed : files'[f] # Partial
        BY <1>0, <1>b, <1>c, <4>2 DEF FilesInv
      <4>5. pc' = "expire"  BY <3>4 DEF Expire, SaveStep
      <4> QED  BY <4>3, <4>4, <4>5 DEF FilesInv, GoodState, Pos
    <3> QED  BY <1>6, <3>1, <3>2, <3>3, <3>4
  <2> QED  BY <2>3, <2>4 DEF SequenceInv
<1>7. CASE GuardExit \/ Finish \/ Fail
  <2>1. Cleared(0) /\ UNCHANGED files /\ pc' = "idle"
    BY <1>7 DEF GuardExit, Finish, Fail, End
  <2>2. SessionInv'  BY <2>1, ClearedInv
  <2>3. FilesInv'  BY <1>0, <2>1 DEF FilesInv, Whole
  <2> QED  BY <2>2, <2>3 DEF SequenceInv
<1> QED  BY <1>1, <1>2, <1>3, <1>4, <1>5, <1>6, <1>7 DEF Session

\* The beginning of a session, a failing call and a crash keep them too: a
\* call cut short tears no file under a .pt name.
LEMMA OutsideKeepsSequence ==
  ASSUME TypeOK, SequenceInv,
         \/ Launched
         \/ Raise \/ Crash
  PROVE  SequenceInv'
<1> USE DEF Goto, diskVars, loopVars
<1>0. DiskType /\ LoopType /\ SessionType /\ SessionInv /\ FilesInv
  BY TypeParts DEF SequenceInv
<1>1. ASSUME NEW o \in Outputs, NEW t \in Totals, NEW cap \in Nat,
             NEW f \in Managed \cup {<<>>}, Launch(o, t, cap, f)
      PROVE  SequenceInv'
  <2>1. Cleared(cap) /\ UNCHANGED files /\ pc' = "open"  BY <1>1 DEF Launch
  <2>2. SessionInv'  BY <2>1, ClearedInv
  <2>3. FilesInv'  BY <1>0, <2>1 DEF FilesInv, Whole
  <2> QED  BY <2>2, <2>3 DEF SequenceInv
<1>2. ASSUME Raise \/ Crash PROVE SequenceInv'
  <2>1. CutShort /\ pc' \in {"idle", "failing"} /\ out' = out /\ total' = total
    BY <1>2 DEF Raise, Crash, CutShort, SameSession
  <2>2. SessionInv'
    <3>1. CASE Cleared(0)  BY <3>1, ClearedInv
    <3>2. CASE UNCHANGED loopVars /\ pc' = "failing"
      BY <1>0, <2>1, <3>2 DEF SessionInv, Pos
    <3> QED  BY <1>2, <3>1, <3>2 DEF Raise, Crash
  <2>3. Temp(out) \in Names /\ Temp(out) \notin Managed
    BY <1>0, NamesDiffer DEF SessionType
  <2>4. UNCHANGED files \/ files' = [files EXCEPT ![Temp(out)] = Partial]
    BY <2>1 DEF CutShort
  <2>5. \A f \in Names \ {Temp(out)} : files'[f] = files[f]
    BY <2>3, <2>4, FilesUpdate
  <2>6. files'[Temp(out)] \in {files[Temp(out)], Partial}
    BY <2>3, <2>4, FilesUpdate
  <2>7. \A f \in Names : Whole(f)' => GoodState(files'[f])
    BY <1>0, <2>3, <2>5, <2>6 DEF FilesInv, Whole
  <2>8. \A f \in Managed : files'[f] # Partial
    BY <1>0, <2>3, <2>5, ManagedAreNames DEF FilesInv
  <2>9. FilesInv'  BY <2>1, <2>7, <2>8 DEF FilesInv, GoodState, Pos
  <2> QED  BY <2>2, <2>9 DEF SequenceInv
<1> QED  BY <1>1, <1>2 DEF Launched

\* Resuming is invisible, for every number of patches, outputs, plans and
\* sessions and whatever fails or crashes: every checkpoint under a .pt name
\* holds a whole state trained on the samples of an uninterrupted run.
THEOREM ResumeIsInvisible == Spec => []SequenceIsReference
<1>1. Init => SequenceInv  BY InitSequence
<1>2. TypeOK /\ SequenceInv /\ [Next]_vars => SequenceInv'
  <2> SUFFICES ASSUME TypeOK, SequenceInv, [Next]_vars PROVE SequenceInv'
    OBVIOUS
  <2>1. CASE Next
    BY <2>1, BeginIsLaunched, SessionKeepsSequence, OutsideKeepsSequence
    DEF Next
  <2>2. CASE UNCHANGED vars
    BY <2>2 DEF vars, diskVars, loopVars, SequenceInv, SessionInv, FilesInv,
                Whole
  <2> QED  BY <2>1, <2>2
<1>3. SequenceInv => SequenceIsReference
  BY ManagedAreNames
  DEF SequenceInv, FilesInv, SequenceIsReference, GoodState, Whole, Exists
<1> QED  BY TypeCorrect, <1>1, <1>2, <1>3, PTL DEF Spec

-----------------------------------------------------------------------------
\* A session works on an output that has not failed, or is failing itself.
RecordInv == pc \notin {"idle", "failing"} => ~Failed(out)

\* A step keeps the invariant, and writes over the record of a failure only
\* while the session that failed ends.
LEMMA RecordStep ==
  ASSUME TypeOK, RecordInv, [Next]_vars
  PROVE  /\ RecordInv'
         /\ \A o \in Outputs :
              Failed(o) /\ record'[o] # record[o] => pc = "failing"
<1> USE DEF RecordInv, Failed, HasRecord, Goto, diskVars
<1>0. record \in [Outputs -> Records \cup {Absent, Torn}] /\ out \in Outputs
  BY DEF TypeOK
<1>1. CASE \/ \E o \in Outputs, p \in Plans, f \in Managed \cup {<<>>} : Start(o, p, f)
           \/ \E o \in Outputs, n \in Measures : Measure(o, n)
  BY <1>1 DEF Start, Measure, Accepts, Launch
<1>2. CASE Open
  BY <1>0, <1>2 DEF Open, Record, SameSession
<1>3. CASE \E proof \in BOOLEAN : Verify(proof)
  BY <1>0, <1>3 DEF Verify, Record, SameSession
<1>4. CASE \/ Load \/ Draw \/ SaveDue \/ Guard \/ NoSaveDue \/ OnTime
           \/ WriteTemp \/ KeepPrevious \/ Publish \/ Register \/ Expire
           \/ Return
  <2>1. UNCHANGED <<record, out>> /\ pc \notin {"idle", "failing"}
    BY <1>4 DEF Load, Draw, SaveDue, Guard, NoSaveDue, OnTime, SaveFrom,
                WriteTemp, KeepPrevious, Publish, Register, Expire, Return,
                SaveStep, SameSession
  <2> QED  BY <2>1
<1>5. CASE Train \/ Saved
  <2>1. UNCHANGED out /\ pc \notin {"idle", "failing"}
    BY <1>5 DEF Train, Saved, SameSession
  <2>2. PICK x : x.passed = "yes" /\ record' = [record EXCEPT ![out] = x]
    BY <1>5 DEF Train, Saved, Record
  <2> QED  BY <1>0, <2>1, <2>2
<1>6. CASE GuardExit \/ Finish \/ Fail
  <2>1. pc' = "idle" /\ pc # "idle"
    BY <1>6 DEF GuardExit, Finish, Fail, End
  <2>2. PICK final : record' = [record EXCEPT ![out] = final]
    BY <1>6 DEF GuardExit, Finish, Fail, End
  <2> QED  BY <1>0, <2>1, <2>2
<1>7. CASE Raise \/ Crash
  <2>1. pc' \in {"idle", "failing"} /\ pc # "idle"
    BY <1>7 DEF Raise, Crash
  <2>2. UNCHANGED record \/ record' = [record EXCEPT ![out] = Torn]
    BY <1>7 DEF Raise, Crash, CutShort
  <2> QED  BY <1>0, <2>1, <2>2
<1>8. CASE UNCHANGED vars  BY <1>8 DEF vars
<1> QED  BY <1>1, <1>2, <1>3, <1>4, <1>5, <1>6, <1>7, <1>8 DEF Next, Session

\* A failed attempt is kept: no later session, on whatever output, writes
\* over the record of a failure.
THEOREM FailuresAreKept == Spec => FailedRecordKept
<1>1. Init => RecordInv  BY DEF Init, RecordInv
<1>2. TypeOK /\ RecordInv /\ [Next]_vars => RecordInv'  BY RecordStep
<1>3. TypeOK /\ RecordInv /\ [Next]_vars =>
        [\A o \in Outputs :
           Failed(o) /\ record'[o] # record[o] => pc = "failing"]_vars
  BY RecordStep
<1> QED  BY TypeCorrect, <1>1, <1>2, <1>3, PTL DEF Spec, FailedRecordKept

-----------------------------------------------------------------------------
\* The lists of managed names: removing a name of a list without repetitions
\* leaves such a list, without the name.
LEMMA WithoutDistinct ==
  ASSUME NEW s \in Seq(Managed), IsInjective(s), NEW f
  PROVE  IsInjective(Without(s, f)) /\ f \notin Range(Without(s, f))
<1>1. CASE f \notin Range(s)  BY <1>1 DEF Without
<1>2. CASE f \in Range(s)
  <2> DEFINE at == CHOOSE i \in 1 .. Len(s) : s[i] = f
             r == RemoveAt(s, at)
  <2>1. at \in 1 .. Len(s) /\ s[at] = f  BY <1>2, SMT DEF Range
  <2>2. Without(s, f) = r  BY <1>2 DEF Without
  <2> HIDE DEF at
  <2>3. /\ SubSeq(s, 1, at - 1) \in Seq(Managed)
        /\ Len(SubSeq(s, 1, at - 1)) = at - 1
        /\ \A j \in 1 .. at - 1 : SubSeq(s, 1, at - 1)[j] = s[j]
    BY <2>1, SMT
  <2>4. /\ SubSeq(s, at + 1, Len(s)) \in Seq(Managed)
        /\ Len(SubSeq(s, at + 1, Len(s))) = Len(s) - at
        /\ \A j \in 1 .. Len(s) - at : SubSeq(s, at + 1, Len(s))[j] = s[at + j]
    BY <2>1, SMT
  <2>5. /\ Len(r) = Len(s) - 1 /\ DOMAIN r = 1 .. Len(s) - 1
        /\ \A j \in 1 .. Len(s) - 1 : r[j] = IF j < at THEN s[j] ELSE s[j + 1]
    <3> DEFINE a == SubSeq(s, 1, at - 1)
               b == SubSeq(s, at + 1, Len(s))
    <3>1. r = a \o b  BY DEF RemoveAt
    <3>2. a \in Seq(Managed) /\ b \in Seq(Managed)  BY <2>3, <2>4
    <3> HIDE DEF a, b, r
    <3>3. /\ r \in Seq(Managed) /\ Len(r) = Len(a) + Len(b)
          /\ \A j \in 1 .. Len(a) + Len(b) :
               r[j] = IF j <= Len(a) THEN a[j] ELSE b[j - Len(a)]
      BY <3>1, <3>2, ConcatProperties
    <3>4. /\ Len(a) = at - 1 /\ Len(b) = Len(s) - at
          /\ \A j \in 1 .. at - 1 : a[j] = s[j]
          /\ \A j \in 1 .. Len(s) - at : b[j] = s[at + j]
      BY <2>3, <2>4 DEF a, b
    <3>5. Len(r) = Len(s) - 1 /\ DOMAIN r = 1 .. Len(s) - 1
      BY <2>1, <3>3, <3>4, SMT
    <3>6. ASSUME NEW j \in 1 .. Len(s) - 1
          PROVE  r[j] = IF j < at THEN s[j] ELSE s[j + 1]
      <4>1. CASE j < at
        <5>1. j \in 1 .. at - 1 /\ j \in 1 .. Len(a) + Len(b) /\ j <= Len(a)
          BY <2>1, <3>4, <4>1, SMT
        <5> QED  BY <3>3, <3>4, <4>1, <5>1
      <4>2. CASE ~(j < at)
        <5>1. r[j] = b[j - (at - 1)]  BY <2>1, <3>3, <3>4, <4>2, SMT
        <5>2. j - (at - 1) \in 1 .. Len(s) - at /\ at + (j - (at - 1)) = j + 1
          BY <2>1, <4>2, SMT
        <5>3. b[j - (at - 1)] = s[at + (j - (at - 1))]  BY <3>4, <5>2
        <5> QED  BY <4>2, <5>1, <5>2, <5>3
      <4> QED  BY <4>1, <4>2
    <3> QED  BY <3>5, <3>6
  <2> HIDE DEF r
  <2>6. IsInjective(r)
    <3> SUFFICES ASSUME NEW i \in 1 .. Len(s) - 1, NEW j \in 1 .. Len(s) - 1,
                        r[i] = r[j]
                 PROVE  i = j
      BY <2>5 DEF IsInjective
    <3> DEFINE up(k) == IF k < at THEN k ELSE k + 1
    <3>1. up(i) \in DOMAIN s /\ up(j) \in DOMAIN s
      BY <2>1, SMT
    <3>2. s[up(i)] = r[i] /\ s[up(j)] = r[j]  BY <2>5
    <3>3. up(i) = up(j)  BY <3>1, <3>2 DEF IsInjective
    <3> QED  BY <2>1, <3>3, SMT
  <2>7. f \notin Range(r)
    <3> SUFFICES ASSUME NEW j \in 1 .. Len(s) - 1, r[j] = f PROVE FALSE
      BY <2>5 DEF Range
    <3>1. CASE j < at  BY <2>1, <2>5, <3>1, SMT DEF IsInjective
    <3>2. CASE ~(j < at)
      <4>1. s[j + 1] = s[at] /\ j + 1 \in DOMAIN s /\ at \in DOMAIN s /\ j + 1 # at
        BY <2>1, <2>5, <3>2, SMT
      <4> QED  BY <4>1 DEF IsInjective
    <3> QED  BY <3>1, <3>2
  <2> QED  BY <2>2, <2>6, <2>7
<1> QED  BY <1>1, <1>2

\* A new name at the end of such a list.
LEMMA AppendDistinct ==
  ASSUME NEW s \in Seq(Managed), IsInjective(s), NEW f \in Managed,
         f \notin Range(s)
  PROVE  /\ IsInjective(Append(s, f))
         /\ Append(s, f) # <<>> /\ Append(s, f)[Len(Append(s, f))] = f
<1>1. /\ Len(Append(s, f)) = Len(s) + 1
      /\ DOMAIN Append(s, f) = 1 .. Len(s) + 1
      /\ \A j \in 1 .. Len(s) : Append(s, f)[j] = s[j]
      /\ Append(s, f)[Len(s) + 1] = f
  BY SMT
<1>2. \A j \in 1 .. Len(s) : s[j] # f  BY SMT DEF Range
<1>3. IsInjective(Append(s, f))  BY <1>1, <1>2, SMT DEF IsInjective
<1> QED  BY <1>1, <1>3, SMT

\* What the registry keeps has no repetition, and the last name is not expired.
LEMMA RegisterDistinct ==
  ASSUME NEW s \in Seq(Managed), IsInjective(s)
  PROVE  /\ IsInjective(LastTwo(s))
         /\ s # <<>> => s[Len(s)] \notin Range(Expired(s))
<1>1. IsInjective(LastTwo(s))
  <2>1. CASE Len(s) > 2
    <3>1. /\ LastTwo(s) = SubSeq(s, Len(s) - 1, Len(s))
          /\ DOMAIN SubSeq(s, Len(s) - 1, Len(s)) = 1 .. 2
          /\ \A j \in 1 .. 2 : SubSeq(s, Len(s) - 1, Len(s))[j] = s[Len(s) - 2 + j]
      BY <2>1, SMT DEF LastTwo
    <3> QED  BY <2>1, <3>1, SMT DEF IsInjective
  <2>2. CASE ~(Len(s) > 2)
    <3>1. LastTwo(s) = s  BY <2>2, SMT DEF LastTwo
    <3> QED  BY <3>1
  <2> QED  BY <2>1, <2>2
<1>2. ASSUME s # <<>> PROVE s[Len(s)] \notin Range(Expired(s))
  <2>1. CASE Len(s) > 2
    <3>1. /\ DOMAIN Expired(s) = 1 .. Len(s) - 2
          /\ \A j \in 1 .. Len(s) - 2 : Expired(s)[j] = s[j]
      BY <2>1, SMT DEF Expired
    <3> QED  BY <2>1, <3>1, SMT DEF Range, IsInjective
  <2>2. CASE ~(Len(s) > 2)
    <3>1. Expired(s) = <<>>  BY <2>2, SMT DEF Expired
    <3> QED  BY <3>1, SMT DEF Range
  <2> QED  BY <2>1, <2>2
<1> QED  BY <1>1, <1>2

-----------------------------------------------------------------------------
\* The storage while a checkpoint is saved: no name is managed twice; what is
\* written, and then published, is the state of the session; and the name
\* just published is not among those that expire.
Collecting == {"write", "previous", "publish", "register"}
StorageInv ==
  /\ registry # Torn => IsInjective(registry)
  /\ pc \in Collecting => IsInjective(entries)
  /\ pc \in {"previous", "publish"} => files[Temp(out)] = State
  /\ pc \in {"register", "expire", "saved"} =>
       files[Own(out)] = State /\ newest = State
  /\ pc = "register" => entries # <<>> /\ entries[Len(entries)] = Own(out)
  /\ pc = "expire" => Own(out) \notin Range(entries)

\* The state last published is under the name it was published under, or it
\* has been moved aside and nothing has taken its place.
NewestInv ==
  newest # Absent =>
    \E o \in Outputs :
      \/ files[Own(o)] = newest
      \/ files[Previous(o)] = newest /\ ~Exists(Own(o))

\* What the calls of a save do to the files, name by name.
LEMMA SaveFiles ==
  ASSUME TypeOK
  PROVE  /\ WriteTemp =>
              /\ files'[Temp(out)] = State
              /\ \A f \in Names \ {Temp(out)} : files'[f] = files[f]
         /\ KeepPrevious =>
              \/ UNCHANGED files /\ (pc' = "publish" => ~Exists(Own(out)))
              \/ /\ files'[Previous(out)] = files[Own(out)]
                 /\ files'[Own(out)] = Absent
                 /\ \A f \in Names \ {Own(out), Previous(out)} :
                      files'[f] = files[f]
         /\ Publish =>
              /\ files'[Own(out)] = files[Temp(out)]
              /\ files'[Temp(out)] = Absent
              /\ \A f \in Names \ {Own(out), Temp(out)} : files'[f] = files[f]
         /\ Expire =>
              /\ entries # <<>> /\ Head(entries) \in Managed
              /\ files'[Head(entries)] = Absent
              /\ \A f \in Names \ {Head(entries)} : files'[f] = files[f]
         /\ CutShort => \A f \in Managed : files'[f] = files[f]
<1>0. DiskType /\ SessionType  BY TypeParts
<1>a. /\ Own(out) \in Names /\ Previous(out) \in Names /\ Temp(out) \in Names
      /\ Temp(out) \notin Managed
      /\ Own(out) # Previous(out) /\ Own(out) # Temp(out)
  BY <1>0, NamesDiffer DEF SessionType
<1>b. /\ files[Own(out)] \in Checkpoint \cup {Absent, Partial}
      /\ files[Temp(out)] \in Checkpoint \cup {Absent, Partial}
  BY <1>0, <1>a DEF DiskType
<1>1. ASSUME WriteTemp
      PROVE  /\ files'[Temp(out)] = State
             /\ \A f \in Names \ {Temp(out)} : files'[f] = files[f]
  BY <1>1, <1>a, StateType, FilesUpdate DEF WriteTemp
<1>2. ASSUME KeepPrevious
      PROVE  \/ UNCHANGED files /\ (pc' = "publish" => ~Exists(Own(out)))
             \/ /\ files'[Previous(out)] = files[Own(out)]
                /\ files'[Own(out)] = Absent
                /\ \A f \in Names \ {Own(out), Previous(out)} :
                     files'[f] = files[f]
  <2>1. CASE files' = [files EXCEPT ![Previous(out)] = files[Own(out)],
                                    ![Own(out)] = Absent]
    <3>1. \A x \in Checkpoint \cup {Absent, Partial} :
            LET u == [files EXCEPT ![Previous(out)] = x, ![Own(out)] = Absent]
            IN  /\ u[Previous(out)] = x /\ u[Own(out)] = Absent
                /\ \A f \in Names \ {Own(out), Previous(out)} : u[f] = files[f]
      BY <1>0, <1>a DEF DiskType
    <3> QED  BY <1>b, <2>1, <3>1
  <2>2. CASE UNCHANGED files /\ ~Exists(Own(out))  BY <2>2
  <2>3. CASE UNCHANGED files /\ pc' = "failing"  BY <2>3
  <2> QED  BY <1>2, <2>1, <2>2, <2>3 DEF KeepPrevious, SaveStep, Goto
<1>3. ASSUME Publish
      PROVE  /\ files'[Own(out)] = files[Temp(out)]
             /\ files'[Temp(out)] = Absent
             /\ \A f \in Names \ {Own(out), Temp(out)} : files'[f] = files[f]
  <2>1. \A x \in Checkpoint \cup {Absent, Partial} :
          LET u == [files EXCEPT ![Own(out)] = x, ![Temp(out)] = Absent]
          IN  /\ u[Own(out)] = x /\ u[Temp(out)] = Absent
              /\ \A f \in Names \ {Own(out), Temp(out)} : u[f] = files[f]
    BY <1>0, <1>a DEF DiskType
  <2> QED  BY <1>3, <1>b, <2>1 DEF Publish
<1>4. ASSUME Expire
      PROVE  /\ entries # <<>> /\ Head(entries) \in Managed
             /\ files'[Head(entries)] = Absent
             /\ \A f \in Names \ {Head(entries)} : files'[f] = files[f]
  <2>1. entries # <<>> /\ Head(entries) \in Managed
    BY <1>0, <1>4, SMT DEF Expire, SessionType
  <2> QED  BY <1>4, <2>1, ManagedAreNames, FilesUpdate DEF Expire
<1>5. ASSUME CutShort PROVE \A f \in Managed : files'[f] = files[f]
  <2>1. UNCHANGED files \/ files' = [files EXCEPT ![Temp(out)] = Partial]
    BY <1>5 DEF CutShort, diskVars
  <2> QED  BY <1>a, <2>1, ManagedAreNames, FilesUpdate
<1> QED  BY <1>1, <1>2, <1>3, <1>4, <1>5

\* Outside of a save the storage is at rest, or the registry torn.
LEMMA StorageRests ==
  ASSUME StorageInv, registry' \in {registry, Torn},
         pc' \notin Collecting \cup {"expire", "saved"}
  PROVE  StorageInv'
  BY DEF StorageInv, Collecting

\* Every step keeps the storage invariant.
LEMMA StorageStep == TypeOK /\ StorageInv /\ [Next]_vars => StorageInv'
<1> SUFFICES ASSUME TypeOK, StorageInv, [Next]_vars PROVE StorageInv'  OBVIOUS
<1> USE DEF Goto, diskVars, SameStore, SameCounts, SameSession, loopVars
<1>0. DiskType /\ SessionType  BY TypeParts
<1>a. /\ Own(out) \in Names /\ Previous(out) \in Names /\ Temp(out) \in Names
      /\ Own(out) \in Managed /\ Previous(out) \in Managed
      /\ Temp(out) \notin Managed
      /\ Own(out) # Previous(out) /\ Own(out) # Temp(out)
  BY <1>0, NamesDiffer DEF SessionType
<1>b. entries \in Seq(Managed)  BY <1>0 DEF SessionType
<1>1. CASE \/ Launched \/ Open \/ (\E proof \in BOOLEAN : Verify(proof)) \/ Load
           \/ Draw \/ Train \/ NoSaveDue \/ OnTime \/ Saved \/ GuardExit
           \/ Finish \/ Fail \/ Raise \/ Crash
  <2>1. registry' \in {registry, Torn}
    BY <1>1 DEF Launched, Launch, Open, Verify, Load, Draw, Train, NoSaveDue,
                OnTime, Saved, GuardExit, Finish, Fail, End, Raise, Crash, CutShort
  <2>2. pc' \in {"open", "verify", "load", "failing", "loop", "trained", "clock",
                 "idle"}
    <3>1. CASE Draw  BY <3>1 DEF Draw
    <3> QED  BY <1>1, <3>1
             DEF Launched, Launch, Open, Verify, Load, Train, NoSaveDue,
                 OnTime, Saved, GuardExit, Finish, Fail, End, Raise, Crash
  <2> QED  BY <2>1, <2>2, StorageRests DEF Collecting
<1>2. CASE SaveDue \/ Guard
  <2>1. SaveFrom(FALSE) \/ SaveFrom(TRUE)  BY <1>2 DEF SaveDue, Guard
  <2>2. CASE pc' = "failing"
    BY <2>1, <2>2, StorageRests DEF SaveFrom, Collecting
  <2>3. CASE pc' = "write"
    <3>1. registry # Torn /\ entries' = registry /\ registry' = registry
      BY <2>1, <2>3 DEF SaveFrom, Refused
    <3> QED  BY <2>3, <3>1 DEF StorageInv
  <2> QED  BY <2>1, <2>2, <2>3 DEF SaveFrom
<1>3. CASE WriteTemp
  <2>1. /\ pc = "write" /\ pc' = "previous" /\ State' = State
        /\ UNCHANGED <<registry, entries, out>>
    BY <1>3 DEF WriteTemp, SaveStep, State
  <2>2. files'[Temp(out)] = State  BY <1>3, SaveFiles
  <2>3. files'[Temp(out')] = State'  BY <2>1, <2>2
  <2> QED  BY <2>1, <2>3 DEF StorageInv, Collecting, Temp, Own
<1>4. CASE KeepPrevious
  <2>1. CASE pc' = "failing"
    BY <1>4, <2>1, StorageRests DEF KeepPrevious, SaveStep, Collecting
  <2>2. CASE pc' = "publish"
    <3>1. /\ pc = "previous" /\ State' = State /\ UNCHANGED <<registry, out>>
      BY <1>4, <2>2 DEF KeepPrevious, SaveStep, State
    <3>2. files'[Temp(out)] = files[Temp(out)]
      <4>1. Temp(out) # Previous(out)  BY <1>a
      <4> QED  BY <1>4, <1>a, <4>1, SaveFiles
    <3>3. IsInjective(entries')
      <4> DEFINE s == Without(entries, Own(out))
                 t == Without(s, Previous(out))
      <4>1. IsInjective(entries)  BY <3>1 DEF StorageInv, Collecting
      <4>2. s \in Seq(Managed) /\ IsInjective(s)
        BY <1>b, <4>1, WithoutDistinct, WithoutType
      <4>3. t \in Seq(Managed) /\ IsInjective(t) /\ Previous(out) \notin Range(t)
        <5> HIDE DEF s
        <5> QED  BY <4>2, WithoutDistinct, WithoutType
      <4>4. entries' = entries \/ entries' = Append(t, Previous(out))
        BY <1>4, <2>2 DEF KeepPrevious
      <4> HIDE DEF t
      <4> QED  BY <1>a, <4>1, <4>3, <4>4, AppendDistinct
    <3>4. files'[Temp(out')] = State'
      BY <3>1, <3>2 DEF StorageInv
    <3> QED  BY <2>2, <3>1, <3>3, <3>4 DEF StorageInv
  <2> QED  BY <1>4, <2>1, <2>2 DEF KeepPrevious, SaveStep
<1>5. CASE Publish
  <2>1. /\ pc = "publish" /\ pc' = "register" /\ State' = State
        /\ newest' = files[Temp(out)] /\ UNCHANGED <<registry, out>>
    BY <1>5 DEF Publish, SaveStep, State
  <2>2. files'[Own(out)] = files[Temp(out)] /\ files[Temp(out)] = State
    BY <1>5, <2>1, SaveFiles DEF StorageInv
  <2>3. IsInjective(entries') /\ entries' # <<>>
        /\ entries'[Len(entries')] = Own(out)
    <3> DEFINE s == Without(entries, Own(out))
    <3>1. IsInjective(entries)  BY <2>1 DEF StorageInv, Collecting
    <3>2. s \in Seq(Managed) /\ IsInjective(s) /\ Own(out) \notin Range(s)
      BY <1>b, <3>1, WithoutDistinct, WithoutType
    <3>3. entries' = Append(s, Own(out))  BY <1>5 DEF Publish
    <3> HIDE DEF s
    <3> QED  BY <1>a, <3>2, <3>3, AppendDistinct
  <2>4. files'[Own(out')] = State' /\ newest' = State' /\ Own(out') = Own(out)
    BY <2>1, <2>2
  <2> QED  BY <2>1, <2>3, <2>4 DEF StorageInv
<1>6. CASE Register
  <2>1. /\ pc = "register" /\ pc' = "expire" /\ State' = State
        /\ UNCHANGED <<files, newest, out>>
        /\ registry' = LastTwo(entries) /\ entries' = Expired(entries)
    BY <1>6 DEF Register, SaveStep, State
  <2>2. IsInjective(entries) /\ entries # <<>> /\ entries[Len(entries)] = Own(out)
        /\ files[Own(out)] = State /\ newest = State
    BY <2>1 DEF StorageInv, Collecting
  <2>3. IsInjective(registry') /\ Own(out) \notin Range(entries')
    BY <1>b, <2>1, <2>2, RegisterDistinct
  <2>4. files'[Own(out')] = State' /\ newest' = State' /\ Own(out') = Own(out)
    BY <2>1, <2>2
  <2> QED  BY <2>1, <2>3, <2>4 DEF StorageInv, Collecting
<1>7. CASE Expire
  <2>1. /\ pc = "expire" /\ pc' = "expire" /\ State' = State
        /\ UNCHANGED <<registry, newest, out>> /\ entries' = Tail(entries)
    BY <1>7 DEF Expire, SaveStep, State
  <2>2. Own(out) \notin Range(entries) /\ files[Own(out)] = State /\ newest = State
    BY <2>1 DEF StorageInv
  <2>3. /\ entries # <<>> /\ Head(entries) \in Managed
        /\ \A f \in Names \ {Head(entries)} : files'[f] = files[f]
    BY <1>7, SaveFiles
  <2>4. Head(entries) \in Range(entries)
        /\ \A x : x \in Range(Tail(entries)) => x \in Range(entries)
    BY <1>b, <2>3, SMT DEF Range
  <2>5. files'[Own(out)] = files[Own(out)]  BY <1>a, <2>2, <2>3, <2>4
  <2>6. files'[Own(out')] = State' /\ newest' = State' /\ Own(out') = Own(out)
    BY <2>1, <2>2, <2>5
  <2>7. Own(out)' \notin Range(entries)'  BY <2>1, <2>2, <2>4, <2>6
  <2> QED  BY <2>1, <2>6, <2>7 DEF StorageInv, Collecting
<1>8. CASE Return
  <2>1. /\ pc = "expire" /\ pc' = "saved" /\ State' = State
        /\ UNCHANGED <<files, registry, entries, newest, out>>
    BY <1>8 DEF Return, SaveStep, State
  <2>2. files'[Own(out')] = State' /\ newest' = State'
    BY <2>1 DEF StorageInv
  <2> QED  BY <2>1, <2>2 DEF StorageInv, Collecting
<1>9. CASE UNCHANGED vars
  <2>1. State' = State /\ UNCHANGED <<files, registry, entries, newest, out, pc>>
    BY <1>9 DEF vars, State
  <2> QED  BY <2>1 DEF StorageInv
<1> QED  BY <1>1, <1>2, <1>3, <1>4, <1>5, <1>6, <1>7, <1>8, <1>9, BeginIsLaunched
         DEF Next, Session

\* Every step keeps the state last published under one of its names.
LEMMA NewestStep ==
  TypeOK /\ StorageInv /\ NewestInv /\ [Next]_vars => NewestInv'
<1> SUFFICES ASSUME TypeOK, StorageInv, NewestInv, [Next]_vars PROVE NewestInv'
  OBVIOUS
<1> USE DEF Goto, diskVars, SameStore, SameCounts, SameSession, loopVars
<1>0. DiskType /\ SessionType  BY TypeParts
<1>a. \A o \in Outputs :
        /\ Own(o) \in Names /\ Previous(o) \in Names
        /\ Own(o) \in Managed /\ Previous(o) \in Managed
  BY NamesDiffer
<1>b. \A o, p \in Outputs : Own(o) # Previous(p) /\ Own(o) # Temp(p)
                             /\ Previous(o) # Temp(p)
  BY DEF Own, Previous, Temp
<1>c. \A o, p \in Outputs : o # p => Own(o) # Own(p) /\ Previous(o) # Previous(p)
  BY DEF Own, Previous
<1>d. out \in Outputs  BY <1>0 DEF SessionType
<1>1. ASSUME newest' = newest, \A f \in Managed : files'[f] = files[f]
      PROVE  NewestInv'
  BY <1>1, <1>a DEF NewestInv, Exists
<1>2. CASE UNCHANGED <<files, newest>>  BY <1>1, <1>2
<1>3. CASE Raise \/ Crash
  BY <1>1, <1>3, SaveFiles DEF Raise, Crash, CutShort
<1>4. CASE WriteTemp
  <2>1. Temp(out) \notin Managed  BY <1>d, NamesDiffer
  <2> QED  BY <1>1, <1>4, <2>1, ManagedAreNames, SaveFiles DEF WriteTemp
<1>5. CASE KeepPrevious
  <2>1. CASE UNCHANGED files  BY <1>1, <1>5, <2>1 DEF KeepPrevious
  <2>2. CASE /\ files'[Previous(out)] = files[Own(out)]
             /\ files'[Own(out)] = Absent
             /\ \A f \in Names \ {Own(out), Previous(out)} : files'[f] = files[f]
             /\ Exists(Own(out))
    <3> SUFFICES ASSUME newest' # Absent
                 PROVE  \E o \in Outputs :
                          \/ files'[Own(o)] = newest'
                          \/ files'[Previous(o)] = newest' /\ ~Exists(Own(o))'
      BY DEF NewestInv
    <3>0. newest' = newest  BY <1>5 DEF KeepPrevious
    <3>1. PICK o \in Outputs :
            \/ files[Own(o)] = newest
            \/ files[Previous(o)] = newest /\ ~Exists(Own(o))
      BY <3>0 DEF NewestInv
    <3>2. CASE o = out
      BY <1>d, <2>2, <3>0, <3>1, <3>2 DEF Exists
    <3>3. CASE o # out
      <4>1. files'[Own(o)] = files[Own(o)] /\ files'[Previous(o)] = files[Previous(o)]
        BY <1>a, <1>b, <1>c, <1>d, <2>2, <3>3
      <4> QED  BY <3>0, <3>1, <4>1 DEF Exists
    <3> QED  BY <3>2, <3>3
  <2> QED
    <3>1. \/ UNCHANGED files
          \/ Exists(Own(out)) /\ pc' = "publish"
      BY <1>5 DEF KeepPrevious, SaveStep
    <3> QED  BY <1>5, <2>1, <2>2, <3>1, SaveFiles
<1>6. CASE Publish
  <2>1. newest' = files[Temp(out)] /\ files'[Own(out)] = files[Temp(out)]
    BY <1>6, SaveFiles DEF Publish
  <2> QED  BY <1>d, <2>1 DEF NewestInv
<1>7. CASE Expire
  <2>1. pc = "expire" /\ newest' = newest /\ files[Own(out)] = newest
        /\ Own(out) \notin Range(entries)
    BY <1>7 DEF Expire, SaveStep, StorageInv
  <2>2. entries # <<>> /\ \A f \in Names \ {Head(entries)} : files'[f] = files[f]
    BY <1>7, SaveFiles
  <2>3. Head(entries) \in Range(entries)
    BY <1>0, <2>2, SMT DEF Range, SessionType
  <2>4. files'[Own(out)] = newest'  BY <1>a, <1>d, <2>1, <2>2, <2>3
  <2> QED  BY <1>d, <2>4 DEF NewestInv
<1>8. CASE \/ Launched \/ Open \/ (\E proof \in BOOLEAN : Verify(proof)) \/ Load
           \/ Draw \/ Train \/ SaveDue \/ NoSaveDue \/ Register \/ Return \/ Saved
           \/ GuardExit \/ OnTime \/ Guard \/ Finish \/ Fail \/ UNCHANGED vars
  <2>1. UNCHANGED <<files, newest>>
    BY <1>8 DEF Launched, Launch, Open, Verify, Load, Draw, Train, SaveDue, Guard,
                SaveFrom, NoSaveDue, Register, Return, SaveStep, Saved, GuardExit,
                OnTime, Finish, Fail, End, vars
  <2> QED  BY <1>2, <2>1
<1> QED  BY <1>3, <1>4, <1>5, <1>6, <1>7, <1>8, BeginIsLaunched DEF Next, Session

\* The storage invariants hold of an empty storage root.
LEMMA InitStorage == Init => StorageInv /\ NewestInv
<1> SUFFICES ASSUME Init PROVE StorageInv /\ NewestInv  OBVIOUS
<1>1. registry = <<>> /\ pc = "idle" /\ newest = Absent  BY DEF Init
<1>2. IsInjective(registry)  BY <1>1, SMT DEF IsInjective
<1> QED  BY <1>1, <1>2 DEF StorageInv, NewestInv, Collecting

\* The storage is sound at every moment.
LEMMA StorageAlways == Spec => [](StorageInv /\ NewestInv)
<1>1. Init => StorageInv /\ NewestInv  BY InitStorage
<1>2. TypeOK /\ StorageInv /\ NewestInv /\ [Next]_vars => (StorageInv /\ NewestInv)'
  BY StorageStep, NewestStep
<1> QED  BY TypeCorrect, <1>1, <1>2, PTL DEF Spec

\* The last save survives: what was last published is on the disk under a
\* managed name until something else is, through every failure and crash
\* (bounded_checkpoint_save).
THEOREM SavesSurvive == Spec => []LastSaveSurvives
<1>1. NewestInv => LastSaveSurvives
  BY NamesDiffer DEF NewestInv, LastSaveSurvives
<1> QED  BY StorageAlways, <1>1, PTL

-----------------------------------------------------------------------------
\* No session trains past its plan, and no checkpoint is of such a session.
StepInv ==
  /\ step <= total
  /\ pc \notin {"idle", "open", "verify", "load", "failing"} => stop <= total
  /\ pc \in {"trained", "expire", "saved", "clock"} \cup Collecting => step <= stop
  /\ \A f \in Names : Whole(f) => files[f].step <= files[f].total

\* A record that a session left when it ended, and that names a checkpoint,
\* is not the one of a session under way; a session whose steps are done has
\* saved its last one; and such a record is of the samples of its checkpoint.
Final(o) ==
  HasRecord(o) /\ record[o].status \in {"completed", "guard"} /\ record[o].last
FinalInv ==
  /\ pc \notin {"idle", "open"} => ~Final(out)
  /\ pc \in {"open", "verify", "load"} => ~last
  /\ pc \in {"loop", "clock"} /\ last /\ step >= stop /\ Exists(Own(out)) =>
       files[Own(out)].chain = chain
  /\ \A o \in Outputs :
       Final(o) /\ Exists(Own(o)) => files[Own(o)].chain = record[o].chain

\* The files of a later state are files of this one, or the state saved.
LEMMA FilesAreOld ==
  ASSUME TypeOK, [Next]_vars
  PROVE  \A f \in Names : Whole(f)' =>
           \/ \E g \in Names : Whole(g) /\ files'[f] = files[g]
           \/ WriteTemp /\ files'[f] = State
<1> USE DEF Goto, diskVars, SameStore, SameCounts, SameSession, loopVars
<1>0. DiskType /\ SessionType  BY TypeParts
<1>a. /\ Own(out) \in Names /\ Previous(out) \in Names /\ Temp(out) \in Names
  BY <1>0, NamesDiffer DEF SessionType
<1> TAKE f \in Names
<1> HAVE Whole(f)'
<1>b. files'[f] \notin {Absent, Partial}  BY DEF Whole
<1>1. CASE files'[f] = files[f]  BY <1>b, <1>1 DEF Whole
<1>2. CASE WriteTemp  BY <1>1, <1>2, SaveFiles
<1>3. CASE KeepPrevious \/ Publish
  <2>1. \E g \in Names : files'[f] = files[g]
    BY <1>a, <1>b, <1>3, SaveFiles
  <2> QED  BY <1>b, <2>1 DEF Whole
<1>4. CASE Expire  BY <1>1, <1>b, <1>4, SaveFiles
<1>5. CASE Raise \/ Crash
  <2>1. UNCHANGED files \/ files' = [files EXCEPT ![Temp(out)] = Partial]
    BY <1>5 DEF Raise, Crash, CutShort
  <2> QED  BY <1>a, <1>b, <1>1, <2>1, FilesUpdate
<1>6. CASE \/ Launched \/ Open \/ (\E proof \in BOOLEAN : Verify(proof)) \/ Load
           \/ Draw \/ Train \/ SaveDue \/ NoSaveDue \/ Register \/ Return \/ Saved
           \/ GuardExit \/ OnTime \/ Guard \/ Finish \/ Fail \/ UNCHANGED vars
  <2>1. UNCHANGED files
    BY <1>6 DEF Launched, Launch, Open, Verify, Load, Draw, Train, SaveDue, Guard,
                SaveFrom, NoSaveDue, Register, Return, SaveStep, Saved, GuardExit,
                OnTime, Finish, Fail, End, vars
  <2> QED  BY <1>1, <2>1
<1> QED  BY <1>2, <1>3, <1>4, <1>5, <1>6, BeginIsLaunched DEF Next, Session

\* Every step keeps within the plan.
LEMMA StepStep == TypeOK /\ StepInv /\ [Next]_vars => StepInv'
<1> SUFFICES ASSUME TypeOK, StepInv, [Next]_vars PROVE StepInv'  OBVIOUS
<1> USE DEF Goto, diskVars, SameStore, SameCounts, SameSession, loopVars
<1>0. DiskType /\ SessionType /\ LoopType  BY TypeParts
<1>a. step \in Nat /\ stop \in Nat /\ total \in Nat
  BY <1>0, TotalsType DEF SessionType, LoopType
<1>b. \A f \in Names : Whole(f)' => files'[f].step <= files'[f].total
  <2>1. State.step <= State.total  BY DEF State, StepInv
  <2> QED  BY <2>1, FilesAreOld DEF StepInv
<1> DEFINE Steps(p) ==
      /\ p \notin {"idle", "open", "verify", "load", "failing"} => stop <= total
      /\ p \in {"trained", "expire", "saved", "clock"} \cup Collecting => step <= stop
<1>1. ASSUME UNCHANGED <<step, stop, total>>, Steps(pc') PROVE StepInv'
  BY <1>1, <1>b DEF StepInv
<1>2. CASE Launched
  <2>1. step' = 0 /\ total' \in Totals /\ pc' = "open"
    BY <1>2 DEF Launched, Launch, Cleared
  <2>2. step' <= total'  BY <2>1, TotalsType, SMT
  <2> QED  BY <1>b, <2>1, <2>2 DEF StepInv, Collecting
<1>3. CASE Load
  <2>1. total' = total /\ pc = "load" /\ pc' \in {"loop", "failing"}  BY <1>3 DEF Load
  <2>2. CASE ResumeState = <<>>
    <3>1. step' = step /\ stop' \in {total, stop} /\ stop' <= total
      BY <1>a, <1>3, <2>2, SMT DEF Load, LowerOf
    <3> QED  BY <1>b, <2>1, <3>1 DEF StepInv, Collecting
  <2>3. CASE ResumeState # <<>> /\ Resumable(ResumeState)
    <3>1. ResumeState \in Names
      BY <1>0, <2>3, NamesDiffer, ManagedAreNames DEF ResumeState, SessionType
    <3>2. files[ResumeState] \in Checkpoint
      BY <1>0, <2>3, <3>1 DEF Resumable, Whole, DiskType
    <3>3. PICK n \in Nat : n = files[ResumeState].step /\ n <= total
      BY <2>3, <3>1, <3>2 DEF Resumable, Checkpoint, StepInv
    <3>4. step' = n /\ stop' = LowerOf(total, n + stop)
      BY <1>3, <2>3, <3>3 DEF Load, Restored
    <3>5. stop' <= total  BY <1>a, <3>4, SMT DEF LowerOf
    <3> QED  BY <1>b, <2>1, <3>3, <3>4, <3>5 DEF StepInv, Collecting
  <2>4. CASE ResumeState # <<>> /\ ~Resumable(ResumeState)
    <3>1. UNCHANGED <<step, stop, total>> /\ pc' = "failing"
      BY <1>3, <2>4 DEF Load
    <3> QED  BY <1>1, <3>1 DEF Collecting
  <2> QED  BY <2>2, <2>3, <2>4
<1>4. CASE Train
  <2>1. /\ pc = "loop" /\ pc' = "trained" /\ step < stop /\ step' = step + 1
        /\ UNCHANGED <<stop, total>>
    BY <1>4 DEF Train
  <2>2. stop <= total  BY <2>1 DEF StepInv
  <2>3. step' <= stop /\ step' <= total  BY <1>a, <2>1, <2>2, SMT
  <2> QED  BY <1>b, <2>1, <2>2, <2>3 DEF StepInv
<1>5. CASE GuardExit \/ Finish \/ Fail
  <2>1. step' = 0 /\ total' = total /\ pc' = "idle"
    BY <1>5 DEF GuardExit, Finish, Fail, End, Cleared
  <2>2. step' <= total'  BY <1>a, <2>1, SMT
  <2> QED  BY <1>b, <2>1, <2>2 DEF StepInv, Collecting
<1>6. CASE Raise \/ Crash
  <2>1. total' = total /\ pc' \in {"idle", "failing"} /\ (step' = 0 \/ step' = step)
    BY <1>6 DEF Raise, Crash, CutShort, Cleared
  <2>2. step' <= total'  BY <1>a, <2>1, SMT DEF StepInv
  <2> QED  BY <1>b, <2>1, <2>2 DEF StepInv, Collecting
<1>7. CASE Open \/ (\E proof \in BOOLEAN : Verify(proof)) \/ Draw
  <2>1. UNCHANGED <<step, stop, total>>
        /\ pc' \in {"verify", "load", "failing", "loop"}
        /\ (pc' = "loop" => pc = "loop")
    BY <1>7 DEF Open, Verify, Draw
  <2> QED  BY <1>1, <2>1 DEF StepInv, Collecting
<1>8. CASE SaveDue \/ Guard \/ WriteTemp \/ KeepPrevious \/ Publish \/ Register
           \/ Expire \/ Return \/ Saved \/ NoSaveDue \/ OnTime
  <2>1. UNCHANGED <<step, stop, total>>
        /\ pc \in {"trained", "expire", "saved", "clock"} \cup Collecting
    BY <1>8 DEF SaveDue, Guard, SaveFrom, WriteTemp, KeepPrevious, Publish,
                Register, Expire, Return, SaveStep, Saved, NoSaveDue, OnTime,
                Collecting
  <2> QED  BY <1>1, <2>1 DEF StepInv, Collecting
<1>9. CASE UNCHANGED vars
  BY <1>1, <1>9 DEF vars, StepInv
<1> QED  BY <1>2, <1>3, <1>4, <1>5, <1>6, <1>7, <1>8, <1>9, BeginIsLaunched
         DEF Next, Session

\* What a step does to the files under the name of an output: another output's
\* changes only when it expires.
LEMMA OwnFiles ==
  ASSUME TypeOK, [Next]_vars, NEW o \in Outputs, Exists(Own(o))'
  PROVE  \/ files'[Own(o)] = files[Own(o)]
         \/ Publish /\ o = out
<1> USE DEF Goto, diskVars, SameStore, SameCounts, SameSession, loopVars
<1>0. DiskType /\ SessionType  BY TypeParts
<1>a. /\ Own(o) \in Names /\ Own(o) \in Managed /\ out \in Outputs
  BY <1>0, NamesDiffer DEF SessionType
<1>b. /\ Own(o) # Previous(out) /\ Own(o) # Temp(out)
      /\ o # out => Own(o) # Own(out)
  BY DEF Own, Previous, Temp
<1>c. files'[Own(o)] # Absent  BY DEF Exists
<1>1. CASE WriteTemp \/ KeepPrevious \/ Publish \/ Expire
  BY <1>a, <1>b, <1>c, <1>1, SaveFiles
<1>2. CASE Raise \/ Crash
  BY <1>a, <1>2, SaveFiles DEF Raise, Crash
<1>3. CASE \/ Launched \/ Open \/ (\E proof \in BOOLEAN : Verify(proof)) \/ Load
           \/ Draw \/ Train \/ SaveDue \/ NoSaveDue \/ Register \/ Return \/ Saved
           \/ GuardExit \/ OnTime \/ Guard \/ Finish \/ Fail \/ UNCHANGED vars
  <2>1. UNCHANGED files
    BY <1>3 DEF Launched, Launch, Open, Verify, Load, Draw, Train, SaveDue, Guard,
                SaveFrom, NoSaveDue, Register, Return, SaveStep, Saved, GuardExit,
                OnTime, Finish, Fail, End, vars
  <2> QED  BY <2>1
<1> QED  BY <1>1, <1>2, <1>3, BeginIsLaunched DEF Next, Session

\* A step that writes no record that ends a session: the other records stay,
\* and so do the checkpoints they are held against.
LEMMA FinalStays ==
  ASSUME TypeOK, FinalInv, [Next]_vars,
         \A o \in Outputs : Final(o)' =>
           Final(o) /\ record'[o].chain = record[o].chain,
         pc \notin {"idle", "open"} \/ ~Publish
  PROVE  \A o \in Outputs :
           Final(o)' /\ Exists(Own(o))' => files'[Own(o)].chain = record'[o].chain
<1> SUFFICES ASSUME NEW o \in Outputs, Final(o)', Exists(Own(o))'
             PROVE  files'[Own(o)].chain = record'[o].chain
  OBVIOUS
<1>1. Final(o) /\ record'[o].chain = record[o].chain  OBVIOUS
<1>2. files'[Own(o)] = files[Own(o)]
  BY <1>1, OwnFiles DEF FinalInv
<1>3. Exists(Own(o))  BY <1>2 DEF Exists
<1> QED  BY <1>1, <1>2, <1>3 DEF FinalInv

\* Every step keeps records and checkpoints together.
LEMMA FinalStep ==
  TypeOK /\ StorageInv /\ StepInv /\ FinalInv /\ [Next]_vars => FinalInv'
<1> SUFFICES ASSUME TypeOK, StorageInv, StepInv, FinalInv, [Next]_vars
             PROVE  FinalInv'
  OBVIOUS
<1> USE DEF Goto, diskVars, SameStore, SameCounts, SameSession, loopVars
<1>0. DiskType /\ SessionType /\ LoopType  BY TypeParts
<1>a. step \in Nat /\ stop \in Nat /\ out \in Outputs
  BY <1>0 DEF SessionType, LoopType
<1>b. \A x : record' = [record EXCEPT ![out] = x] =>
        /\ record'[out] = x
        /\ \A o \in Outputs : o # out => record'[o] = record[o]
  BY <1>0, <1>a DEF DiskType
<1>c. ASSUME UNCHANGED record
      PROVE  \A o \in Outputs : Final(o)' =>
               Final(o) /\ record'[o].chain = record[o].chain
  BY <1>c DEF Final, HasRecord
<1>d. ASSUME NEW x, record' = [record EXCEPT ![out] = x],
             x = Torn \/ x.status \notin {"completed", "guard"}
      PROVE  /\ \A o \in Outputs : Final(o)' =>
                  Final(o) /\ record'[o].chain = record[o].chain
             /\ out' = out => ~Final(out)'
  <2>1. record'[out] = x /\ \A o \in Outputs : o # out => record'[o] = record[o]
    BY <1>b, <1>d
  <2> QED  BY <1>a, <1>d, <2>1 DEF Final, HasRecord
<1>e. pc \in {"idle", "open"} => ~Publish  BY DEF Publish, SaveStep
<1>1. CASE Launched
  <2>1. UNCHANGED record /\ pc' = "open" /\ last' = FALSE /\ pc = "idle"
    BY <1>1 DEF Launched, Launch, Cleared
  <2>2. \A o \in Outputs :
          Final(o)' /\ Exists(Own(o))' => files'[Own(o)].chain = record'[o].chain
    BY <1>c, <1>e, <2>1, FinalStays
  <2> QED  BY <2>1, <2>2 DEF FinalInv
<1>2. CASE Open \/ (\E proof \in BOOLEAN : Verify(proof))
  <2>0. \A p : Record("started", p).status = "started"  BY DEF Record
  <2>1. PICK x : record' = [record EXCEPT ![out] = x] /\ x.status = "started"
    BY <1>2, <2>0 DEF Open, Verify
  <2>2. /\ pc \in {"open", "verify"} /\ pc' \in {"verify", "load", "failing"}
        /\ last' = last /\ out' = out
    BY <1>2 DEF Open, Verify
  <2>3. \A o \in Outputs :
          Final(o)' /\ Exists(Own(o))' => files'[Own(o)].chain = record'[o].chain
    <3>1. ~Publish  BY <2>2 DEF Publish, SaveStep
    <3> QED  BY <1>d, <2>1, <3>1, FinalStays
  <2>4. ~Final(out)' /\ ~last  BY <1>d, <2>1, <2>2 DEF FinalInv
  <2> QED  BY <2>2, <2>3, <2>4 DEF FinalInv
<1>3. CASE Train \/ Saved
  <2>1. PICK x : record' = [record EXCEPT ![out] = x] /\ x.status = "running"
    BY <1>3 DEF Train, Saved, Record
  <2>2. out' = out /\ pc \in {"loop", "saved"}  BY <1>3 DEF Train, Saved
  <2>3. \A o \in Outputs :
          Final(o)' /\ Exists(Own(o))' => files'[Own(o)].chain = record'[o].chain
    BY <1>d, <2>1, <2>2, FinalStays
  <2>4. ~Final(out)'  BY <1>d, <2>1, <2>2
  <2>5. CASE Train
    <3>1. pc' = "trained"  BY <2>5 DEF Train
    <3> QED  BY <2>2, <2>3, <2>4, <3>1 DEF FinalInv, Final, HasRecord
  <2>6. CASE Saved
    <3>1. pc = "saved" /\ pc' = "clock" /\ files' = files /\ chain' = chain
      BY <2>6 DEF Saved
    <3>2. files'[Own(out')].chain = chain'
      BY <2>2, <3>1 DEF StorageInv, State
    <3> QED  BY <2>2, <2>3, <2>4, <3>1, <3>2 DEF FinalInv, Final, HasRecord
  <2> QED  BY <1>3, <2>5, <2>6
<1>4. CASE \/ Load \/ Draw \/ SaveDue \/ Guard \/ NoSaveDue \/ OnTime \/ WriteTemp
           \/ KeepPrevious \/ Publish \/ Register \/ Expire \/ Return
  <2>1. /\ UNCHANGED <<record, out, last>> /\ (Load \/ UNCHANGED chain)
        /\ pc \notin {"idle", "open"}
    BY <1>4 DEF Load, Draw, SaveDue, Guard, SaveFrom, NoSaveDue, OnTime, WriteTemp,
                KeepPrevious, Publish, Register, Expire, Return, SaveStep
  <2>2. \A o \in Outputs :
          Final(o)' /\ Exists(Own(o))' => files'[Own(o)].chain = record'[o].chain
    BY <1>c, <2>1, FinalStays
  <2>3. ~Final(out)  BY <2>1 DEF FinalInv
  <2>4. ~Final(out)'  BY <2>1, <2>3 DEF Final, HasRecord
  <2>5. pc' \notin {"open", "verify", "load"}
    BY <1>4 DEF Load, Draw, SaveDue, Guard, SaveFrom, NoSaveDue, OnTime, WriteTemp,
                KeepPrevious, Publish, Register, Expire, Return, SaveStep
  <2>6. pc' \in {"loop", "clock"} /\ last' /\ step' >= stop' /\ Exists(Own(out))' =>
          files'[Own(out')].chain = chain'
    <3>1. CASE Load  BY <3>1, <2>1 DEF Load, FinalInv
    <3>2. CASE Draw
      <4>1. step < stop /\ step' = step /\ stop' = stop  BY <3>2 DEF Draw
      <4> QED  BY <1>a, <4>1, SMT
    <3>3. CASE NoSaveDue
      <4>1. step # stop /\ pc = "trained" /\ step' = step /\ stop' = stop
        BY <3>3 DEF NoSaveDue, Due
      <4>2. step <= stop  BY <4>1 DEF StepInv
      <4> QED  BY <1>a, <4>1, <4>2, SMT
    <3>4. CASE OnTime
      <4>1. pc = "clock" /\ UNCHANGED <<files, step, stop, out, last, chain>>
        BY <3>4 DEF OnTime
      <4> QED  BY <4>1 DEF FinalInv, Exists
    <3>5. CASE \/ SaveDue \/ Guard \/ WriteTemp \/ KeepPrevious \/ Publish \/ Register
               \/ Expire \/ Return
      <4>1. pc' \notin {"loop", "clock"}
        BY <3>5 DEF SaveDue, Guard, SaveFrom, WriteTemp, KeepPrevious, Publish,
                    Register, Expire, Return, SaveStep
      <4> QED  BY <4>1
    <3> QED  BY <1>4, <3>1, <3>2, <3>3, <3>4, <3>5
  <2> QED  BY <2>1, <2>2, <2>4, <2>5, <2>6 DEF FinalInv, Final, HasRecord
<1>5. CASE Fail \/ Raise \/ Crash
  <2>1. /\ pc # "idle" /\ pc' \in {"idle", "failing"} /\ out' = out
        /\ pc' = "failing" => pc # "open"
    BY <1>5 DEF Fail, End, Raise, Crash, CutShort
  <2>2. \/ UNCHANGED record
        \/ record' = [record EXCEPT ![out] = Torn]
        \/ record' = [record EXCEPT ![out] = Record("failed", "no")]
    BY <1>5 DEF Fail, End, Raise, Crash, CutShort
  <2>3. Record("failed", "no").status = "failed"  BY DEF Record
  <2>4. /\ \A o \in Outputs : Final(o)' =>
             Final(o) /\ record'[o].chain = record[o].chain
        /\ UNCHANGED record \/ ~Final(out)'
    BY <1>c, <1>d, <2>1, <2>2, <2>3
  <2>5. \A o \in Outputs :
          Final(o)' /\ Exists(Own(o))' => files'[Own(o)].chain = record'[o].chain
    BY <1>e, <2>4, FinalStays
  <2>6. pc' = "failing" => ~Final(out)'
    BY <2>1, <2>4 DEF FinalInv, Final, HasRecord
  <2> QED  BY <2>1, <2>5, <2>6 DEF FinalInv
<1>6. CASE GuardExit \/ Finish
  <2>1. PICK x : /\ record' = [record EXCEPT ![out] = x] /\ x.chain = chain
                 /\ x.last = last \/ GuardExit
    BY <1>6 DEF GuardExit, Finish, End, Record
  <2>2. pc' = "idle" /\ out' = out /\ files' = files
    BY <1>6 DEF GuardExit, Finish, End
  <2>3. ASSUME NEW o \in Outputs, Final(o)', Exists(Own(o))'
        PROVE  files'[Own(o)].chain = record'[o].chain
    <3>1. CASE o = out
      <4>1. record'[o] = x  BY <1>b, <2>1, <3>1
      <4>2. CASE GuardExit
        <5>1. pc = "saved"  BY <4>2 DEF GuardExit
        <5> QED  BY <2>1, <2>2, <3>1, <4>1, <5>1 DEF StorageInv, State
      <4>3. CASE Finish /\ x.last = last
        <5>1. pc = "loop" /\ step >= stop  BY <4>3 DEF Finish
        <5>2. last /\ Exists(Own(out))  BY <2>2, <2>3, <3>1, <4>1, <4>3 DEF Final, Exists
        <5> QED  BY <2>1, <2>2, <3>1, <4>1, <5>1, <5>2 DEF FinalInv
      <4> QED  BY <1>6, <2>1, <4>2, <4>3
    <3>2. CASE o # out
      <4>1. record'[o] = record[o]  BY <1>b, <2>1, <3>2
      <4> QED  BY <2>2, <2>3, <4>1 DEF FinalInv, Final, HasRecord, Exists
    <3> QED  BY <3>1, <3>2
  <2> QED  BY <2>2, <2>3 DEF FinalInv
<1>7. CASE UNCHANGED vars
  BY <1>7 DEF vars, FinalInv, Final, HasRecord, Exists
<1> QED  BY <1>1, <1>2, <1>3, <1>4, <1>5, <1>6, <1>7, BeginIsLaunched DEF Next, Session

\* A record that ends a session and names a checkpoint is of the samples of
\* that checkpoint, and no checkpoint is past the end of its plan, for every
\* number of outputs and sessions (run_full and bounded_checkpoint_save).
THEOREM RecordsMatchCheckpoints == Spec => []RecordMatchesCheckpoint
<1>1. Init => StepInv /\ FinalInv
  <2> SUFFICES ASSUME Init PROVE StepInv /\ FinalInv  OBVIOUS
  <2>1. /\ pc = "idle" /\ step = 0 /\ total \in Totals
        /\ \A f \in Names : files[f] = Absent
        /\ \A o \in Outputs : record[o] = Absent
    BY DEF Init
  <2>2. step <= total  BY <2>1, TotalsType, SMT
  <2> QED  BY <2>1, <2>2 DEF StepInv, FinalInv, Whole, Final, HasRecord, Collecting
<1>2. TypeOK /\ StorageInv /\ StepInv /\ FinalInv /\ [Next]_vars =>
        (StepInv /\ FinalInv)'
  BY StepStep, FinalStep
<1>3. StepInv /\ FinalInv => RecordMatchesCheckpoint
  BY ManagedAreNames DEF StepInv, FinalInv, RecordMatchesCheckpoint, Final
<1> QED  BY TypeCorrect, StorageAlways, <1>1, <1>2, <1>3, PTL DEF Spec
=============================================================================
