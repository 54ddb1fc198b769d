---------------------------- MODULE OnePassShards ----------------------------
(***************************************************************************)
(* build_shards of data/bigearthnet_shards.py and the script around it:    *)
(* the shard set of either side that is built in a single pass over the    *)
(* archive, in archive order; the evaluation set is built so.  A pass is a *)
(* function of the members it meets, and a build that dies leaves no       *)
(* manifest.                                                               *)
(***************************************************************************)
EXTENDS ShardSelection, SequencesExt

CONSTANTS
  EvalTiles,     \* tiles of the evaluation side, numbered from Tiles on
  EvalOrder,     \* TakeOrder of that side
  EvalAvailable, \* patches of each of them
  Bands,         \* the canonical bands
  OnePassTotal,  \* n_total of such a build
  OnePassShard,  \* its patches_per_shard
  DiskBuffer,    \* LOCAL_DISK_BUFFER_BYTES, in patches
  Archives       \* bound: the members of the candidates, as sequences

\* A member of the archive is a band of a candidate, given by its rank.
Kinds == {"good", "zero", "size", "broken"}
Members(n) == [of : 1 .. n, band : Bands, kind : Kinds]

ASSUME OnePassAssumption ==
  /\ OnePassTotal \in Nat \ {0} /\ OnePassShard \in Nat \ {0} /\ DiskBuffer \in Nat
  /\ Archives \subseteq Seq(Members(OnePassTotal))

Eval == INSTANCE ShardSelection WITH Tiles <- EvalTiles, TakeOrder <- EvalOrder

\* The split manifest: every tile is of one side.
Side(p) == IF p[1] \in Tile THEN "train" ELSE "eval"

Chosen(side, available) ==
  IF side = "train" THEN GroupedSelection(available, OnePassTotal)
  ELSE LET s == Eval!GroupedSelection(EvalAvailable, OnePassTotal)
       IN [i \in DOMAIN s |-> <<Tiles + s[i][1], s[i][2]>>]

-----------------------------------------------------------------------------
\* inflight: the bands met of each candidate that is not decided.
NewPass(n) == [pending |-> 1 .. n, inflight |-> [c \in 1 .. n |-> {}], accepted |-> <<>>,
               rejected |-> {}, raised |-> FALSE]

\* Every candidate is accepted: the pass ends early.
Full(s) == Len(s.accepted) >= Cardinality(DOMAIN s.inflight)

\* A candidate is decided by its first band of the wrong size, or its last.
Decides(bands) ==
  (\E m \in bands : m.kind = "size") \/ {m.band : m \in bands} = Bands

Decided(s, m, bands) ==
  LET good == \A x \in bands : x.kind = "good" IN
  [s EXCEPT !.pending = @ \ {m.of}, !.inflight[m.of] = {},
            !.accepted = IF good THEN Append(@, m.of) ELSE @,
            !.rejected = IF good THEN @ ELSE @ \cup {m.of}]

\* A member is read; one that cannot be decoded raises.
Read(s, m) ==
  LET bands == {x \in s.inflight[m.of] : x.band # m.band} \cup {m} IN
  IF Full(s) \/ s.raised \/ m.of \notin s.pending THEN s
  ELSE IF m.kind = "broken" THEN [s EXCEPT !.raised = TRUE]
  ELSE IF Decides(bands) THEN Decided(s, m, bands)
  ELSE [s EXCEPT !.inflight[m.of] = bands]

Pass(archive, n) ==
  LET after[k \in 0 .. Len(archive)] ==
        IF k = 0 THEN NewPass(n) ELSE Read(after[k - 1], archive[k])
  IN after[Len(archive)]

-----------------------------------------------------------------------------
\* What was met only in part is rejected, what was never met only counted.
Incomplete(s) == {c \in DOMAIN s.inflight : s.inflight[c] # {}}
Rejected(s) == s.rejected \cup Incomplete(s)
NeverSeen(s) == s.pending \ (Range(s.accepted) \cup Rejected(s))

\* No candidate is accepted, or a member was broken.
Raises(s) == s.raised \/ s.accepted = <<>>

\* The accepted candidates in archive order, a shard at a time.
Plan(s) ==
  [k \in 1 .. (Len(s.accepted) + OnePassShard - 1) \div OnePassShard |->
     SubSeq(s.accepted, (k - 1) * OnePassShard + 1,
            IF k * OnePassShard < Len(s.accepted) THEN k * OnePassShard ELSE Len(s.accepted))]

Shortfall(s) ==
  Cardinality(DOMAIN s.inflight) - Len(s.accepted) - Cardinality(NeverSeen(s))

\* verify_manifest, of what has just been written: no patch twice, in a shard
\* or in two, and as many rows as the manifest says.
VerifiedPlan(s) ==
  LET rows == UNION {{k} \X DOMAIN Plan(s)[k] : k \in DOMAIN Plan(s)} IN
  /\ \A x, y \in rows : Plan(s)[x[1]][x[2]] = Plan(s)[y[1]][y[2]] => x = y
  /\ Cardinality(rows) = Len(s.accepted)

\* main of build_stage1_shards.py with the parts of the archive there or not,
\* and so much of the disk free: what it returns, 1 for an exception, ...
ExitCode(parts, free, archive) ==
  LET s == Pass(archive, OnePassTotal) IN
  CASE ~parts -> 2
    [] parts /\ free - OnePassTotal < DiskBuffer -> 3
    [] OTHER -> IF Raises(s) THEN 1 ELSE IF VerifiedPlan(s) THEN 0 ELSE 4

\* ... and what it reports as measured.
Measured(s) ==
  [rows |-> Len(s.accepted), selection |-> Cardinality(DOMAIN s.inflight),
   shortfall |-> Shortfall(s), neverSeen |-> Cardinality(NeverSeen(s)),
   rejected |-> Cardinality(Rejected(s))]

\* The patches of the set, as main of build_stage1_train_shards.py reads them
\* from its sidecars; a pass that raised left no manifest that names any.
PatchesOf(side, available, archive) ==
  LET chosen == Chosen(side, available)
      s == Pass(archive, Len(chosen))
  IN IF Raises(s) THEN {} ELSE {chosen[c] : c \in Range(s.accepted)}

\* A build succeeds with the disk and the archive it needs, unless it raises:
\* whatever falls short, verify_manifest finds nothing wrong.  Then no candidate
\* is both rejected and kept or unmet, the numbers reported say how many of the
\* selection each became, and every accepted patch is in one shard.
Accounted ==
  \A archive \in Archives :
    LET s == Pass(archive, OnePassTotal)
        m == Measured(s)
        room == OnePassTotal + DiskBuffer
    IN /\ \A parts \in BOOLEAN, free \in {room - 1, room} :
            ExitCode(parts, free, archive) = 0 <=> parts /\ free = room /\ ~Raises(s)
       /\ ~Raises(s) =>
            /\ Rejected(s) \cap (Range(s.accepted) \cup NeverSeen(s)) = {}
            /\ m.rows + m.rejected + m.neverSeen = m.selection /\ m.shortfall = m.rejected
            /\ \A c \in Range(s.accepted) :
                 Cardinality({k \in DOMAIN Plan(s) : c \in Range(Plan(s)[k])}) = 1
            /\ \A k \in DOMAIN Plan(s) : Len(Plan(s)[k]) <= OnePassShard
=============================================================================
