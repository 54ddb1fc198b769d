----------------------------- MODULE ShardAudit -----------------------------
(***************************************************************************)
(* The audit of a shard set by scripts/verify_stage1_train_shards.py: what *)
(* it finds in the files of a set, read anew and held against what it is   *)
(* given and, for a sample of the rows, against the archive.  A shard is   *)
(* its record in the manifest with its two files; the pixels, the caption  *)
(* and the checksum of a patch are written as the patch itself.            *)
(*                                                                         *)
(* given.tileOf is the split manifest, the tile of each patch of the side, *)
(* or Absent: --split may be left out.  given.excluded are the patches of  *)
(* the sets named by --exclude-shards, and none if it is left out;         *)
(* given.uncaptioned are the patches that --captions has no row for.       *)
(***************************************************************************)
EXTENDS Integers, Sequences, FiniteSets

CONSTANTS
  AuditGroup,    \* shards sampled together, 10 in the code
  AuditPerGroup, \* rows sampled of a group, 40 in the code
  AuditFloor,    \* rows sampled at least, 100 in the code
  Absent,        \* model value: no file, no or an empty entry
  Wrong          \* model value: not what the source holds

ASSUME AuditAssumption ==
  /\ AuditGroup \in Nat \ {0} /\ AuditPerGroup \in Nat /\ AuditFloor \in Nat \ {0}

Least(a, b) == IF a < b THEN a ELSE b
Most(a, b) == IF a < b THEN b ELSE a

Present(set) == {s \in set : s.npz # Absent}
Positions(set) ==
  UNION {{<<s, i>> : i \in DOMAIN s.sidecar} : s \in Present(set)}
RowAt(x) == x[1].sidecar[x[2]]

-----------------------------------------------------------------------------
(* The checks of every row.                                                *)

HashesMatch(set) == \A s \in set : s.npz = s.digest
RowsMatch(set) == \A s \in Present(set) : Len(s.sidecar) = s.rows
BandsPresent(set) == \A s \in Present(set) : Len(s.npz) = Len(s.sidecar)
CaptionsJoined(set) == \A x \in Positions(set) : RowAt(x).caption # Absent

\* caption_coverage: the source has a caption for every row, or it raises.
CaptionsFound(set, uncaptioned) ==
  \A x \in Positions(set) : RowAt(x).id \notin uncaptioned

\* The side is claimed by the sidecar and by a row that names one; with the
\* split manifest, it bears out the side and the tile.
SplitPure(set, tileOf) ==
  /\ \A s \in Present(set) : s.split = "train"
  /\ \A x \in Positions(set) :
       /\ RowAt(x).split \in {Absent, "train"}
       /\ tileOf # Absent =>
            RowAt(x).id \in DOMAIN tileOf /\ tileOf[RowAt(x).id] = RowAt(x).tile

NoDuplicates(set) ==
  \A x, y \in Positions(set) : RowAt(x).id = RowAt(y).id => x = y

NoOverlap(set, excluded) == \A x \in Positions(set) : RowAt(x).id \notin excluded

\* Mutant: the pixels are not hashed again.
MutChecksumsMatch(set) == TRUE

\* The checksum of each row is computed from its pixels, and compared.
ChecksumsMatch(set) ==
  \A x \in Positions(set) : x[1].npz[x[2]] = RowAt(x).checksum

Sound(set, given) ==
  /\ HashesMatch(set) /\ RowsMatch(set) /\ BandsPresent(set)
  /\ CaptionsJoined(set) /\ CaptionsFound(set, given.uncaptioned)
  /\ SplitPure(set, given.tileOf) /\ NoDuplicates(set)
  /\ NoOverlap(set, given.excluded) /\ ChecksumsMatch(set)

-----------------------------------------------------------------------------
(* The checks of a sample.                                                 *)

\* The shards by tens, in the order of the manifest.
GroupOf(set, s) ==
  Cardinality({t \in Present(set) : t.index < s.index}) \div AuditGroup
Groups(set) == {GroupOf(set, s) : s \in Present(set)}
RowsOf(set, g) == {x \in Positions(set) : GroupOf(set, x[1]) = g}

\* Some rows of each group, and more of any until there are enough.
Samples(set) ==
  LET rows == Positions(set)
      rowsOf == [g \in Groups(set) |-> RowsOf(set, g)]
      quota == [g \in DOMAIN rowsOf |-> Least(AuditPerGroup, Cardinality(rowsOf[g]))]
      dealt == {S \in SUBSET rows :
                  \A g \in DOMAIN rowsOf : Cardinality(S \cap rowsOf[g]) >= quota[g]}
      needed == Least(Cardinality(rows),
                      Most(AuditFloor, AuditPerGroup * Cardinality(Groups(set))))
      fewest == CHOOSE n \in {Cardinality(S) : S \in dealt} :
                  \A S \in dealt : n <= Cardinality(S)
  IN {S \in dealt : Cardinality(S) = Most(fewest, needed)}

\* The caption and the pixels are compared with those of the source, which
\* holds every patch of the sample.
SourceMatches(sample) ==
  /\ sample # {}
  /\ \A x \in sample :
       RowAt(x).caption = RowAt(x).id /\ x[1].npz[x[2]] = RowAt(x).id

\* all_passed.
Passes(set, given, sample) == Sound(set, given) /\ SourceMatches(sample)

-----------------------------------------------------------------------------
(* What may be wrong with one shard of a set.                              *)

Swapped(rows) == [i \in DOMAIN rows |-> rows[Len(rows) + 1 - i]]

\* The other ids that row i of s could be under.
OtherIds(s, i, ids) == ids \ {s.sidecar[i].id}

\* An id that only the source belies: of a patch that is nowhere in the set,
\* has a caption, is not kept apart, and is of the row's tile if that is known.
Plausible(set, row, id, given) ==
  /\ \A x \in Positions(set) : RowAt(x).id # id
  /\ id \notin given.uncaptioned \cup given.excluded
  /\ given.tileOf # Absent => id \in DOMAIN given.tileOf /\ given.tileOf[id] = row.tile

\* Faults that a file and its manifest do not hide together: a missing or an
\* altered file, rows and pixels that do not belong together, a row of another
\* side, without its caption, of another tile if that is known, or under an id
\* that it cannot have.
Faults(set, s, ids, given) ==
  {[s EXCEPT !.npz = Absent], [s EXCEPT !.rows = @ + 1], [s EXCEPT !.split = "eval"],
   [s EXCEPT !.sidecar = Tail(@)]}
  \cup (IF Len(s.npz) > 1
          THEN {[s EXCEPT !.npz = Swapped(@), !.digest = Swapped(@)]} ELSE {})
  \cup UNION {{[s EXCEPT !.npz[i] = Wrong],
               [s EXCEPT !.npz[i] = Wrong, !.digest[i] = Wrong],
               [s EXCEPT !.sidecar[i].split = "eval"],
               [s EXCEPT !.sidecar[i].caption = Absent]}
              \cup (IF given.tileOf # Absent
                      THEN {[s EXCEPT !.sidecar[i].tile = @ + 1]} ELSE {})
              \cup {[s EXCEPT !.sidecar[i].id = p] :
                      p \in {q \in OtherIds(s, i, ids) :
                               ~Plausible(set, s.sidecar[i], q, given)}} :
              i \in DOMAIN s.sidecar}

\* Faults that they do hide: other pixels with their own checksum and hash,
\* another caption, or the id of another patch that the row could be.
Disguised(set, s, i, ids, given) ==
  {[s EXCEPT !.npz[i] = Wrong, !.digest[i] = Wrong, !.sidecar[i].checksum = Wrong],
   [s EXCEPT !.sidecar[i].caption = Wrong]}
  \cup {[s EXCEPT !.sidecar[i].id = p] :
          p \in {q \in OtherIds(s, i, ids) : Plausible(set, s.sidecar[i], q, given)}}

\* A fault that only the split manifest shows: a row of another tile.
Unseen(s, i, given) ==
  IF given.tileOf = Absent THEN {[s EXCEPT !.sidecar[i].tile = @ + 1]} ELSE {}
=============================================================================
