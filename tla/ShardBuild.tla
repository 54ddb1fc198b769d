----------------------------- MODULE ShardBuild -----------------------------
(***************************************************************************)
(* build_shard_set of data/bigearthnet_shards.py: the resumable build of a *)
(* set of shards from a selection of patches, in windows of shards, with   *)
(* one pass over the archive for each.  A build stops by a guard, raises   *)
(* or dies, and another is started on what it left.  The two files of a    *)
(* shard are one here; what the archive holds of a patch is its grade.     *)
(***************************************************************************)
EXTENDS OnePassShards, ShardAudit, SequencesExt, FiniteSetsExt

CONSTANTS
  Available,   \* bound: how many patches each tile may have
  Lists,       \* bound: the files --selection-id-list may name
  Uncaptioned, \* patches with no captioning row
  MinKept,     \* bound: least size of the shard set to keep apart from
  Total,       \* n_total
  PerShard,    \* patches_per_shard
  Windows,     \* the values shard_window may take
  RejectLimit, \* max_rejection_fraction, in percent
  SpeedAfter,  \* speed_guard_after_shards
  MaxFlawed,   \* bound: selected patches that are not good
  MaxRuns,     \* bound: builds ever started
  MaxAborts,   \* bound: builds that raise or die
  Torn         \* model value: a prefix of a file

\* Its tile and its place among the patches of the tile.
Patch == Nat \X Nat

ASSUME BuildAssumption ==
  /\ Total \in Nat \ {0} /\ PerShard \in Nat \ {0}
  /\ Windows \subseteq Nat \ {0}
  /\ RejectLimit \in Nat /\ SpeedAfter \in Nat \ {0}
  /\ \A l \in Lists : l.ids \in Seq(Patch)

\* A manifest describes the shards it holds.
Statuses == {"in_progress", "stopped", "complete"}
Manifest == [status : Statuses, shards : SUBSET [index : Nat, rows : Seq(Patch)]]
ASSUME MarkersAssumption ==
  /\ {Absent, Torn} \cap Manifest = {} /\ Torn \notin Seq(Patch)
  /\ Absent \notin Seq(Patch \cup {Wrong})
  /\ {Absent, Wrong} \cap Patch = {} /\ Absent \notin {Wrong, "eval"}

\* Every tile has a patch, and its patches are taken in some order.
ASSUME TilesAssumption ==
  \A a \in Available :
    /\ a \in [Tile -> Nat \ {0}]
    /\ \A t \in Tile :
         /\ TakeOrder[t][a[t]] \in [1 .. a[t] -> 1 .. a[t]]
         /\ IsInjective(TakeOrder[t][a[t]])

VARIABLES
  available,  \* patches of each tile in the split manifest
  excluded,   \* patches of the shard sets named by --exclude-shards
  listed,     \* the ID list it is taken from, or Absent
  candidates, \* the selection
  grade,      \* of each candidate in the archive
  disk,       \* the files of each shard
  mirror,     \* shards-manifest.json beside the shards
  published,  \* the published manifest
  exit,       \* how the last run of the script ended
  pc, status,
  window, first, pending, buffer, records, accepted, rejected, counted,
  progress,   \* locals of build_shard_set
  runs, aborts

envVars == <<available, excluded, listed, candidates, grade>>
diskVars == <<disk, mirror, published>>
vars == <<envVars, diskVars, exit, pc, status, window, first, pending, buffer,
          records, accepted, rejected, counted, progress, runs, aborts>>

\* good: accepted.  flawed: off size or with a raw zero.  incomplete: some of
\* its bands are not in the archive.  absent: none is.  broken: not decodable.
Grades == {"good", "flawed", "incomplete", "absent", "broken"}

ShardCount == (Len(candidates) + PerShard - 1) \div PerShard
Shards == 0 .. ShardCount-1
Ids(rows) == Range(rows)

\* The rank of a patch in the selection decides its shard.
Rank(p) == (CHOOSE i \in DOMAIN candidates : candidates[i] = p) - 1
ShardOf(p) == Rank(p) \div PerShard

\* The rows of a shard file, in selection order.
InOrder(patches) ==
  LET upTo(p) == {q \in patches : Rank(q) <= Rank(p)}
  IN [i \in 1 .. Cardinality(patches) |->
        CHOOSE p \in patches : Cardinality(upTo(p)) = i]

LowerOf(a, b) == IF a < b THEN a ELSE b

Init ==
  /\ available \in Available
  /\ excluded \in {kept \in {PatchesOf(side, available, a) :
                            side \in {"train", "eval"}, a \in Archives} :
                   Cardinality(kept) >= MinKept}
  /\ listed \in Lists \cup {Absent}
  /\ candidates = IF listed = Absent THEN Selection(available, Total)
                  ELSE SubSeq(listed.ids, 1, LowerOf(Total, Len(listed.ids)))
  /\ grade \in {g \in [Ids(candidates) -> Grades] :
                  Cardinality({p \in DOMAIN g : g[p] # "good"}) <= MaxFlawed}
  /\ disk = [k \in Shards |-> Absent]
  /\ mirror = Absent /\ published = Absent
  /\ exit = "none"
  /\ pc = "idle" /\ status = "complete" /\ window = 1 /\ first = 0
  /\ pending = {} /\ buffer = [k \in Shards |-> {}] /\ records = {}
  /\ accepted = 0 /\ rejected = {} /\ counted = 0 /\ progress = 0
  /\ runs = 0 /\ aborts = 0

Goto(p) == pc' = p
SameRun == UNCHANGED <<envVars, exit, window, runs, aborts>>
SameFiles == UNCHANGED diskVars

\* The process is gone, and its locals with it.
Over ==
  /\ Goto("idle") /\ status' = "complete" /\ window' = 1 /\ first' = 0
  /\ pending' = {} /\ buffer' = [k \in Shards |-> {}] /\ records' = {}
  /\ accepted' = 0 /\ rejected' = {} /\ counted' = 0 /\ progress' = 0
  /\ UNCHANGED <<envVars, runs>>

-----------------------------------------------------------------------------
\* verify_shard_files: each shard the manifest names is the file it describes.
Verifiable(shards) == \A r \in shards : disk[r.index] = r.rows

MutNamed(manifest) == {}
Named(manifest) == IF manifest = Absent THEN {} ELSE manifest.shards

\* read_selected_ids: the list is what its record says, and holds enough.
ListAccepted(list) ==
  /\ list.seed /\ list.digest
  /\ Total <= Len(list.ids) /\ Cardinality(Ids(list.ids)) = Len(list.ids)

\* The patches of the side in the split manifest.
Split == UNION {{t} \X (1 .. available[t]) : t \in Tile}

\* assert_split_purity, against that manifest.
Pure(selection) ==
  /\ Cardinality(Ids(selection)) = Len(selection)
  /\ Ids(selection) \subseteq Split

\* load_captions: each patch of the selection has a captioning row.
Captioned(selection) == Ids(selection) \cap Uncaptioned = {}

\* What main checks before it builds: the list, the side, the captions, and
\* that no patch is of the set to keep apart from.
Admitted ==
  /\ listed # Absent => ListAccepted(listed)
  /\ Pure(candidates)
  /\ Ids(candidates) \cap excluded = {}
  /\ Captioned(candidates)

\* It refuses what it does not admit, archive parts that are missing and a
\* disk that the build may fill.
Refuse ==
  /\ pc = "idle" /\ runs < MaxRuns
  /\ exit' \in {"refused", "raised"}
  /\ runs' = runs + 1
  /\ UNCHANGED <<envVars, diskVars, pc, status, window, first, pending, buffer,
                 records, accepted, rejected, counted, progress, aborts>>

\* A build starts on what the published manifest describes.
Start(w) ==
  /\ pc = "idle" /\ runs < MaxRuns
  /\ Admitted
  /\ published # Torn /\ Verifiable(Named(published))
  /\ Goto("window") /\ status' = "in_progress" /\ exit' = "none"
  /\ window' = LowerOf(w, ShardCount) /\ first' = 0
  /\ records' = Named(published)
  /\ pending' = Ids(candidates) \ UNION {Ids(r.rows) : r \in records'}
  /\ buffer' = [k \in Shards |-> {}]
  /\ accepted' = 0 /\ rejected' = {} /\ counted' = 0 /\ progress' = 0
  /\ runs' = runs + 1
  /\ UNCHANGED <<envVars, diskVars, aborts>>

\* json.loads raises on a manifest that was torn.
StartFails ==
  /\ pc = "idle" /\ runs < MaxRuns
  /\ published = Torn
  /\ exit' = "raised" /\ runs' = runs + 1
  /\ UNCHANGED <<envVars, diskVars, pc, status, window, first, pending, buffer,
                 records, accepted, rejected, counted, progress, aborts>>

InWindow(k) == first <= k /\ k < LowerOf(first + window, ShardCount)

\* The next window is skipped when each of its shards is recorded.
MutWindowDone ==
  \E k \in Shards : InWindow(k) /\ \E r \in records : r.index = k
WindowDone ==
  \A k \in Shards : InWindow(k) => \E r \in records : r.index = k

SkipWindow ==
  /\ pc = "window" /\ first < ShardCount /\ WindowDone
  /\ first' = first + window
  /\ SameRun /\ SameFiles
  /\ UNCHANGED <<pc, status, pending, buffer, records, accepted, rejected,
                 counted, progress>>

OpenWindow ==
  /\ pc = "window" /\ first < ShardCount /\ ~WindowDone
  /\ Goto("stream")
  /\ SameRun /\ SameFiles
  /\ UNCHANGED <<status, first, pending, buffer, records, accepted, rejected,
                 counted, progress>>

Complete ==
  /\ pc = "window" /\ first >= ShardCount
  /\ Goto("mirror") /\ status' = "complete"
  /\ SameRun /\ SameFiles
  /\ UNCHANGED <<first, pending, buffer, records, accepted, rejected, counted,
                 progress>>

-----------------------------------------------------------------------------
\* run_window: a pass over the archive, which is ordered by tile.
Wanted == {p \in pending : InWindow(ShardOf(p))}
Deciding == {p \in Wanted : grade[p] \in {"good", "flawed", "broken"}}
Earlier(p, q) == p[1] < q[1] \/ (p[1] = q[1] /\ p[2] <= q[2])
NextMember == CHOOSE p \in Deciding : \A q \in Deciding : Earlier(p, q)

Accept(p) ==
  /\ grade[p] = "good"
  /\ buffer' = [buffer EXCEPT ![ShardOf(p)] = @ \cup {p}]
  /\ accepted' = accepted + 1
  /\ Goto(IF Cardinality(buffer'[ShardOf(p)]) = PerShard THEN "write"
          ELSE "guards")
  /\ UNCHANGED <<rejected, counted>>

\* rejected_this_run is not raised: only the patches found incomplete at the
\* end of a pass are counted.
Reject(p) ==
  /\ grade[p] = "flawed"
  /\ rejected' = rejected \cup {p} /\ Goto("guards")
  /\ UNCHANGED <<buffer, accepted, counted>>

Decide ==
  /\ pc = "stream" /\ Deciding # {}
  /\ pending' = pending \ {NextMember}
  /\ Accept(NextMember) \/ Reject(NextMember)
  /\ SameRun /\ SameFiles
  /\ UNCHANGED <<status, first, records, progress>>

\* decode_member raises, and so does the build.
Undecodable ==
  /\ pc = "stream" /\ Deciding # {} /\ grade[NextMember] = "broken"
  /\ Over /\ SameFiles /\ exit' = "raised" /\ UNCHANGED aborts

\* BuildStop: the guard's reason is published with what is recorded.
Stop == Goto("mirror") /\ status' = "stopped"

\* write_shard and the record of its shard.
Write(k) ==
  /\ disk' = [disk EXCEPT ![k] = InOrder(buffer[k])]
  /\ records' = records \cup {[index |-> k, rows |-> InOrder(buffer[k])]}
  /\ buffer' = [buffer EXCEPT ![k] = {}]
  /\ progress' = progress + 1
  /\ UNCHANGED <<mirror, published>>

WriteFull ==
  /\ pc = "write" /\ Goto("mirror") /\ status' = "in_progress"
  /\ \E k \in Shards : Cardinality(buffer[k]) = PerShard /\ Write(k)
  /\ SameRun
  /\ UNCHANGED <<first, pending, accepted, rejected, counted>>

\* The free space is below the minimum before a shard is written.
DiskGuard ==
  /\ \/ pc = "write"
     \/ pc = "partial" /\ \E k \in Shards : buffer[k] # {}
  /\ Stop
  /\ SameRun /\ SameFiles
  /\ UNCHANGED <<first, pending, buffer, records, accepted, rejected, counted,
                 progress>>

\* The guards after a decided patch.
TooManyRejected(n) == 100 * n > RejectLimit * (accepted + n)
MayBeTooSlow == progress >= SpeedAfter

Guards ==
  /\ pc = "guards"
  /\ \/ ~TooManyRejected(counted) /\ Goto("stream") /\ UNCHANGED status
     \/ TooManyRejected(counted) /\ Stop
     \/ MayBeTooSlow /\ Stop
  /\ SameRun /\ SameFiles
  /\ UNCHANGED <<first, pending, buffer, records, accepted, rejected, counted,
                 progress>>

\* The archive has ended: what is still in flight is incomplete.
InFlight == {p \in Wanted : grade[p] = "incomplete"}
EndPass ==
  /\ pc = "stream" /\ Deciding = {}
  /\ Goto("partial")
  /\ rejected' = rejected \cup InFlight
  /\ counted' = counted + Cardinality(InFlight)
  /\ SameRun /\ SameFiles
  /\ UNCHANGED <<status, first, pending, buffer, records, accepted, progress>>

\* Shards that stayed short are written, in order, and not yet published.
WritePartial ==
  /\ pc = "partial" /\ UNCHANGED pc
  /\ \E k \in Shards :
       /\ buffer[k] # {} /\ \A j \in Shards : buffer[j] # {} => k <= j
       /\ Write(k)
  /\ SameRun
  /\ UNCHANGED <<status, first, pending, accepted, rejected, counted>>

PassDone ==
  /\ pc = "partial" /\ \A k \in Shards : buffer[k] = {}
  /\ Goto("window") /\ first' = first + window
  /\ SameRun /\ SameFiles
  /\ UNCHANGED <<status, pending, buffer, records, accepted, rejected, counted,
                 progress>>

-----------------------------------------------------------------------------
\* publish: the manifest beside the shards, then the published one.
MutPayload ==
  [status |-> status,
   shards |-> records \cup {[index |-> k, rows |-> InOrder(buffer[k])] :
                              k \in {j \in Shards : buffer[j] # {}}}]
Payload == [status |-> status, shards |-> records]

PublishMirror ==
  /\ pc = "mirror" /\ Goto("publish")
  /\ mirror' = Payload
  /\ SameRun
  /\ UNCHANGED <<disk, published, status, first, pending, buffer, records,
                 accepted, rejected, counted, progress>>

\* The build goes on after a full shard, and returns to main otherwise.
Publish ==
  /\ pc = "publish" /\ published' = Payload
  /\ Goto(IF status = "in_progress" THEN "guards" ELSE "verify")
  /\ SameRun
  /\ UNCHANGED <<disk, mirror, status, first, pending, buffer, records, accepted,
                 rejected, counted, progress>>

\* The end of main: the files are verified once more.
ReturnCode ==
  /\ pc = "verify"
  /\ exit' = IF ~Verifiable(records) THEN "problems"
             ELSE IF status = "complete" THEN "complete" ELSE "incomplete"
  /\ Over /\ SameFiles /\ UNCHANGED aborts

\* A call raises what is not a BuildStop, or the process dies: nothing is
\* published, and the file it was writing may be torn.
Abort ==
  /\ pc # "idle" /\ aborts < MaxAborts
  /\ aborts' = aborts + 1
  /\ \/ SameFiles
     \/ /\ pc \in {"write", "partial"} /\ UNCHANGED <<mirror, published>>
        /\ \E k \in Shards :
             buffer[k] # {} /\ disk' = [disk EXCEPT ![k] = Torn]
     \/ pc = "mirror" /\ mirror' = Torn /\ UNCHANGED <<disk, published>>
     \/ pc = "publish" /\ published' = Torn /\ UNCHANGED <<disk, mirror>>
  /\ Over /\ UNCHANGED exit

Next ==
  \/ \E w \in Windows : Start(w)
  \/ Refuse \/ StartFails \/ SkipWindow \/ OpenWindow \/ Complete
  \/ Decide \/ Undecodable \/ WriteFull \/ DiskGuard \/ Guards \/ EndPass
  \/ WritePartial \/ PassDone \/ PublishMirror \/ Publish \/ ReturnCode
  \/ Abort

Spec == Init /\ [][Next]_vars
-----------------------------------------------------------------------------
Readable(manifest) == manifest \notin {Absent, Torn}

\* A shard as the audit finds it: its record, and its files on the disk.
RowOf(p) ==
  [id |-> p, tile |-> p[1], split |-> Absent, caption |-> p, checksum |-> p]
Files(r) ==
  LET rows == IF disk[r.index] \in {Absent, Torn} THEN <<>> ELSE disk[r.index]
  IN [index |-> r.index, rows |-> Len(r.rows), digest |-> r.rows, npz |-> rows,
      split |-> "train", sidecar |-> [i \in DOMAIN rows |-> RowOf(rows[i])]]
TileOf == [p \in Split |-> p[1]]

\* What the audit may be given: --split and --exclude-shards may be left out.
Givens == [tileOf : {TileOf, Absent}, excluded : {excluded, {}}, uncaptioned : {Uncaptioned}]

\* The ids that a row may be found under.
Claimed == Split \cup excluded \cup Uncaptioned

\* verify_manifest: what it finds wrong with a manifest and its files.
Verified(manifest) ==
  /\ Verifiable(manifest.shards)
  /\ \A r, s \in manifest.shards :
       r # s => r.index # s.index /\ Ids(r.rows) \cap Ids(s.rows) = {}

\* The rows one uninterrupted pass would give shard k.
Good(k) == {p \in Ids(candidates) : grade[p] = "good" /\ ShardOf(p) = k}
GoodRows(k) == InOrder(Good(k))

\* "An interrupted build is a valid prefix": whenever the published manifest
\* can be read, its shards are whole, no patch is in two, and each holds
\* exactly the acceptable patches of its ranks in selection order, whatever
\* was interrupted, resumed, or rebuilt with another window.  (The copy beside
\* the shards may name a shard that a later build is writing again.)
ValidPrefix ==
  Readable(published) =>
    /\ Verified(published)
    /\ \A r \in published.shards : r.rows = GoodRows(r.index)

\* A build that reports completion, in its manifest or by its exit code, has
\* every shard that an uninterrupted build would have, after any sequence of
\* stops and resumes, and no patch of the other side or of the set it keeps
\* apart from.
CompleteIsWhole ==
  exit = "complete" \/ (Readable(published) /\ published.status = "complete") =>
    /\ \A k \in Shards :
         GoodRows(k) # <<>> =>
           Readable(published) /\ \E r \in published.shards : r.index = k
    /\ \A r \in Named(published) : \A p \in Ids(r.rows) :
         p \notin excluded /\ Side(p) = "train"

\* "The verifier is deliberately independent of the builder, so a builder bug
\* cannot hide behind the builder's own bookkeeping" (its docstring): it passes
\* every prefix a build may leave; it finds, whatever rows it samples, every
\* fault that its files and what it is given do not hide together; one that
\* they hide, a row under the id of another patch of its tile among them, it
\* finds exactly when it samples the row; and without the split manifest it
\* never finds a row of a wrong tile.
AuditIsRight ==
  pc = "idle" /\ Readable(published) /\ published.shards # {} =>
    LET set == {Files(r) : r \in published.shards}
        with(s, f) == (set \ {s}) \cup {f}
    IN \A given \in Givens :
         /\ \A sample \in Samples(set) : Passes(set, given, sample)
         /\ \A s \in set :
              /\ \A f \in Faults(set, s, Claimed, given) : ~Sound(with(s, f), given)
              /\ \A i \in DOMAIN s.sidecar :
                   /\ \A f \in Disguised(set, s, i, Claimed, given) :
                        /\ Sound(with(s, f), given)
                        /\ \A sample \in Samples(with(s, f)) :
                             SourceMatches(sample) <=> <<f, i>> \notin sample
                   /\ \A f \in Unseen(s, i, given) :
                        /\ Sound(with(s, f), given)
                        /\ \A sample \in Samples(with(s, f)) : SourceMatches(sample)

\* A shard that was published stays published: no later build forgets it or
\* writes it again (build_shard_set verifies and skips it).
NothingLost ==
  [][(Readable(published) /\ Readable(published')) =>
       /\ published.shards \subseteq published'.shards
       /\ \A r \in published.shards : disk'[r.index] = disk[r.index]]_vars

\* "The max-minus-min per-tile count of any prefix at most one while quotas
\* are unexhausted": of any prefix, a tile that is more than one patch behind
\* another has none left; and no selected patch is selected twice.
Balanced ==
  listed = Absent =>
  /\ Cardinality(Ids(candidates)) = Len(candidates)
  /\ Len(candidates) = LowerOf(Total, Dealt(available))
  /\ \A m \in 0 .. Len(candidates) : \A t, u \in Tile :
       PrefixCount(candidates, m, t) + 1 < PrefixCount(candidates, m, u)
         => PrefixCount(candidates, m, t) = available[t]

\* A selection is balanced, and the set built in one pass, which the build
\* keeps apart from, accounts for every one of its candidates.
PrefixBalanced == Balanced /\ Accounted

\* "Cumulative candidate rejection fraction must stay <= 0.01; a breach stops
\* the build": no guard lets a build go on whose rejections are over it.
BreachStops ==
  [][pc = "guards" /\ pc' = "stream" =>
       ~TooManyRejected(Cardinality(rejected))]_vars
=============================================================================
