----------------------------- MODULE SceneStore -----------------------------
(***************************************************************************)
(* The scene store of backend/services.py: ingest_scene, which writes a    *)
(* native raster, a preview and a manifest for each upload or fetched      *)
(* scene, and uploaded_scenes, which lists them.                           *)
(*                                                                         *)
(* A scene id is a fresh uuid, so it stands for its one ingest.  The       *)
(* upload route is a coroutine that calls ingest_scene without awaiting:   *)
(* uploads run one at a time on the event loop.  Every other ingest, and   *)
(* every listing, runs on a thread of the pool beside them.  A file is     *)
(* abstracted to absent, partial or whole; a rename is atomic.  The        *)
(* process may die between, or within, any two system calls.               *)
(***************************************************************************)
EXTENDS Naturals, SequencesExt

CONSTANTS
  Scenes,   \* the scene ids ever drawn
  Uploads,  \* those whose ingest runs on the event loop
  Limit     \* MAX_LISTED_UPLOADS

ASSUME ConstantsAssumption ==
  /\ Uploads \subseteq Scenes
  /\ Limit \in Nat \ {0}

VARIABLES
  phase,      \* where the ingest of a scene is
  part,       \* the file it is about to write or rename
  tiff,       \* is_tiff
  temp,       \* the temporary files of a scene
  final,      \* the files of a scene under their own names
  committed,  \* local of ingest_scene
  raised,     \* the exception the ingest ends with, or "none"
  stamped,    \* the scenes in the order of their uploaded_at
  written,    \* the scenes in the order of their manifests' mtime
  reader,     \* where the listing is
  candidates, \* local of uploaded_scenes
  found,      \* local of uploaded_scenes
  owed,       \* history: the scenes answered for when the listing began
  unread      \* history: the scenes it was kept from by a failed read

ingestVars == <<phase, part, tiff, temp, final, committed, raised, stamped,
                written>>
listVars == <<reader, candidates, found, owed, unread>>
vars == <<ingestVars, listVars>>

Parts == {"raster", "preview", "manifest"}
Content == {"absent", "partial", "whole"}
Phases == {"idle", "write", "stamp", "replace", "rollback", "cleanup",
           "answered", "raised", "dead"}

NoFiles == [p \in Parts |-> "absent"]

\* The files of a scene in the order in which they are written and renamed.
FirstPart(isTiff) == IF isTiff THEN "raster" ELSE "preview"
FollowingPart(p) == IF p = "raster" THEN "preview" ELSE "manifest"

Busy(s) == phase[s] \in Phases \ {"idle", "answered", "raised", "dead"}

Init ==
  /\ phase = [s \in Scenes |-> "idle"]
  /\ part = [s \in Scenes |-> "raster"]
  /\ tiff = [s \in Scenes |-> FALSE]
  /\ temp = [s \in Scenes |-> NoFiles]
  /\ final = [s \in Scenes |-> NoFiles]
  /\ committed = [s \in Scenes |-> <<>>]
  /\ raised = [s \in Scenes |-> "none"]
  /\ stamped = <<>>
  /\ written = <<>>
  /\ reader = "idle"
  /\ candidates = <<>>
  /\ found = <<>>
  /\ owed = {}
  /\ unread = {}

-----------------------------------------------------------------------------
(* ingest_scene.                                                           *)

\* The event loop runs one upload at a time, from its first statement to its
\* last.
MayStart(s) ==
  /\ phase[s] = "idle"
  /\ s \in Uploads => \A u \in Uploads : ~Busy(u)

\* The bytes or the declared metadata are refused before a file is touched.
Reject(s) ==
  /\ MayStart(s)
  /\ phase' = [phase EXCEPT ![s] = "raised"]
  /\ raised' = [raised EXCEPT ![s] = "invalid"]
  /\ UNCHANGED <<part, tiff, temp, final, committed, stamped, written, listVars>>

\* The bytes are decoded and the directories made.
Begin(s) ==
  /\ MayStart(s)
  /\ \E isTiff \in IF s \in Uploads THEN BOOLEAN ELSE {TRUE} :
       /\ tiff' = [tiff EXCEPT ![s] = isTiff]
       /\ part' = [part EXCEPT ![s] = FirstPart(isTiff)]
  /\ phase' = [phase EXCEPT ![s] = "write"]
  /\ UNCHANGED <<temp, final, committed, raised, stamped, written, listVars>>

\* One temporary file is written.
Write(s) ==
  /\ phase[s] = "write"
  /\ temp' = [temp EXCEPT ![s][part[s]] = "whole"]
  /\ phase' = [phase EXCEPT ![s] =
       CASE part[s] = "raster" -> "write"
         [] part[s] = "preview" -> "stamp"
         [] OTHER -> "replace"]
  /\ part' = [part EXCEPT ![s] =
       IF @ = "manifest" THEN FirstPart(tiff[s]) ELSE FollowingPart(@)]
  /\ written' = IF part[s] = "manifest" THEN Append(written, s) ELSE written
  /\ UNCHANGED <<tiff, final, committed, raised, stamped, listVars>>

\* Mutant: the handler forgets what a failed write left.
MutWriteFails(s) ==
  /\ phase[s] = "write"
  /\ \E left \in {"absent", "partial"} : temp' = [temp EXCEPT ![s][part[s]] = left]
  /\ phase' = [phase EXCEPT ![s] = "replace"]
  /\ part' = [part EXCEPT ![s] = FirstPart(tiff[s])]
  /\ UNCHANGED <<tiff, final, committed, raised, stamped, written, listVars>>

\* A write fails, after some bytes or none.
WriteFails(s) ==
  /\ phase[s] = "write"
  /\ \E left \in {"absent", "partial"} : temp' = [temp EXCEPT ![s][part[s]] = left]
  /\ phase' = [phase EXCEPT ![s] = "rollback"]
  /\ UNCHANGED <<part, tiff, final, committed, raised, stamped, written, listVars>>

\* The manifest is built and validated, and uploaded_at is read from the clock.
Stamp(s) ==
  /\ phase[s] = "stamp"
  /\ phase' = [phase EXCEPT ![s] = "write"]
  /\ stamped' = Append(stamped, s)
  /\ UNCHANGED <<part, tiff, temp, final, committed, raised, written, listVars>>

\* The preview cannot be read back, or the manifest does not validate.
StampFails(s) ==
  /\ phase[s] = "stamp"
  /\ phase' = [phase EXCEPT ![s] = "rollback"]
  /\ UNCHANGED <<part, tiff, temp, final, committed, raised, stamped, written, listVars>>

\* Mutant: only what is renamed last is remembered.
MutReplace(s) ==
  /\ phase[s] = "replace"
  /\ final' = [final EXCEPT ![s][part[s]] = temp[s][part[s]]]
  /\ temp' = [temp EXCEPT ![s][part[s]] = "absent"]
  /\ committed' = [committed EXCEPT ![s] = <<part[s]>>]
  /\ phase' = [phase EXCEPT ![s] = IF part[s] = "manifest" THEN "cleanup" ELSE @]
  /\ part' = [part EXCEPT ![s] = FollowingPart(@)]
  /\ UNCHANGED <<tiff, raised, stamped, written, listVars>>

\* Mutant: the manifest is renamed first.
MutReplaceManifestFirst(s) ==
  LET p == CASE part[s] = FirstPart(tiff[s]) -> "manifest"
             [] part[s] = "manifest" -> "preview"
             [] OTHER -> "raster"
  IN /\ phase[s] = "replace"
     /\ final' = [final EXCEPT ![s][p] = temp[s][p]]
     /\ temp' = [temp EXCEPT ![s][p] = "absent"]
     /\ committed' = [committed EXCEPT ![s] = Append(@, p)]
     /\ phase' = [phase EXCEPT ![s] = IF part[s] = "manifest" THEN "cleanup" ELSE @]
     /\ part' = [part EXCEPT ![s] = FollowingPart(@)]
     /\ UNCHANGED <<tiff, raised, stamped, written, listVars>>

\* One temporary file is renamed to its own name.
Replace(s) ==
  /\ phase[s] = "replace"
  /\ final' = [final EXCEPT ![s][part[s]] = temp[s][part[s]]]
  /\ temp' = [temp EXCEPT ![s][part[s]] = "absent"]
  /\ committed' = [committed EXCEPT ![s] = Append(@, part[s])]
  /\ phase' = [phase EXCEPT ![s] = IF part[s] = "manifest" THEN "cleanup" ELSE @]
  /\ part' = [part EXCEPT ![s] = FollowingPart(@)]
  /\ UNCHANGED <<tiff, raised, stamped, written, listVars>>

ReplaceFails(s) ==
  /\ phase[s] = "replace"
  /\ phase' = [phase EXCEPT ![s] = "rollback"]
  /\ UNCHANGED <<part, tiff, temp, final, committed, raised, stamped, written, listVars>>

\* The handler unlinks what was renamed, in that order ...
Unlink(s) ==
  /\ phase[s] = "rollback"
  /\ committed[s] # <<>>
  /\ final' = [final EXCEPT ![s][Head(committed[s])] = "absent"]
  /\ committed' = [committed EXCEPT ![s] = Tail(@)]
  /\ UNCHANGED <<phase, part, tiff, temp, raised, stamped, written, listVars>>

\* ... and then raises SceneStorageError.
RaiseStorageError(s) ==
  /\ phase[s] = "rollback"
  /\ committed[s] = <<>>
  /\ phase' = [phase EXCEPT ![s] = "cleanup"]
  /\ raised' = [raised EXCEPT ![s] = "storage"]
  /\ UNCHANGED <<part, tiff, temp, final, committed, stamped, written, listVars>>

\* An unlink fails too: its OSError leaves the handler in the place of
\* SceneStorageError.
UnlinkFails(s) ==
  /\ phase[s] = "rollback"
  /\ committed[s] # <<>>
  /\ phase' = [phase EXCEPT ![s] = "cleanup"]
  /\ raised' = [raised EXCEPT ![s] = "os"]
  /\ UNCHANGED <<part, tiff, temp, final, committed, stamped, written, listVars>>

\* The finally clause unlinks the temporaries, ignoring failures, and
\* ingest_scene returns or raises.
CleanUp(s) ==
  /\ phase[s] = "cleanup"
  /\ \E kept \in SUBSET Parts :
       temp' = [temp EXCEPT ![s] = [p \in Parts |-> IF p \in kept THEN @[p] ELSE "absent"]]
  /\ phase' = [phase EXCEPT ![s] = IF raised[s] = "none" THEN "answered" ELSE "raised"]
  /\ UNCHANGED <<part, tiff, final, committed, raised, stamped, written, listVars>>

-----------------------------------------------------------------------------
(* uploaded_scenes.                                                        *)

Exists(s, p) == final[s][p] # "absent"

\* _uploaded_scene: the manifest parses and validates, and the preview exists.
Usable(s) == final[s]["manifest"] = "whole" /\ Exists(s, "preview")

\* The members of a set in an order of all scenes, the latest first.  No scene
\* is in the order twice.
Place(order, s) == CHOOSE i \in DOMAIN order : order[i] = s
NewestFirst(order, set) ==
  LET listed == set \cap ToSet(order)
  IN CHOOSE l \in [1 .. Cardinality(listed) -> listed] :
       \A i, j \in DOMAIN l : i < j => Place(order, l[i]) > Place(order, l[j])

\* The manifests are collected, the latest mtime first.
List ==
  /\ reader \in {"idle", "listed"}
  /\ reader' = "looking"
  /\ candidates' = NewestFirst(written, {s \in Scenes : Exists(s, "manifest")})
  /\ found' = <<>>
  /\ owed' = {s \in Scenes : phase[s] = "answered"}
  /\ unread' = {}
  /\ UNCHANGED ingestVars

\* The scan of the directory fails, and an empty listing is returned.
ListFails ==
  /\ reader \in {"idle", "listed"}
  /\ reader' = "listed"
  /\ found' = <<>>
  /\ owed' = {s \in Scenes : phase[s] = "answered"}
  /\ unread' = Scenes
  /\ UNCHANGED <<candidates, ingestVars>>

\* Mutant: the listing stops one scene early.
MutLook ==
  /\ reader = "looking"
  /\ candidates # <<>>
  /\ Len(found) < Limit
  /\ found' = IF Usable(Head(candidates)) /\ Len(found) + 1 < Limit
              THEN Append(found, Head(candidates)) ELSE found
  /\ candidates' = Tail(candidates)
  /\ UNCHANGED <<reader, owed, unread, ingestVars>>

\* The next candidate is read; an unusable one is skipped.
Look ==
  /\ reader = "looking"
  /\ candidates # <<>>
  /\ Len(found) < Limit
  /\ found' = IF Usable(Head(candidates)) THEN Append(found, Head(candidates)) ELSE found
  /\ candidates' = Tail(candidates)
  /\ UNCHANGED <<reader, owed, unread, ingestVars>>

\* Its manifest, whole or not, or its preview cannot be read: it is skipped.
LookFails ==
  /\ reader = "looking"
  /\ candidates # <<>>
  /\ Len(found) < Limit
  /\ unread' = unread \cup {Head(candidates)}
  /\ candidates' = Tail(candidates)
  /\ UNCHANGED <<reader, found, owed, ingestVars>>

\* The scenes found are sorted by uploaded_at, the latest first, and returned.
Listed ==
  /\ reader = "looking"
  /\ candidates = <<>> \/ Len(found) >= Limit
  /\ reader' = "listed"
  /\ found' = NewestFirst(stamped, ToSet(found))
  /\ candidates' = <<>>
  /\ UNCHANGED <<owed, unread, ingestVars>>

-----------------------------------------------------------------------------

\* The process dies and is restarted: a file being written is left partial,
\* and nothing removes what is left.
ProcessCrash ==
  /\ \E torn \in SUBSET {s \in Scenes : phase[s] = "write"} :
       temp' = [s \in Scenes |->
         IF s \in torn THEN [temp[s] EXCEPT ![part[s]] = "partial"] ELSE temp[s]]
  /\ phase' = [s \in Scenes |-> IF Busy(s) THEN "dead" ELSE phase[s]]
  /\ reader' = "idle"
  /\ candidates' = <<>>
  /\ found' = <<>>
  /\ owed' = {}
  /\ unread' = {}
  /\ UNCHANGED <<part, tiff, final, committed, raised, stamped, written>>

\* The steps of ingest_scene after its first.
Proceed(s) ==
  \/ Write(s)
  \/ WriteFails(s)
  \/ Stamp(s)
  \/ StampFails(s)
  \/ Replace(s)
  \/ ReplaceFails(s)
  \/ Unlink(s)
  \/ UnlinkFails(s)
  \/ RaiseStorageError(s)
  \/ CleanUp(s)

Next ==
  \/ \E s \in Scenes : Reject(s) \/ Begin(s) \/ Proceed(s)
  \/ List
  \/ ListFails
  \/ Look
  \/ LookFails
  \/ Listed
  \/ ProcessCrash

Spec == Init /\ [][Next]_vars

-----------------------------------------------------------------------------
(* Properties.                                                             *)

\* The variables of the ingests hold what their code counterparts may hold.
IngestTypes ==
  /\ phase \in [Scenes -> Phases]
  /\ part \in [Scenes -> Parts]
  /\ tiff \in [Scenes -> BOOLEAN]
  /\ temp \in [Scenes -> [Parts -> Content]]
  /\ final \in [Scenes -> [Parts -> Content]]
  /\ committed \in [Scenes -> Seq(Parts)]
  /\ raised \in [Scenes -> {"none", "invalid", "storage", "os"}]
  /\ stamped \in Seq(Scenes)
  /\ written \in Seq(Scenes)

\* A manifest under its own name is the last file of a complete scene: in
\* every interleaving, failure and crash, whoever finds one finds the whole
\* preview and, for a TIFF, the whole native raster behind it.
ManifestMeansWhole ==
  \A s \in Scenes :
    Exists(s, "manifest") =>
      \A p \in Parts \ (IF tiff[s] THEN {} ELSE {"raster"}) : final[s][p] = "whole"

\* An ingest that raised InvalidImageUpload or SceneStorageError left none of
\* the scene's files under their own names, whichever step failed.
FailureLeavesNothing ==
  \A s \in Scenes :
    phase[s] = "raised" /\ raised[s] \in {"invalid", "storage"} => final[s] = NoFiles

\* The caller's answer and the store agree: a scene whose id was returned is
\* in the store, across later crashes and the failures of other ingests, and
\* one whose ingest raised, of whatever exception, is not.
AnswerMatchesStore ==
  \A s \in Scenes :
    /\ phase[s] = "answered" => Exists(s, "manifest")
    /\ phase[s] = "raised" => ~Exists(s, "manifest")

\* A listing holds every scene whose id had been returned when it began,
\* unless it is full or the scene is one a failed read kept it from: its own
\* manifest could not be read, or the directory could not, which hides them
\* all.  What is being ingested beside it, what failed, what died half way and
\* the failed read of another scene hide none.
ListingOwesAnswered ==
  reader = "listed" => owed \subseteq ToSet(found) \cup unread \/ Len(found) = Limit
=============================================================================
