----------------------------- MODULE Workspace ------------------------------
(***************************************************************************)
(* The analysis page of the browser: the scene list, the form that adds a  *)
(* scene and the panel that asks about the scene shown.                    *)
(*                                                                         *)
(* Every request is answered when it likes, so answers overtake each other *)
(* and arrive after the user went on.  An event handler runs to its end    *)
(* and the page is drawn again before the next one; drawing the page with  *)
(* another scene replaces the panel (its key is the scene), whose requests *)
(* go on without it.                                                       *)
(***************************************************************************)
EXTENDS Naturals, SequencesExt, FiniteSets

CONSTANTS
  Golden,     \* GOLDEN_OPTION, on every list
  Curated,    \* the other scenes of the pack
  Down,       \* the scenes of the pack whose image is missing
  Uploads,    \* identifiers the server gives to the scenes it stores
  Mine,       \* bound: scenes this page adds; the others come from elsewhere
  Clicks,     \* bound: what the user does beside typing and adding scenes
  None

GoldenQuestion == "golden"
Questions == {GoldenQuestion, "other"}

VARIABLES
  store,            \* the scenes the server has stored
  form,             \* UploadScene: file, request, scene it stored
  loads,            \* GET /api/scenes under way: what each has read
  catalog, catalogError, loadingCatalog,
  pending,          \* uploads answered to this page
  sceneId, sceneId2,
  result,           \* the answer whose evidence is drawn on the image
  panel,            \* the QueryPanel on the page
  calls,            \* POST /api/analyze under way
  clicks,
  refused           \* panels whose golden question was refused with a 503

server == <<store, refused>>
list == <<catalog, catalogError, loadingCatalog, loads>>
selection == <<sceneId, sceneId2, result>>
asking == <<panel, calls>>
pageVars == <<server, form, list, pending, selection, asking, clicks>>

-----------------------------------------------------------------------------
(* What the page shows.                                                    *)

Pack(c) == IF c = None THEN {} ELSE Curated

MutOptions(c) == {Golden} \cup Pack(c) \cup (IF c = None THEN pending ELSE c)

\* The pinned scene, the pack, the uploads listed and those not listed yet.
Options(c) == {Golden} \cup Pack(c) \cup pending \cup (IF c = None THEN {} ELSE c)

IsAvailable(c, s) == c = None \/ s \notin Down

Shown == IF sceneId \in Options(catalog) THEN sceneId ELSE Golden

Suggested(s) == IF s = Golden THEN GoldenQuestion
                ELSE IF s \in Curated THEN "other" ELSE ""

NewPanel(n, s) ==
  [n |-> n, scene |-> s, question |-> Suggested(s), second |-> None,
   result |-> None, failure |-> None, loading |-> None]

\* The panel drawn next: a new one when another scene is shown.
Drawn(p) == IF Shown' = p.scene THEN p ELSE NewPanel(p.n + 1, Shown')

-----------------------------------------------------------------------------
PageInit ==
  /\ store = {} /\ pending = {} /\ refused = {}
  /\ form = [file |-> FALSE, request |-> "none", scene |-> None]
  /\ loads = <<None>>
  /\ catalog = None /\ catalogError = FALSE /\ loadingCatalog = TRUE
  /\ sceneId = Golden /\ sceneId2 = None /\ result = None
  /\ panel = NewPanel(1, Golden)
  /\ calls = {}
  /\ clicks = 0

\* Somebody else adds a scene.
OtherUpload ==
  /\ \E u \in Uploads : u \notin store /\ store' = store \cup {u}
  /\ Cardinality(store' \ pending) <= Cardinality(Uploads) - Mine
  /\ UNCHANGED <<form, list, pending, selection, asking, clicks, refused>>

-----------------------------------------------------------------------------
(* The scene list: load, and the catalogue's answers.                      *)

Read(i) ==
  /\ loads[i] = None
  /\ loads' = [loads EXCEPT ![i] = store]
  /\ UNCHANGED <<server, form, catalog, catalogError, loadingCatalog, pending,
                 selection, asking, clicks>>

Listed(i) ==
  /\ loads[i] # None
  /\ catalog' = loads[i]
  /\ catalogError' = FALSE

ListFails(i) ==
  /\ catalogError' = TRUE
  /\ UNCHANGED catalog

LoadEnds(i) == loads' = RemoveAt(loads, i) /\ loadingCatalog' = FALSE

LoadAnswered(i) ==
  /\ Listed(i) \/ ListFails(i)
  /\ LoadEnds(i)
  /\ UNCHANGED <<server, form, pending, selection, calls, clicks>>
  /\ panel' = Drawn(panel)

Click == clicks < Clicks /\ clicks' = clicks + 1

Refresh ==
  /\ ~loadingCatalog
  /\ Click
  /\ loadingCatalog' = TRUE
  /\ loads' = Append(loads, None)
  /\ UNCHANGED <<server, form, catalog, catalogError, pending, selection, asking>>

Select(s) ==
  /\ s \in Options(catalog) /\ IsAvailable(catalog, s) /\ s # Shown
  /\ Click
  /\ sceneId' = s /\ sceneId2' = None /\ result' = None
  /\ UNCHANGED <<server, form, list, pending, calls>>
  /\ panel' = Drawn(panel)

-----------------------------------------------------------------------------
(* The form that adds a scene.                                             *)

\* A file of the wrong kind or size is not kept.
Choose(valid) ==
  /\ form.request = "none"
  /\ form' = [form EXCEPT !.file = valid, !.scene = None]
  /\ UNCHANGED <<server, list, pending, selection, asking, clicks>>

Submit ==
  /\ form.file /\ form.request = "none"
  /\ Cardinality(pending) < Mine
  /\ form' = [form EXCEPT !.request = "sent", !.scene = None]
  /\ UNCHANGED <<server, list, pending, selection, asking, clicks>>

Stored ==
  /\ form.request = "sent"
  /\ \E u \in Uploads \ store :
       /\ store' = store \cup {u}
       /\ form' = [form EXCEPT !.request = "stored", !.scene = u]
  /\ UNCHANGED <<refused, list, pending, selection, asking, clicks>>

\* The scene is shown before any catalogue lists it, and the list is loaded.
Uploaded ==
  /\ form.request = "stored"
  /\ form' = [form EXCEPT !.request = "none", !.file = FALSE]
  /\ pending' = pending \cup {form.scene}
  /\ sceneId' = form.scene /\ sceneId2' = None /\ result' = None
  /\ loadingCatalog' = TRUE
  /\ loads' = Append(loads, None)
  /\ UNCHANGED <<server, catalog, catalogError, calls, clicks>>
  /\ panel' = Drawn(panel)

\* Refused by the server, or the answer is lost with the scene stored.
UploadFails ==
  /\ form.request # "none"
  /\ form' = [form EXCEPT !.request = "none", !.scene = None]
  /\ UNCHANGED <<server, list, pending, selection, asking, clicks>>

-----------------------------------------------------------------------------
(* The answers to a question.                                              *)

Scenes == {Golden} \cup Curated \cup Uploads
Modes == {"live", "cached_result"}
ASSUME MarkersAssumption == None \notin Modes
Attempts == [scene : Scenes, question : Questions,
             second : Scenes \cup {None}, mode : Modes]

\* What the server answers, and the trace record in it.
Right(attempt) ==
  LET artifact == IF attempt.mode = "live" THEN None ELSE "ladder"
  IN [mode |-> attempt.mode, traced |-> attempt.mode, scene |-> attempt.scene,
      second |-> attempt.second, question |-> attempt.question,
      complete |-> TRUE, model |-> TRUE, chained |-> TRUE, formed |-> TRUE,
      artifact |-> artifact, tracedArtifact |-> artifact]

Values ==
  [mode |-> Modes \cup {"other"}, traced |-> Modes \cup {"other"}, scene |-> Scenes,
   second |-> Scenes \cup {None}, question |-> Questions,
   complete |-> BOOLEAN, model |-> BOOLEAN, chained |-> BOOLEAN, formed |-> BOOLEAN,
   artifact |-> {None, "ladder", "another"}, tracedArtifact |-> {None, "ladder", "another"}]

\* Bound: an answer is off in two of these at most.  So none is a whole cached
\* result for a live request, which would pass: the page does not compare the
\* mode with the one it asked for and relies on analyze_scene never doing that.
Replies(attempt) ==
  UNION {{[Right(attempt) EXCEPT ![a] = x, ![b] = y] : x \in Values[a], y \in Values[b]} :
           a \in DOMAIN Values, b \in DOMAIN Values}

\* validateAnalysis: a known mode, which the trace has too; the scenes and the
\* question of the request, and the model of the answer; a record of a hash
\* chain; and for a cached result, the artifact it is from.
OfRequest(r, attempt) ==
  /\ r.scene = attempt.scene /\ r.second = attempt.second
  /\ r.question = attempt.question /\ r.model

FromArtifact(r) ==
  r.mode = "cached_result" => r.artifact # None /\ r.artifact = r.tracedArtifact

ValidReply(r, attempt) ==
  /\ r.mode \in Modes /\ r.complete /\ r.traced = r.mode
  /\ OfRequest(r, attempt)
  /\ r.chained /\ r.formed /\ FromArtifact(r)

\* The attempts, each with what a valid answer says it is of.
Answers ==
  UNION {{<<attempt, [scene |-> r.scene, question |-> r.question,
                      second |-> r.second, mode |-> r.mode]>> :
            r \in {x \in Replies(attempt) : ValidReply(x, attempt)}} : attempt \in Attempts}

-----------------------------------------------------------------------------
(* The panel.                                                              *)

Type(q) ==
  /\ q # panel.question
  /\ panel' = [panel EXCEPT !.question = q]
  /\ UNCHANGED <<server, form, list, pending, selection, calls, clicks>>

SetSecond(s) ==
  /\ s = None \/ (s \in Options(catalog) \ {panel.scene} /\ IsAvailable(catalog, s))
  /\ s # panel.second
  /\ Click
  /\ panel' = [panel EXCEPT !.second = s]
  /\ sceneId2' = s
  /\ UNCHANGED <<server, form, list, pending, sceneId, result, calls>>

\* A request under way, and an answer shown, know the panel that asked.
Call(n, a) ==
  [panel |-> n, scene |-> a.scene, question |-> a.question,
   second |-> a.second, mode |-> a.mode]

MutRun(attempt) ==
  /\ panel' = [panel EXCEPT !.loading = attempt.mode, !.failure = None, !.result = None]
  /\ UNCHANGED result
  /\ calls' = calls \cup {Call(panel.n, attempt)}

\* What was shown goes, on the panel and on the image, before the request.
Run(attempt) ==
  /\ panel' = [panel EXCEPT !.loading = attempt.mode, !.failure = None, !.result = None]
  /\ result' = None
  /\ calls' = calls \cup {Call(panel.n, attempt)}

Ask ==
  /\ panel.question # "" /\ panel.loading = None
  /\ Click
  /\ Run([scene |-> panel.scene, question |-> panel.question,
          second |-> panel.second, mode |-> "live"])
  /\ UNCHANGED <<server, form, list, pending, sceneId, sceneId2>>

IsGolden(attempt) ==
  attempt.scene = Golden /\ attempt.question = GoldenQuestion /\ attempt.second = None

MutReplayable(f) == f # None /\ f.attempt.mode = "live" /\ IsGolden(f.attempt)

Replayable(f) ==
  f # None /\ f.status = 503 /\ f.attempt.mode = "live" /\ IsGolden(f.attempt)

ReplayCached ==
  /\ Replayable(panel.failure) /\ panel.loading = None
  /\ Click
  /\ Run([panel.failure.attempt EXCEPT !.mode = "cached_result"])
  /\ UNCHANGED <<server, form, list, pending, sceneId, sceneId2>>

AttemptOf(c) ==
  [scene |-> c.scene, question |-> c.question, second |-> c.second, mode |-> c.mode]

\* A valid answer goes to the panel that asked, if it is still there, and to
\* the page in any case.
Answered(c) ==
  /\ calls' = calls \ {c}
  /\ \E a \in {x \in Answers : x[1] = AttemptOf(c)} :
       LET shown == Call(c.panel, a[2]) IN
       /\ result' = shown
       /\ panel' = IF panel.n = c.panel
                   THEN [panel EXCEPT !.result = shown, !.loading = None] ELSE panel
  /\ UNCHANGED <<server, form, list, pending, sceneId, sceneId2, clicks>>

\* A 503, or another error, a lost answer or one the page does not accept (0).
Failed(c, status) ==
  /\ calls' = calls \ {c}
  /\ panel' = IF panel.n = c.panel
              THEN [panel EXCEPT !.loading = None,
                      !.failure = [status |-> status, attempt |-> AttemptOf(c)]]
              ELSE panel
  /\ refused' = IF status = 503 /\ IsGolden(c) /\ c.mode = "live"
                THEN refused \cup {c.panel} ELSE refused
  /\ UNCHANGED <<store, form, list, pending, selection, clicks>>

CallAnswered(c) == Answered(c) \/ \E status \in {0, 503} : Failed(c, status)

-----------------------------------------------------------------------------
PageNext ==
  \/ OtherUpload
  \/ \E i \in 1 .. Len(loads) : Read(i)
  \/ \E i \in 1 .. Len(loads) : LoadAnswered(i)
  \/ Refresh
  \/ \E s \in {Golden} \cup Curated \cup Uploads : Select(s)
  \/ \E valid \in BOOLEAN : Choose(valid)
  \/ Submit
  \/ Stored
  \/ Uploaded
  \/ UploadFails
  \/ \E q \in Questions : Type(q)
  \/ \E s \in {None, Golden} \cup Curated \cup Uploads : SetSecond(s)
  \/ Ask
  \/ ReplayCached
  \/ \E c \in calls : CallAnswered(c)

PageSpec == PageInit /\ [][PageNext]_pageVars

-----------------------------------------------------------------------------
\* A scene this page was told is stored stays on its list, whatever catalogue
\* arrives afterwards and whenever it was read; so the scene the user added
\* stays the scene shown until the user selects another.
UploadStays ==
  /\ pending \subseteq Options(catalog)
  /\ sceneId \in pending => panel.scene = sceneId

\* A cached result is asked for, and shown, only after the live request of
\* the same panel for the pinned scene and question was refused with a 503.
CachedOnlyByChoice ==
  LET cached == {x \in (calls \cup {result, panel.result}) \ {None} : x.mode = "cached_result"}
  IN \A x \in cached : IsGolden(x) /\ x.panel \in refused

\* The evidence drawn on the image is that of the answer the panel shows, and
\* of the scene shown, unless it comes from a panel that is gone.
EvidenceIsPanels ==
  /\ result \notin {None, panel.result} => result.panel < panel.n
  /\ panel.result # None => panel.result.scene = Shown /\ panel.failure = None
=============================================================================
