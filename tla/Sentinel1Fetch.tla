--------------------------- MODULE Sentinel1Fetch ---------------------------
(***************************************************************************)
(* The Sentinel-1 fetch of backend/sentinel1.py behind its route           *)
(* (backend/routes/sentinel1.py), over the scene store.                    *)
(*                                                                         *)
(* Each request runs on a thread of the pool; one fetch at a time holds    *)
(* _FETCH_LOCK.  A fetch searches the catalogue page by page, picks two    *)
(* acquisitions, renders both tile by tile, and then drives one ingest of  *)
(* the store for each.  Uploads, which share no file with it, and          *)
(* listings, which only read, are left to SceneStore.  CDSE answers        *)
(* anything, or fails, at every call.                                      *)
(***************************************************************************)
EXTENDS CdseCatalogue, CdseReply, OpticalClouds, SequencesExt

CONSTANTS
  Fetches,    \* the requests
  Cases,      \* bound: what a request may ask for, what the catalogue then
              \* holds, and the size of the area on its UTM grid
  MaxPages    \* MAX_CATALOG_PAGES

ASSUME FetchAssumption == MaxPages \in Nat \ {0} /\ "free" \notin Fetches

\* A grid is snapped outward to whole pixels, so it has some; and a pinned run
\* has one orbit, of both its products.
ASSUME CasesAssumption ==
  /\ \A case \in Cases :
       /\ case.request.event \in BOOLEAN
       /\ case.grid \in [height : Nat \ {0}, width : Nat \ {0}]
       /\ \A x \in case.catalogue : x.at \in Int
  /\ \A side \in Sides : PinnedRun[side].id \in Products /\ PinnedRun[side].at \in Int
  /\ PinnedRun["before"].track = PinnedRun["after"].track

VARIABLES
  lock,   \* the fetch that holds _FETCH_LOCK, or "free"
  pc,     \* where a fetch is
  job,    \* its locals, until it stores what it has rendered
  called, \* history: the fetch has called CDSE
  raised, \* the exception on its way to the route, or "none"
  named,  \* the error names the before scene, as stored and unpaired
  status, \* the answer: an HTTP status, 0 while there is none
  \* the variables of the store
  phase, part, tiff, temp, final, committed, ingestRaised, stamped, written,
  reader, candidates, found, owed, unread

fetchVars == <<lock, pc, job, called, raised, named, status>>
storeVars == <<phase, part, tiff, temp, final, committed, ingestRaised,
               stamped, written, reader, candidates, found, owed, unread>>
vars == <<fetchVars, storeVars>>

Before(f) == <<f, "before">>
After(f) == <<f, "after">>
FetchScenes == Fetches \X Sides

Store == INSTANCE SceneStore
  WITH Scenes <- FetchScenes, Uploads <- {}, Limit <- 1, raised <- ingestRaised

Ended == {"idle", "answered", "dead"}

NoJob == [side |-> "none"]
NoRaster == [tiles |-> 0, copied |-> 0, pixels |-> {}, sources |-> {}]
Job(case) ==
  [request |-> case.request, catalogue |-> case.catalogue, grid |-> case.grid,
   side |-> "before", pages |-> 0, seen |-> [side \in Sides |-> {}],
   pair |-> <<>>, optical |-> <<>>, raster |-> [side \in Sides |-> NoRaster]]

Init ==
  /\ lock = "free"
  /\ pc = [f \in Fetches |-> "idle"]
  /\ job = [f \in Fetches |-> NoJob]
  /\ called = [f \in Fetches |-> FALSE]
  /\ raised = [f \in Fetches |-> "none"]
  /\ named = [f \in Fetches |-> FALSE]
  /\ status = [f \in Fetches |-> 0]
  /\ Store!Init

-----------------------------------------------------------------------------
(* fetch_sentinel1_pair, before and after fetch_pair.                      *)

Goto(f, p) == pc' = [pc EXCEPT ![f] = p]
Answer(f, code) == Goto(f, "answered") /\ status' = [status EXCEPT ![f] = code]
Forget(f) == job' = [job EXCEPT ![f] = NoJob]

\* The dates do not parse, the event is unknown, or there are no credentials.
Refuse(f) ==
  /\ pc[f] = "idle"
  /\ \E code \in {422, 503} : Answer(f, code)
  /\ UNCHANGED <<lock, job, called, raised, named, storeVars>>

\* Another fetch is in progress.
Conflict(f) ==
  /\ pc[f] = "idle"
  /\ lock # "free"
  /\ Answer(f, 409)
  /\ UNCHANGED <<lock, job, called, raised, named, storeVars>>

Enter(f) ==
  /\ pc[f] = "idle"
  /\ lock = "free"
  /\ lock' = f /\ Goto(f, "grid")
  /\ \E case \in Cases : job' = [job EXCEPT ![f] = Job(case)]
  /\ UNCHANGED <<called, raised, named, status, storeVars>>

\* The except clauses in their order: InvalidImageUpload, although a
\* ValueError, is met by the first; an OSError by none, and FastAPI answers it.
Status(e) ==
  CASE e \in {"cdse", "invalid"} -> 502
    [] e = "value" -> 422
    [] e \in {"storage", "os"} -> 500

\* Mutant: no finally clause.
MutRespond(f) ==
  /\ pc[f] = "raising"
  /\ Answer(f, Status(raised[f])) /\ Forget(f)
  /\ UNCHANGED <<lock, called, raised, named, storeVars>>

\* The except and finally clauses.
Respond(f) ==
  /\ pc[f] = "raising"
  /\ lock' = "free"
  /\ Answer(f, Status(raised[f])) /\ Forget(f)
  /\ UNCHANGED <<called, raised, named, storeVars>>

Raise(f, e) ==
  /\ Goto(f, "raising")
  /\ raised' = [raised EXCEPT ![f] = e]

-----------------------------------------------------------------------------
(* fetch_pair: the catalogue.                                              *)

Window(f) == Windows(job[f].request)
Strict(f) == job[f].request.event

\* The windows are ordered and the area fits its grid ...
Grid(f) ==
  /\ pc[f] = "grid"
  /\ Ordered(Window(f)) /\ Fits(job[f].grid)
  /\ Goto(f, "token")
  /\ UNCHANGED <<lock, job, called, raised, named, status, storeVars>>

\* ... or not, or the event has no pinned run.
GridFails(f) ==
  /\ pc[f] = "grid"
  /\ \/ ~(Ordered(Window(f)) /\ Fits(job[f].grid)) /\ Raise(f, "value")
     \/ Ordered(Window(f)) /\ Fits(job[f].grid) /\ Strict(f) /\ Raise(f, "cdse")
  /\ UNCHANGED <<lock, job, called, named, status, storeVars>>

AccessToken(f) ==
  /\ pc[f] = "token" /\ Goto(f, "search")
  /\ called' = [called EXCEPT ![f] = TRUE]
  /\ UNCHANGED <<lock, job, raised, named, status, storeVars>>

\* A call to CDSE fails or answers what no check accepts; or a rendered mosaic
\* cannot be written, an exception no clause meets.
CDSEFails(f) ==
  /\ pc[f] \in {"token", "search", "render"}
  /\ called' = [called EXCEPT ![f] = TRUE]
  /\ \/ Raise(f, "cdse")
     \/ pc[f] = "render" /\ Raise(f, "os")
  /\ UNCHANGED <<lock, job, named, status, storeVars>>

\* One side is done: the other is next, or the next stage.
NextSide(f, j, stage) ==
  IF j.side = "before"
    THEN job' = [job EXCEPT ![f] = [j EXCEPT !.side = "after"]] /\ UNCHANGED pc
    ELSE job' = [job EXCEPT ![f] = [j EXCEPT !.side = "before"]] /\ Goto(f, stage)

\* What a search by window has yet to answer.
Unseen(j) ==
  {x \in Within(j.catalogue, Windows(j.request)[j.side]) :
     Acquisition(x) \notin j.seen[j.side]}

Acquisitions(features) == {Acquisition(x) : x \in features}

\* Mutant: the link to the next page is not followed.
MutSearch(f) ==
  /\ pc[f] = "search" /\ ~Strict(f)
  /\ \E page \in SUBSET Unseen(job[f]) :
       NextSide(f, [job[f] EXCEPT !.seen[job[f].side] = Acquisitions(page)], "pick")
  /\ UNCHANGED <<lock, called, raised, named, status, storeVars>>

\* search: a page, and another for as long as there is one.  After MaxPages it
\* can only fail.
Search(f) ==
  /\ pc[f] = "search" /\ ~Strict(f) /\ job[f].pages < MaxPages
  /\ \E page \in SUBSET Unseen(job[f]) :
       LET j == [job[f] EXCEPT !.seen[job[f].side] = @ \cup Acquisitions(page),
                               !.pages = @ + 1]
       IN IF page = Unseen(job[f])
            THEN NextSide(f, [j EXCEPT !.pages = 0], "pick")
            ELSE job' = [job EXCEPT ![f] = j] /\ UNCHANGED pc
  /\ UNCHANGED <<lock, called, raised, named, status, storeVars>>

\* A catalogued event's sides are searched by their product ids.
SearchPinned(f) ==
  /\ pc[f] = "search" /\ Strict(f)
  /\ \E answer \in Answers :
       LET side == job[f].side
       IN IF PinnedAnswers(answer, side, Window(f)[side])
            THEN /\ NextSide(f, [job[f] EXCEPT !.seen[side] =
                                   Acquisitions({answer[1]})], "pick")
                 /\ UNCHANGED raised
            ELSE Raise(f, "cdse") /\ UNCHANGED job
  /\ UNCHANGED <<lock, called, named, status, storeVars>>

\* pick_pair, or the two pinned acquisitions when they are in order.
Pairs(f) ==
  LET seen == job[f].seen
  IN IF Strict(f)
       THEN {p \in seen["before"] \X seen["after"] : p[1].at < p[2].at}
       ELSE Closest(Eligible(seen["before"], seen["after"]))

Pick(f) ==
  /\ pc[f] = "pick"
  /\ \/ /\ \E p \in Pairs(f) : job' = [job EXCEPT ![f].pair = p]
        /\ Goto(f, "render") /\ UNCHANGED raised
     \/ Pairs(f) = {} /\ Raise(f, "cdse") /\ UNCHANGED job
  /\ UNCHANGED <<lock, called, named, status, storeVars>>

-----------------------------------------------------------------------------
(* fetch_pair: the rasters.                                                *)

Product(j) == j.pair[IF j.side = "before" THEN 1 ELSE 2].id

\* A tile of the raster, with the sources its answer names.
Copied(raster, tile, products) ==
  [tiles |-> raster.tiles + 1,
   copied |-> raster.copied + Cardinality(Pixels(tile)),
   pixels |-> raster.pixels \cup Pixels(tile),
   sources |-> raster.sources \cup products]

\* render: a tile is requested, its answer checked and its pixels copied; the
\* last one completes the raster of its date.
RenderTile(f) ==
  /\ pc[f] = "render"
  /\ \E products \in UsableSources[Product(job[f])][Strict(f)] :
       LET j == [job[f] EXCEPT !.raster[job[f].side] =
                   Copied(@, Tile(job[f].grid, @.tiles), products)]
       IN IF j.raster[j.side].tiles = TileCount(j.grid)
            THEN NextSide(f, j, "optical")
            ELSE job' = [job EXCEPT ![f] = j] /\ UNCHANGED pc
  /\ UNCHANGED <<lock, called, raised, named, status, storeVars>>

\* Its verdict goes with the after scene and into the answer.
OpticalCheck(f) ==
  /\ pc[f] = "optical"
  /\ \E lookup \in Lookups :
       LET around == job[f].pair[2].at IN
       IF Overflows(lookup, around) THEN Raise(f, "os") /\ UNCHANGED job
       ELSE /\ job' = [job EXCEPT ![f].optical = <<lookup, OpticalVerdict(lookup, around)>>]
            /\ Goto(f, "store_before") /\ UNCHANGED raised
  /\ UNCHANGED <<lock, called, named, status, storeVars>>

-----------------------------------------------------------------------------
(* fetch_pair: the store.                                                  *)

\* _ingest calls ingest_scene for one date ...
StartIngest(f) ==
  /\ \/ /\ pc[f] = "store_before" /\ Goto(f, "ingest_before")
        /\ Store!Begin(Before(f)) \/ Store!Reject(Before(f))
     \/ /\ pc[f] = "store_after" /\ Goto(f, "ingest_after")
        /\ Store!Begin(After(f)) \/ Store!Reject(After(f))
  /\ Forget(f)
  /\ UNCHANGED <<lock, called, raised, named, status>>

\* ... which returns ...
BeforeStored(f) ==
  /\ pc[f] = "ingest_before" /\ phase[Before(f)] = "answered"
  /\ Goto(f, "store_after")
  /\ UNCHANGED <<lock, job, called, raised, named, status, storeVars>>

PairStored(f) ==
  /\ pc[f] = "ingest_after" /\ phase[After(f)] = "answered"
  /\ lock' = "free"
  /\ Answer(f, 201)
  /\ UNCHANGED <<job, called, raised, named, storeVars>>

\* ... or raises: for the first date as it is, ...
BeforeFails(f) ==
  /\ pc[f] = "ingest_before" /\ phase[Before(f)] = "raised"
  /\ Raise(f, ingestRaised[Before(f)])
  /\ UNCHANGED <<lock, job, called, named, status, storeVars>>

\* Mutant: an invalid raster is not wrapped.
MutWrapped == {"storage"}

\* ... for the second, InvalidImageUpload and SceneStorageError become a
\* CDSEError that names the scene already stored.
Wrapped == {"invalid", "storage"}
AfterFails(f) ==
  /\ pc[f] = "ingest_after" /\ phase[After(f)] = "raised"
  /\ LET e == ingestRaised[After(f)] IN
       /\ Raise(f, IF e \in Wrapped THEN "cdse" ELSE e)
       /\ named' = [named EXCEPT ![f] = e \in Wrapped]
  /\ UNCHANGED <<lock, job, called, status, storeVars>>

-----------------------------------------------------------------------------

\* An ingest that has begun goes on.
Ingest ==
  /\ \E s \in FetchScenes : Store!Proceed(s)
  /\ UNCHANGED fetchVars

\* The process dies with its threads and its lock, and is restarted.
ProcessCrash ==
  /\ Store!ProcessCrash
  /\ lock' = "free"
  /\ pc' = [f \in Fetches |-> IF pc[f] \in Ended THEN pc[f] ELSE "dead"]
  /\ job' = [f \in Fetches |-> NoJob]
  /\ UNCHANGED <<called, raised, named, status>>

FetchStep(f) ==
  \/ Grid(f) \/ GridFails(f) \/ AccessToken(f) \/ CDSEFails(f)
  \/ Search(f) \/ SearchPinned(f) \/ Pick(f) \/ RenderTile(f) \/ OpticalCheck(f)
  \/ StartIngest(f) \/ BeforeStored(f) \/ PairStored(f) \/ BeforeFails(f)
  \/ AfterFails(f) \/ Respond(f)

Next ==
  \/ \E f \in Fetches : Refuse(f) \/ Conflict(f) \/ Enter(f) \/ FetchStep(f)
  \/ Ingest
  \/ ProcessCrash

Spec == Init /\ [][Next]_vars

-----------------------------------------------------------------------------
(* Properties.                                                             *)

Working(f) == pc[f] \notin Ended
Storing(f) == pc[f] \in {"ingest_before", "store_after", "ingest_after"}

Stored(s) == Store!Exists(s, "manifest")

\* One fetch at a time works, it is the one that holds the lock, and a fetch
\* that ended in any way, or died, holds it no longer.
OneFetch == \A f \in Fetches : Working(f) <=> lock = f

\* What the catalogue offered a fetch: the pairs of its windows, on one known
\* track and in order, whatever the pages they came on.
Offered(j) ==
  LET w == Windows(j.request)
  IN Eligible(Acquisitions(Within(j.catalogue, w["before"])),
              Acquisitions(Within(j.catalogue, w["after"])))

\* A verdict is of the pass closest to the radar's, of which the listing is
\* complete; one of "clear" has seen the least share of the whole area that
\* both thresholds leave, and no verdict is given without data.
VerdictIsRight(j) ==
  LET lookup == j.optical[1] v == j.optical[2] r == v.fractions
  IN /\ v.scene # NoScene =>
          /\ v.scene \in lookup.passes /\ ~lookup.more
          /\ \A t \in lookup.passes :
               Distance(v.scene, j.pair[2].at) <= Distance(t, j.pair[2].at)
     /\ v.verdict = "no_acquisition" <=> ~lookup.more /\ lookup.passes = {}
     /\ v.verdict = "clear" =>
          10000 * r.seen >= (100 - Cloudy) * MinObserved * InArea(lookup.raster)
     /\ v.verdict = "cloudy" =>
          10000 * r.hidden > Cloudy * MinObserved * InArea(lookup.raster)

\* "Nothing is stored unless both dates render and pass source provenance
\* validation" (fetch_pair): until then no ingest has begun, and what is then
\* stored are two acquisitions of one known track, in order: those an event
\* pins, from no other product, or else the closest the catalogue offers; each
\* with every pixel of its grid copied, and copied once.  One fetch at a time
\* does so ("one fetch per process guards the free CDSE quota").
PairIsSound ==
  /\ OneFetch
  /\ \A f \in Fetches :
      /\ Working(f) /\ ~Storing(f) /\ pc[f] # "raising" =>
           phase[Before(f)] = "idle" /\ phase[After(f)] = "idle"
      /\ pc[f] = "store_before" =>
           LET j == job[f]
           IN /\ j.pair[1].at < j.pair[2].at
              /\ j.pair[1].track = j.pair[2].track /\ j.pair[1].track # NoTrack
              /\ IF Strict(f)
                   THEN j.pair = <<PinnedRun["before"], PinnedRun["after"]>>
                   ELSE \A q \in Offered(j) : Closer(j.pair, q)
              /\ VerdictIsRight(j)
              /\ \A side \in Sides :
                   LET r == j.raster[side]
                       id == j.pair[IF side = "before" THEN 1 ELSE 2].id
                   IN /\ r.pixels = GridPixels(j.grid)
                      /\ r.copied = j.grid.height * j.grid.width
                      /\ Strict(f) => r.sources = {id}

\* The answer is true of the store: 201 when both scenes are in it; otherwise
\* the after scene is not, and the before scene is just when the error names
\* it, unless the clean-up of an ingest failed too.  The client is blamed (422)
\* only for its own request, before any call of CDSE and anything stored.
AnswerMatchesPair ==
  \A f \in Fetches : pc[f] = "answered" =>
    /\ status[f] = 201 <=> Stored(Before(f)) /\ Stored(After(f))
    /\ status[f] # 201 => ~Stored(After(f))
    /\ status[f] # 201 /\ raised[f] # "os" => (Stored(Before(f)) <=> named[f])
    /\ status[f] = 422 => ~called[f] /\ ~Stored(Before(f))

\* A fetch that works ends, so the lock is always free again for the next
\* request: CDSE calls end by their timeouts, file operations return, and a
\* catalogue that never ends is given up.
LockIsFreed == lock # "free" ~> lock = "free"

FairSpec ==
  /\ Spec
  /\ \A f \in Fetches : WF_vars(FetchStep(f))
  /\ WF_vars(Ingest)
=============================================================================
