------------------------------ MODULE Decisions ------------------------------
(***************************************************************************)
(* The decisions taken before anything runs: what a question asks for and  *)
(* which capability answers it, and whether a pair of uploads may be used. *)
(* A behaviour takes one of the inputs and decides it.                     *)
(***************************************************************************)
EXTENDS Question, Pairing

CONSTANTS
  PlanRequests,   \* questions with the scenes, the sensor and the capability named
  Pairs       \* pairs of uploaded scenes

\* A day is its number in the year, a year stated apart is one that is seen,
\* and a raster has pixels.
ASSUME PlanRequestsAssumption ==
  \A r \in PlanRequests :
    /\ r.question.dates \in Seq([year : Nat, day : 0 .. 366])
    /\ r.question.years \subseteq YearsSeen
ASSUME PairsAssumption ==
  \A p \in Pairs : \A u \in {p.first, p.second} :
    u.time \in Int /\ u.raster.width \in Nat \ {0}

VARIABLES asked, decision
decisionVars == <<asked, decision>>

Undecided == [kind |-> "undecided"]

DecisionInit ==
  /\ \/ asked \in [kind : {"plan"}, request : PlanRequests]
     \/ asked \in [kind : {"pair"}, workflow : Capabilities, pair : Pairs]
  /\ decision = Undecided

PlanAnalysis ==
  /\ asked.kind = "plan" /\ decision = Undecided
  /\ ~Refused(asked.request)
  /\ \E ready \in BOOLEAN :
       decision' = [kind |-> "plan", plan |-> Plan(asked.request, ready)]
  /\ UNCHANGED asked

Refuse ==
  /\ asked.kind = "plan" /\ decision = Undecided
  /\ Refused(asked.request)
  /\ decision' = [kind |-> "refused", status |-> 422]
  /\ UNCHANGED asked

EvaluateCompatibility ==
  /\ asked.kind = "pair" /\ decision = Undecided
  /\ decision' = [kind |-> "pair", verdict |->
                     Compatibility(asked.workflow, asked.pair.first, asked.pair.second)]
  /\ UNCHANGED asked

DecisionNext == PlanAnalysis \/ Refuse \/ EvaluateCompatibility

DecisionSpec == DecisionInit /\ [][DecisionNext]_decisionVars

-----------------------------------------------------------------------------
Rank == [single_image_vqa |-> 1, grounding |-> 2, change_vqa |-> 3, optical_sar |-> 4]

\* Without a capability named, the parse never routes a question lower than
\* the keyword rules do, except a dated flood whose sensors are not joined:
\* two are named apart, or none and "cross modal" is said.
NoDowngrade(r, d) ==
  LET keyword == KeywordSelection(r.question).capability IN
  r.requested = "none" /\ Rank[d.capability] < Rank[keyword]
  => /\ keyword = "optical_sar" /\ d.capability = "change_vqa"
     /\ FloodEvent(r.question) /\ r.question.dates # <<>>
     /\ ~JoinsSensors(r.question.words)

\* The years of 19xx and 20xx that a question states, with a date or apart.
StatedYears(q) == {y \in 1900 .. 2099 : y \in q.years \/ \E x \in ToSet(q.dates) : x.year = y}

\* The year a date of the question is in, if it is in one that has its day:
\* its own, or, for a date without, the one stated year, whatever years of
\* other centuries the question has too.
YearOf(q, x) ==
  {y \in IF x.year = NoYear THEN StatedYears(q) ELSE {x.year} :
     (x.year = NoYear => StatedYears(q) = {y}) /\ HasDay(y, x.day)}

\* The dates of a plan are dates of the question, in the years they are in,
\* the first before the second and no date of the question outside the two;
\* one that is in no year yields no dates at all, and if that is for want of
\* a year the plan lists it as lacking.
NothingGuessed(q, d) ==
  LET both == NoDate \notin ToSet(d.dates) IN
  /\ both => d.dates[1] < d.dates[2]
  /\ \A v \in ToSet(d.dates) \ {NoDate} :
       \E x \in ToSet(q.dates) : \E y \in YearOf(q, x) : v = DateOf(y, x.day)
  /\ d.dates # <<NoDate, NoDate>> =>
       \A x \in ToSet(q.dates) : \E y \in YearOf(q, x) :
         both => d.dates[1] <= DateOf(y, x.day) /\ DateOf(y, x.day) <= d.dates[2]
  /\ (\E x \in ToSet(q.dates) : x.year = NoYear /\ Cardinality(StatedYears(q)) # 1)
       => "year" \in d.lacks /\ d.dates = <<NoDate, NoDate>>

\* What a plan calls executable, execute_plan executes: a valid plan of one
\* step with the scenes it needs.
ExecutesWhole(r, d) ==
  /\ ValidPlan(d.steps)
  /\ d.executable => SingleStep(d.steps) /\ SceneIds(r) >= ScenesNeeded(d.steps[1].capability)

\* A plan keeps what the question says, and promises no more than can be done.
PlanKeepsQuestion ==
  decision.kind = "plan" =>
    /\ NoDowngrade(asked.request, decision.plan)
    /\ NothingGuessed(asked.request.question, decision.plan)
    /\ ExecutesWhole(asked.request, decision.plan)

\* An optical-SAR pair is eligible in either order, a change pair in one
\* order at most; an eligible pair shares one pixel grid, so that the analysis
\* needs no operation on pixels it does not have, lacks nothing the analysis
\* takes from it, and is not refused its inputs; and what ingest_scene
\* accepts, validate_scene_manifest accepts.
PairVerdict ==
  decision.kind = "pair" =>
    LET u == asked.pair.first
        v == asked.pair.second
        w == asked.workflow
        verdict == decision.verdict
        swapped == Compatibility(w, v, u).eligible
    IN /\ \A x \in {u, v} : Accepted(x) => Valid(Manifest(x))
       /\ w = "optical_sar" => verdict.eligible = swapped
       /\ w = "change_vqa" => ~(verdict.eligible /\ swapped)
       /\ verdict.eligible /\ w \in PairCapabilities =>
            /\ Grid(u.raster) = Grid(v.raster) /\ verdict.operations = {}
            /\ ~InputsRefused(w, u, v)
            /\ verdict.unknown \subseteq (IF w = "change_vqa" THEN {"sensor"} ELSE {})
=============================================================================
