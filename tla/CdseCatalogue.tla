--------------------------- MODULE CdseCatalogue ---------------------------
(***************************************************************************)
(* What a Sentinel-1 fetch of backend/sentinel1.py asks of the CDSE        *)
(* catalogue, and which two acquisitions it makes of the answers: the      *)
(* closest pair on one orbit track, or the two an event pins.  A day is a  *)
(* number; a track is an orbit direction with a relative orbit.            *)
(***************************************************************************)
EXTENDS Integers, Sequences

CONSTANTS
  NoTrack,   \* model value: the relative orbit is not in the answer
  PinnedRun, \* the acquisitions flood-runs.v1.json pins, by side
  Answers    \* bound: what CDSE may answer to a search by product id

Sides == {"before", "after"}

\* pair_request: inclusive days become a half-open window.
Inclusive(days) == <<days[1], days[2] + 1>>
Windows(request) ==
  [side \in Sides |-> Inclusive(IF side = "before" THEN request.before
                                ELSE request.after)]

Ordered(w) ==
  /\ w["before"][1] < w["before"][2] /\ w["before"][2] <= w["after"][1]
  /\ w["after"][1] < w["after"][2]

\* _acquisition: a pass whose relative orbit is not stated is on no known track.
Acquisition(feature) ==
  [id |-> feature.id, at |-> feature.at,
   track |-> IF feature.relative = NoTrack THEN NoTrack
             ELSE <<feature.orbit, feature.relative>>]

\* The catalogue answers with the features of a window and both its ends.
Within(catalogue, w) == {a \in catalogue : w[1] <= a.at /\ a.at <= w[2]}

\* pick_pair.
Eligible(before, after) ==
  {p \in before \X after :
     p[1].track # NoTrack /\ p[1].track = p[2].track /\ p[1].at < p[2].at}

Interval(p) == p[2].at - p[1].at
Closer(p, q) ==
  \/ Interval(p) < Interval(q)
  \/ Interval(p) = Interval(q) /\ p[2].at <= q[2].at
Closest(pairs) == {p \in pairs : \A q \in pairs : Closer(p, q)}

\* A search by product id is only used when it answers with that product, in
\* the expected mode, and with the time and the track that were pinned.
IsPinned(feature, side, w) ==
  /\ feature.mode = "IW_DV_HIGH"
  /\ Acquisition(feature) = PinnedRun[side]
  /\ w[1] <= feature.at /\ feature.at < w[2]
  /\ Acquisition(feature).track # NoTrack

PinnedAnswers(answer, side, w) ==
  Len(answer) = 1 /\ IsPinned(answer[1], side, w)
=============================================================================
