-------------------------- MODULE MCSentinel1Fetch --------------------------
(***************************************************************************)
(* Requests for the days 1-3 and 4-5, pinned or not, or with their windows *)
(* in disorder; catalogues with two tracks, with an acquisition on the day *)
(* both windows share, and without a pair; grids of one tile, of tiles cut *)
(* at an edge, and one too large.                                          *)
(***************************************************************************)
EXTENDS Sentinel1Fetch

Feature(i, t, o, r) ==
  [mode |-> "IW_DV_HIGH", id |-> i, at |-> t, orbit |-> o, relative |-> r]

Pinned == [before |-> Feature("p1", 2, "up", 1), after |-> Feature("p2", 5, "up", 1)]
MCPinnedRun == [side \in DOMAIN Pinned |-> Acquisition(Pinned[side])]

\* The pinned product of either side, one that differs in its time, its track
\* or its mode, none, or two.
MCAnswers ==
  LET good == {Pinned["before"], Pinned["after"]}
      odd == {Feature("p1", 3, "up", 1), Feature("p1", 2, "down", 1),
              Feature("p1", 2, "up", 2), Feature("p1", 2, "up", NoTrack),
              [Pinned["before"] EXCEPT !.mode = "EW"]}
  IN {<<>>} \cup {<<x>> : x \in good \cup odd} \cup {<<x, x>> : x \in good}

Event == [event |-> TRUE, before |-> <<1, 3>>, after |-> <<4, 5>>]
Area == [event |-> FALSE, before |-> <<1, 3>>, after |-> <<4, 5>>]
Disorder == [event |-> FALSE, before |-> <<4, 5>>, after |-> <<1, 3>>]

TwoTracks ==
  {Feature("p1", 2, "up", 1), Feature("p1", 3, "down", 1),
   Feature("p2", 5, "up", 1), Feature("p2", 6, "down", 1),
   Feature("p2", 4, "down", NoTrack)}
OneDay == {Feature("p1", 3, "up", NoTrack), Feature("p1", 1, "up", 2),
           Feature("p2", 4, "up", 2)}
NoPair == {Feature("p1", 3, "up", 1), Feature("p2", 5, "up", 2)}

\* Passes on either side of the radar's, equally close or not, at a time at the
\* limit of a datetime, none, or not all; rasters on and beside the thresholds.
Counts(h, s, n) == [hidden |-> h, seen |-> s, nodata |-> n]
Lookup(p, m, r) == [passes |-> p, more |-> m, raster |-> r]
MCLookups ==
  {Lookup({4, 6, 7}, FALSE, r) : r \in
     {Counts(1, 4, 5), Counts(2, 3, 5), Counts(0, 4, 6), Counts(0, 0, 10), Failed}}
  \cup {Lookup({5}, TRUE, Counts(0, 10, 0)), Lookup({}, FALSE, Failed),
        Lookup({99}, FALSE, Counts(0, 10, 0))}

Size(h, w) == [height |-> h, width |-> w]
Case(r, c, g) == [request |-> r, catalogue |-> c, grid |-> g]

MCCases ==
  {Case(Event, {}, Size(3, 2)), Case(Area, TwoTracks, Size(1, 2)),
   Case(Area, OneDay, Size(2, 3)), Case(Area, NoPair, Size(2, 2)),
   Case(Area, NoPair, Size(2, 5)), Case(Disorder, NoPair, Size(2, 2))}
=============================================================================
