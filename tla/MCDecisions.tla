---------------------------- MODULE MCDecisions -----------------------------
(***************************************************************************)
(* Every question of at most three words, and of four on one topic, with   *)
(* representative dates; every three dates, of two centuries and of leap   *)
(* years, with a few questions; every pair of declarations on one grid, of *)
(* rasters with one declaration, and of flawed uploads.                    *)
(***************************************************************************)
EXTENDS Decisions

Words ==
  {"flood", "since", "since iso", "year", "number", "between", "still", "from", "to",
   "which", "what", "area", "this", "image", "change", "increase", "over time",
   "where", "is", "was", "has", "did", "could", "can you", "please", "reduced",
   "compare", "versus", "and", "use", "both", "fuse", "with", "sar", "radar",
   "optical", "sentinel 2", "cross modal", "locate", "mark", "show", "me",
   "bounding box", "identify", "each", "describe", "other"}

\* Sensors, times and places.
Topics ==
  {{"flood", "cross modal", "sar", "radar", "optical", "sentinel 2", "and", "with"},
   {"flood", "from", "to", "year", "number", "since", "change", "what"},
   {"where", "is", "increase", "over time", "locate", "show", "me", "can you"}}

First == [year |-> 2000, day |-> 60]
Second == [year |-> 2001, day |-> 1]
Old == [year |-> 1899, day |-> 2]

\* Questions in words; a year stated apart is one of them.
Worded(wordings, dates) ==
  LET of(ws, years) == [words : ws, dates : dates, place : {FALSE}, since : {FALSE}, years : years]
      apart == {w \in wordings : "year" \in ToSet(w)}
  IN of(wordings \ apart, {{}}) \cup of(apart, {{2000}, {2001}})

Wordings == BoundedSeq(Words, 3) \cup UNION {BoundedSeq(t, 4) : t \in Topics}
Undated == {w \in Wordings : "since iso" \notin ToSet(w)}

Days == [year : {NoYear, 1899, 1900, 2000, 2001}, day : {0, 1, LeapDay}]

Dating(words, years) ==
  [words : {words}, dates : BoundedSeq(Days, 3), place : BOOLEAN, since : BOOLEAN, years : years]

Questions ==
  Worded(Undated, {<<>>}) \cup Worded(Wordings, {<<First>>, <<Old, Second>>})
  \cup Dating(<<"flood">>, {{}}) \cup Dating(<<"flood", "year">>, {{2000}, {2001}})
  \cup Dating(<<"flood", "year", "year">>, {{2000, 2001}})

MCPlanRequests ==
  [question : Questions, second : {"scene"}, sar : {TRUE}, requested : {"none"}]
  \cup
  [question : {q \in Questions : Len(q.words) <= 2 /\ Len(q.dates) <= 1},
   second : {"none", "blank", "scene"}, sar : BOOLEAN, requested : {"none", "grounding", "teleport"}]

OneGrid == [width |-> 10, numeric |-> TRUE, anchors |-> {}, crs |-> "a",
            origin |-> 1, pixel |-> 2]

Plain(modality, time) ==
  [stored |-> "whole", format |-> "TIFF", raster |-> OneGrid, modality |-> modality,
   sensor |-> "s", time |-> time, polarizations |-> {"VV"}, group |-> Undeclared]

Declarations ==
  [stored : {"whole"}, format : {"TIFF"}, raster : {OneGrid},
   modality : Modalities \cup {Undeclared}, sensor : {Undeclared, "s"}, time : 0 .. 2,
   polarizations : {{}, {"VV"}, {"VV", "VX"}}, group : {Undeclared, "g", "h"}]

Flawed ==
  UNION {
    {[Plain(m, t) EXCEPT !.modality = "radar"], [Plain(m, t) EXCEPT !.sensor = TooLong],
     [Plain(m, t) EXCEPT !.group = TooLong], [Plain(m, t) EXCEPT !.time = NotADate],
     [Plain(m, t) EXCEPT !.time = NoZone],
     [Plain(m, t) EXCEPT !.polarizations = {"VV", Malformed}],
     [Plain(m, t) EXCEPT !.format = "PNG"], [Plain(m, t) EXCEPT !.format = "GIF"],
     [Plain(m, t) EXCEPT !.raster.width = 11], [Plain(m, t) EXCEPT !.raster.numeric = FALSE],
     [Plain(m, t) EXCEPT !.stored = "edited"], [Plain(m, t) EXCEPT !.stored = "absent"],
     Plain(m, t)} : m \in {"optical", "sar"}, t \in {1, 2}}

Rasters(modality, time) ==
  {[Plain(modality, time) EXCEPT !.raster = r] : r \in
     [width : {5, 10}, numeric : {TRUE}, anchors : {{}}, crs : {"a", "b", "bad", Undeclared},
      origin : {0, 1, 3}, pixel : {1, 2, 5}]
     \cup [width : {10}, numeric : {TRUE}, anchors : SUBSET {"rpc", "gcps"},
           crs : {"a", Undeclared}, origin : {0}, pixel : {1}]}

MCPairs ==
  [first : Declarations, second : Declarations]
  \cup [first : Flawed, second : Flawed]
  \cup [first : Rasters("optical", 1), second : Rasters("sar", 2)]
  \cup [first : Rasters("optical", 1), second : Rasters("optical", 2)]
=============================================================================
