---------------------------- MODULE OpticalClouds ----------------------------
(***************************************************************************)
(* check_optical_clouds of backend/optical_clouds.py: how much of the area *)
(* the Sentinel-2 pass closest to the radar pass could see.  A lookup is   *)
(* what CDSE answers: the times of the listed passes, whether more pages   *)
(* follow, and how many pixels of the closest pass are of which class.     *)
(***************************************************************************)
EXTENDS Integers

CONSTANTS
  Cloudy,      \* CLOUDY_THRESHOLD, in percent of the observed pixels
  MinObserved, \* MIN_OBSERVED_FRACTION, in percent of the area
  Extreme,     \* a time whose neighbourhood no datetime expresses
  Lookups,     \* bound: what CDSE may answer
  Failed,      \* model value: an answer that raises
  NoScene      \* model value: no pass

\* The raster counts pixels; an answer that raises is none of what is listed.
ASSUME OpticalAssumption ==
  /\ Cloudy \in 0 .. 100 /\ MinObserved \in 0 .. 100 /\ Failed # {}
  /\ \A lookup \in Lookups :
       /\ lookup.more \in BOOLEAN
       /\ lookup.passes \in SUBSET Int /\ lookup.passes # Failed
       /\ lookup.raster # Failed =>
            lookup.raster \in [hidden : Nat, seen : Nat, nodata : Nat]

Distance(t, u) == IF t < u THEN u - t ELSE t - u

\* _acquisitions: the closest pass is uncertain when a page is missing.
Listing(lookup) == IF lookup.more THEN Failed ELSE lookup.passes

\* The closest pass, and of two the earlier.
Nearest(passes, around) ==
  CHOOSE t \in passes : \A u \in passes :
    \/ Distance(t, around) < Distance(u, around)
    \/ Distance(t, around) = Distance(u, around) /\ t <= u

\* _aoi_fractions: of the pixels with data, how many are hidden.  A raster off
\* the grid or without data raises.
InArea(raster) == raster.hidden + raster.seen + raster.nodata
Valid(raster) == raster.hidden + raster.seen
Fractions(raster) ==
  IF raster = Failed THEN Failed
  ELSE IF Valid(raster) = 0 THEN Failed ELSE raster

TooLittle(raster) == 100 * Valid(raster) < MinObserved * InArea(raster)
Hidden(raster) == 100 * raster.hidden > Cloudy * Valid(raster)

Verdict(word, scene, fractions) ==
  [verdict |-> word, scene |-> scene, fractions |-> fractions]

\* The time range asked for around an extreme pass overflows, which no clause
\* catches.
Overflows(lookup, around) ==
  /\ Listing(lookup) \notin {Failed, {}}
  /\ Nearest(lookup.passes, around) = Extreme

\* check_optical_clouds: every other failure is a verdict.
OpticalVerdict(lookup, around) ==
  LET scene == Nearest(lookup.passes, around)
      fractions == Fractions(lookup.raster)
  IN CASE Listing(lookup) = Failed -> Verdict("unavailable", NoScene, Failed)
       [] Listing(lookup) = {} -> Verdict("no_acquisition", NoScene, Failed)
       [] OTHER ->
            Verdict(IF fractions = Failed \/ TooLittle(lookup.raster) THEN "unavailable"
                    ELSE IF Hidden(fractions) THEN "cloudy" ELSE "clear",
                    scene, fractions)
=============================================================================
