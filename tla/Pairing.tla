------------------------------- MODULE Pairing -------------------------------
(***************************************************************************)
(* Whether two scenes may be analysed together, from what their manifests  *)
(* declare and from their footprints: the codes of the checks a pair fails *)
(* and the metadata it lacks.  Thresholds are in hundredths.               *)
(***************************************************************************)
EXTENDS SceneManifest, FiniteSetsExt

SingleWorkflows == {"single_image_vqa", "grounding"}
Threshold == [optical_sar |-> 80, change_vqa |-> 90]
MaxRatio == [optical_sar |-> 400, change_vqa |-> 125]
SupportedPolarizations == {"VV", "VH", "HH", "HV"}

\* The codes of the rows whose condition holds.
Failing(rows) == {r[1] : r \in {row \in rows : row[2]}}

Family(m) == IF m.modality = "multispectral" THEN "optical" ELSE m.modality

-----------------------------------------------------------------------------
(* Declared metadata.                                                      *)

\* Of the first SAR scene; none when neither is SAR.
Polarizations(a, b) ==
  CASE a.modality = "sar" -> a.polarizations
    [] a.modality # "sar" /\ b.modality = "sar" -> b.polarizations
    [] OTHER -> {}

OpticalSarFailures(a, b) ==
  LET pols == Polarizations(a, b)
  IN Failing({
       <<"modalities_incompatible", {Family(a), Family(b)} # {"optical", "sar"}>>,
       <<"polarization_missing", pols = {}>>,
       <<"polarization_unsupported", ~(pols \subseteq SupportedPolarizations)>>,
       <<"acquisition_metadata_missing",
         Undeclared \in {a.sensor, b.sensor} \/ NoTime \in {a.time, b.time}>>})

\* The first scene must predate the second.
ChangeFailures(a, b) ==
  Failing({
    <<"modalities_incompatible",
      Family(a) = "unknown" \/ Family(b) = "unknown" \/ Family(a) # Family(b)>>,
    <<"acquisition_time_missing", a.time = NoTime \/ b.time = NoTime>>,
    <<"acquisition_order_invalid", a.time # NoTime /\ b.time # NoTime /\ a.time >= b.time>>})

GroupFailures(a, b) ==
  Failing({<<"pair_group_mismatch",
             Undeclared \notin {a.group, b.group} /\ a.group # b.group>>})

-----------------------------------------------------------------------------
(* Rasters: why one cannot be placed, and how two lie.                     *)

RasterFailure(r) ==
  CASE r = NoRaster -> "raster_metadata_missing"
    [] r.status \in {"gcps", "rpc"} -> "georeferencing_model_unsupported"
    [] r.status \notin {"none", "gcps", "rpc"} /\ r.grid.crs = Undeclared -> "crs_missing"
    [] r.status \notin {"none", "gcps", "rpc"} /\ r.grid.crs # Undeclared /\ ~r.ready ->
         "affine_transform_missing"
    [] OTHER -> "none"

RasterFailures(a, b) == {RasterFailure(a.raster), RasterFailure(b.raster)} \ {"none"}

Extent(g) == g.pixel * g.width
\* A CRS no footprint can be transformed from to the equal-area one.
Unplaceable(a, b) == "bad" \in {a.raster.grid.crs, b.raster.grid.crs}

Common(g, h) ==
  Max({0, Min({g.origin + Extent(g), h.origin + Extent(h)}) - Max({g.origin, h.origin})})

BelowOverlap(w, g, h) == 100 * Common(g, h) < Threshold[w] * Min({Extent(g), Extent(h)})
AboveRatio(w, g, h) == 100 * Max({g.pixel, h.pixel}) > MaxRatio[w] * Min({g.pixel, h.pixel})

MutGridFailures(w, g, h) ==
  Failing({
    <<"overlap_below_threshold", BelowOverlap(w, g, h)>>,
    <<"resolution_ratio_exceeded", AboveRatio(w, g, h)>>,
    <<"reprojection_required", g.crs # h.crs>>,
    <<"dimensions_incompatible", g.width # h.width>>})

\* No pixel is resampled: the grids must be one grid.
GridFailures(w, g, h) ==
  Failing({
    <<"overlap_below_threshold", BelowOverlap(w, g, h)>>,
    <<"resolution_ratio_exceeded", AboveRatio(w, g, h)>>,
    <<"reprojection_required", g.crs # h.crs>>,
    <<"dimensions_incompatible", g.width # h.width>>,
    <<IF w = "change_vqa" THEN "grid_alignment_incompatible" ELSE "grid_alignment_differs",
      g.origin # h.origin \/ g.pixel # h.pixel>>})

Failures(w, a, b) ==
  (IF w = "optical_sar" THEN OpticalSarFailures(a, b) ELSE ChangeFailures(a, b))
  \cup GroupFailures(a, b)
  \cup (IF RasterFailures(a, b) # {} THEN RasterFailures(a, b)
        ELSE IF Unplaceable(a, b) THEN {"footprint_transform_failed"}
        ELSE GridFailures(w, a.raster.grid, b.raster.grid))

\* The operations on pixels that the analysis of the pair would need.
Operations(failed) ==
  Failing({<<"reprojection", "reprojection_required" \in failed>>,
           <<"co_registration",
             failed \cap {"grid_alignment_incompatible", "grid_alignment_differs"} # {}>>})

-----------------------------------------------------------------------------
(* What is not known of a scene.                                           *)

UnknownIdentity(m) ==
  Failing({<<"modality", m.modality = "unknown">>, <<"sensor", m.sensor = Undeclared>>,
           <<"acquisition_time", m.time = NoTime>>})

Unknown(w, a, b) ==
  UnknownIdentity(a) \cup UnknownIdentity(b)
  \cup Failing({
         <<"polarizations", w = "optical_sar" /\ Polarizations(a, b) = {}>>,
         <<"raster_metadata", NoRaster \in {a.raster, b.raster}>>,
         <<"crs", "crs_missing" \in RasterFailures(a, b)>>})

-----------------------------------------------------------------------------

\* evaluate_compatibility: a pair is eligible when nothing fails.
Verdict(w, a, b) ==
  IF w \in SingleWorkflows
  THEN [eligible |-> TRUE, failed |-> {}, operations |-> {}, unknown |-> UnknownIdentity(a)]
  ELSE LET failed == Failures(w, a, b) IN
       [eligible |-> failed = {}, failed |-> failed, operations |-> Operations(failed),
        unknown |-> Unknown(w, a, b)]

\* scene_compatibility: of two scenes as they are stored.
Compatibility(w, u, v) ==
  LET missing == {ManifestError(u), ManifestError(v)} \ {"none"} IN
  IF missing # {}
  THEN [eligible |-> FALSE, failed |-> missing, operations |-> {}, unknown |-> {"manifest"}]
  ELSE Verdict(w, Manifest(u), Manifest(v))

-----------------------------------------------------------------------------
(* What the analysis then takes from an eligible pair.                     *)

\* _optical_sar_paths raises.
OpticalSarRefused(a, b) ==
  \/ ~a.native \/ ~b.native
  \/ {Family(a), Family(b)} # {"optical", "sar"}

\* _change_inputs raises.
ChangeRefused(a, b) == \E m \in {a, b} : ~m.native \/ m.time = NoTime

InputsRefused(w, u, v) ==
  IF w = "optical_sar" THEN OpticalSarRefused(Manifest(u), Manifest(v))
  ELSE ChangeRefused(Manifest(u), Manifest(v))
=============================================================================
