---------------------------- MODULE SceneManifest ----------------------------
(***************************************************************************)
(* From an uploaded file, and what its uploader declares of it, to the     *)
(* manifest the scene is stored with.                                      *)
(*                                                                         *)
(* A raster lies on one axis: where its grid begins, the size of a pixel   *)
(* and how many it has.  Times are 1, 2, ...                               *)
(***************************************************************************)
EXTENDS Integers, FiniteSets

CONSTANT
  MaxWidth   \* the raster safety limit

Modalities == {"optical", "multispectral", "sar", "unknown"}
Statuses == {"affine", "missing_crs", "missing_transform", "gcps", "rpc"}

\* An optional field that is left out, or longer than 256 characters.
Undeclared == "none"
TooLong == "too long"
\* A timestamp that is left out, does not parse, or has no zone.
NoTime == 0
NotADate == -1
NoZone == -2
\* A polarization of other characters than A-Z, 0-9, _ and -.
Malformed == "malformed"

\* _declared_metadata raises.
MisDeclared(u) ==
  \/ u.modality \notin Modalities \cup {Undeclared}
  \/ TooLong \in {u.sensor, u.group}
  \/ u.time \in {NotADate, NoZone}
  \/ Malformed \in u.polarizations

\* _tiff_preview_and_metadata, or Pillow, raises.
Unreadable(u) ==
  IF u.format = "TIFF"
  THEN u.raster.width > MaxWidth \/ ~u.raster.numeric
  ELSE u.format \notin {"PNG", "JPEG"}

Accepted(u) == ~MisDeclared(u) /\ ~Unreadable(u)

-----------------------------------------------------------------------------
(* The raster of a GeoTIFF.                                                *)

\* GDAL's transform of a raster that has none.
Identity(t) == t.origin = 0 /\ t.pixel = 1

\* Control points and polynomials go before a CRS and a transform.
Georeferencing(t) ==
  IF "rpc" \in t.anchors THEN "rpc"
  ELSE IF "gcps" \in t.anchors THEN "gcps"
  ELSE IF t.crs = Undeclared THEN "missing_crs"
  ELSE IF Identity(t) THEN "missing_transform"
  ELSE "affine"

Grid(t) == [crs |-> t.crs, origin |-> t.origin, pixel |-> t.pixel, width |-> t.width]

NoRaster == [status |-> "none"]
Raster(t) == [status |-> Georeferencing(t), ready |-> Georeferencing(t) = "affine",
              grid |-> Grid(t)]

-----------------------------------------------------------------------------

\* The manifest ingest_scene stores.
Manifest(u) ==
  [format |-> u.format,
   native |-> u.format = "TIFF",
   raster |-> IF u.format = "TIFF" THEN Raster(u.raster) ELSE NoRaster,
   modality |-> IF u.modality = Undeclared THEN "unknown" ELSE u.modality,
   sensor |-> u.sensor, time |-> u.time, polarizations |-> u.polarizations,
   group |-> u.group]

\* validate_scene_manifest, of what varies.
Valid(m) ==
  /\ m.format \in {"PNG", "JPEG", "TIFF"}
  /\ m.native <=> m.format = "TIFF"
  /\ m.raster # NoRaster =>
       /\ m.raster.grid.width > 0
       /\ m.raster.status \in Statuses
       /\ m.raster.ready <=> m.raster.status = "affine"
  /\ m.modality \in Modalities

\* _manifest_for_scene: no manifest is there, or it was edited since.
ManifestError(u) ==
  CASE u.stored = "edited" -> "scene_manifest_invalid"
    [] u.stored = "absent" \/ ~Accepted(u) -> "scene_manifest_missing"
    [] OTHER -> "none"
=============================================================================
