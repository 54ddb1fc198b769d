\* One curated scene, one scene added here and one added elsewhere.
CONSTANTS
  Golden = Golden
  Curated = {c1}
  Down = {c1}
  Uploads = {u1, u2}
  Mine = 1
  Clicks = 4
  None = None
SPECIFICATION PageSpec
INVARIANTS UploadStays CachedOnlyByChoice EvidenceIsPanels
CHECK_DEADLOCK FALSE
