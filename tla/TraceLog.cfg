\* Crashes, power losses and I/O errors at every step, and one edit of a line
\* of the quiescent file behind the process.
CONSTANTS
  Payloads = {p, q}
  Junk = Junk
  NoTail = NoTail
  MaxRecords = 2
  FsyncPersistsEntry = TRUE
  Damage = TRUE
SPECIFICATION Spec
INVARIANTS AckedSurvive LoadableUnlessEdited MemoryIsFile
PROPERTIES VerdictIsRight EvidenceKept ImplementsAuditLog
