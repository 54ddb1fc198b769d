\* One build, uninterrupted, with up to two flawed patches.
CONSTANTS
  Tiles = 2
  TakeOrder <- MCTakeOrder
  Available <- MCAvailable
  Total = 5
  PerShard = 2
  Windows = {1, 2}
  RejectLimit = 1
  SpeedAfter = 1
  MaxFlawed = 2
  MaxRuns = 1
  MaxAborts = 0
  Lists <- MCLists
  Uncaptioned <- MCUncaptioned
  MinKept = 2
  EvalTiles = 1
  EvalOrder <- MCEvalOrder
  EvalAvailable <- MCEvalAvailable
  Bands = {1, 2}
  OnePassTotal = 2
  OnePassShard = 1
  DiskBuffer = 1
  Archives <- MCArchives
  AuditGroup = 2
  AuditPerGroup = 1
  AuditFloor = 2
  Absent = Absent
  Wrong = Wrong
  Torn = Torn
SPECIFICATION Spec
PROPERTIES BreachStops
CHECK_DEADLOCK FALSE
