\* Three sessions on two outputs: of a plan for three steps, two of them in a
\* session at most or none, or measurements of two steps.
CONSTANTS
  N = 3
  LastEpoch = 2
  EpochOrder <- MCOrder
  Outputs = {A, B}
  Accum = 2
  Budget = 6
  Limit = 8
  Reserve = 3
  Identity = "this"
  Asks <- MCAsks
  Measures = {2}
  None = None
  Every = 2
  MaxSessions = 3
  MaxFaults = 1
  MaxCrashes = 1
  Absent = Absent
  Partial = Partial
  Torn = Torn
SPECIFICATION FairSpec
INVARIANTS SequenceIsReference LastSaveSurvives RecordMatchesCheckpoint
PROPERTIES FailedRecordKept SessionEnds
CHECK_DEADLOCK FALSE
