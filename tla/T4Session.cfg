\* Four steps, checkpoints every two; the overfit stage has three.
CONSTANTS
  Steps = 4
  OverfitSteps = 3
  Every = 2
  Absent = Absent
SPECIFICATION Spec
INVARIANTS SummaryIsTrue CheckpointAwaits
CHECK_DEADLOCK FALSE
