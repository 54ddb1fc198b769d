\* Two threads make three requests; children may hang for ever.
SPECIFICATION FairSpec
CONSTANTS
  Callers = {c1, c2}
  Closers = {}
  None = None
  MaxRequests = 3
INVARIANTS OneInference NoStaleReply DocumentedOutcome
PROPERTIES OwnDeadline EveryCallEnds
CHECK_DEADLOCK FALSE
