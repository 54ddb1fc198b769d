\* One thread shuts the worker down beside two requests.
SPECIFICATION Spec
CONSTANTS
  Callers = {c1, c2}
  Closers = {s}
  None = None
  MaxRequests = 2
INVARIANT OneAtATime
CHECK_DEADLOCK FALSE
