\* Two requests of any kind; optical_sar has no provider; two changes of
\* readiness or of the trace's health.
CONSTANTS
  Requests = {r1, r2}
  Inputs <- MCInputs
  Offered <- MCOffered
  MaxFlips = 2
SPECIFICATION Spec
INVARIANTS AnswerIsRecorded RecordIsTrue RunIsSupported
PROPERTY UsesTrace
CHECK_DEADLOCK FALSE
