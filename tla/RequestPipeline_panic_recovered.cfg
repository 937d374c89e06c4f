SPECIFICATION Spec
CONSTANTS
  r1 = r1
  r2 = r2
  Requests = {r1}
  HandlerStatuses <- MCStatuses
  MayPanic = TRUE
INVARIANT PanicIsRecovered
