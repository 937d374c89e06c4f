SPECIFICATION FairSpec
CONSTANTS
  r1 = r1
  r2 = r2
  Requests = {r1, r2}
  HandlerStatuses = {404}
  MayPanic = TRUE
INVARIANTS
  TypeOK
  UninterruptedAnswerIntact
  TimeoutDocumentSent
  AbandonedHandlerHarmless
  RaceNeedsInterruption
PROPERTIES
  EveryRequestFinishes
  HandlerGoroutineEnds
  ImplementsContract
