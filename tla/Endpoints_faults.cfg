SPECIFICATION Spec
CONSTANTS
  Granted <- AllCalls
  ApiFaults = TRUE
  MetricsClients = {"ok", "typedNil"}
INVARIANTS
  TypeOK
  StatusTruthful
  ExtrasAreOptional
  UnavailableTruthful
