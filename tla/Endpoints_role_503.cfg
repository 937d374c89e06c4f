SPECIFICATION Spec
CONSTANTS
  Granted <- ShippedRole
  ApiFaults = FALSE
  MetricsClients = {"ok"}
INVARIANTS
  UnavailableTruthful
