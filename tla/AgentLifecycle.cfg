SPECIFICATION FairSpec
CONSTANTS
  c1 = c1
  c2 = c2
  Conns = {c1, c2}
  RequestTimeout = 2
  ReadTimeout = 4
  WriteTimeout = 3
  ShutdownTimeouts <- MCShutdownTimeouts
  NewGrace = 2
  Poll = 1
INVARIANTS
  TypeOK
  CleanExit
  GracefulShutdown
  ResponsesInTime
PROPERTIES
  SignalHonoured
  ListenFailureEnds
