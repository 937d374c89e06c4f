SPECIFICATION Spec
CONSTANTS
  c1 = c1
  c2 = c2
  Conns = {c1}
  RequestTimeout = 5
  ReadTimeout = 10
  WriteTimeout = 10
  ShutdownTimeouts = {10}
  NewGrace = 5
  Poll = 1
INVARIANT AlwaysGraceful
