SPECIFICATION Spec
CONSTANTS
  a = a
  b = b
  Procs = {a, b}
  Limit = 1
  Window = 2
  Skew <- AheadSkew
  MaxSkew = 1
  Fallback = TRUE
  Ops = {"record", "remaining", "reset", "reset_all"}
  ErrorKinds = {"transient"}
  MaxTime = 3
  MaxCalls = 3
  MaxFaults = 2
CHECK_DEADLOCK FALSE
INVARIANTS
  SharedBound
  FallbackBound
  QuietMeansClean
