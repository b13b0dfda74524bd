SPECIFICATION Spec
CONSTANTS
  a = a
  b = b
  Procs = {a, b}
  Limit = 1
  Window = 2
  Skew <- NoSkew
  MaxSkew = 0
  Fallback = TRUE
  Ops = {"record"}
  ErrorKinds = {"transient", "client"}
  MaxTime = 2
  MaxCalls = 2
  MaxFaults = 1
CHECK_DEADLOCK FALSE
INVARIANTS
  FallbackNeverRaises
