SPECIFICATION Spec
CONSTANTS
  k1 = k1
  k2 = k2
  tool = tool
  vip = vip
  NoArg = NoArg
  Keys = {k1, k2}
  Prefixes = {tool, vip}
  Covers <- MCCovers
  Rules <- MCRules
  Default <- MCDefault
  CallArgs <- MCCallArgs
  MaxWindow = 2
  MaxTime = 4
  MaxCalls = 4
INVARIANTS
  WindowBound
PROPERTIES
  RefusedOnlyWhenFull
  ImplementsContract
