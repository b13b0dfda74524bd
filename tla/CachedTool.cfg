SPECIFICATION Spec
CONSTANTS
  lookup = lookup
  search = search
  x = x
  y = y
  c1 = c1
  c2 = c2
  Tools = {lookup, search}
  FuncName <- OwnNames
  Args = {x, y}
  Nones = {1}
  Callers = {c1, c2}
  TTL = 1
  MaxRun = 1
  MaxVersion = 2
SYMMETRY Symmetry
INVARIANTS
  StalenessBounded
  OwnAnswer
