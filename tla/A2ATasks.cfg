SPECIFICATION FairSpec
CONSTANTS
  s = s
  w = w
  h = h
  t1 = t1
  t2 = t2
  Requests = {s, w, h}
  TaskIds = {t1, t2}
  IdOf <- MCIdOf
  Streams = {s}
  Webhooks = {w}
CHECK_DEADLOCK FALSE
INVARIANTS
  ReportedIsStored
  ToldInOrder
PROPERTIES
  StateSequence
  TaskEnds
