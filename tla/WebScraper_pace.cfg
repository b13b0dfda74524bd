SPECIFICATION Spec
CONSTANTS
  Tasks = {t1, t2}
  Origins = {o1}
  Delay = 2
  MaxRedirects = 1
  Respects <- FirstRespects
  MaxScrapers = 1
INVARIANTS
  OnePerDelay
