SPECIFICATION FairSpec
CONSTANTS
  Tasks = {t1, t2}
  Origins = {o1, o2}
  Delay = 2
  MaxRedirects = 1
  Respects <- FirstRespects
  MaxScrapers = 2
INVARIANTS
  RobotsAsked
  RobotsSettle
PROPERTIES
  PaceBounded
  ScrapeEnds
