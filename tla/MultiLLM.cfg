SPECIFICATION FairSpec
CONSTANTS
  gemini = gemini
  openai = openai
  r1 = r1
  r2 = r2
  Providers = {gemini, openai}
  Cheap <- CheapFirst
  Best <- BestFirst
  Requests = {r1, r2}
  Kinds = {"model", "cheap", "best", "second"}
  Threshold = 2
  Cooldown = 2
  CacheTTL = 1
PROPERTIES
  TripNeedsFailuresInARow
  OpenShedsLoad
  Recovers
  Answered
