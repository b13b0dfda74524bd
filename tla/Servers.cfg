SPECIFICATION MCSpec
CONSTANTS
  Parts = {"database", "index", "calendar"}
  Sizes <- MCSizes
  CharTexts <- MCCharTexts
  PieceTexts <- MCPieceTexts
  Requests <- MCRequests
  Names = {"welcome"}
  Keys = {"name", "sum", "x"}
  Texts <- MCTexts
  Variables <- MCVariables
  People = {"ann", "bob"}
  MaxMails = 2
  Prices <- MCPrices
  Models = {"m-pro", "m", "m-new", "x"}
  Alike <- MCAlike
  Tools = {"t"}
  NoTool = "none"
  TokenCounts = {0, 3}
  MaxRecords = 2
  MetricNames = {"cpu", "labels"}
  Values = {0, 1, 9}
  Thresholds = {1, 2}
  Limits <- MCLimits
  ChartLimit = 2
  MaxPoints = 4
  Procs = {"p1", "p2"}
  CacheKeys = {"k"}
  Fallback <- MCFallback
  TTL = 2
  MaxWrites = 2
  Fields <- MCFields
  Extras <- MCExtras
  NameForm <- MCNameForm
  KeyForm <- MCKeyForm
  AskedForm <- MCAskedForm
  Within <- MCWithin
  Dicts <- MCDicts
  Matches <- MCMatches
  MaxLimit = 2
  MaxFields = 3
  MaxCreated = 3
  Hosts = {"h", ""}
  Schemes = {"http", "ftp"}
  Lookups <- MCLookups
  Global = {"public", "group", "v6 of local", "v6 of public"}
  Unicast = {"public", "local", "v6 of local", "v6 of public"}
  Embedded <- MCEmbedded
  None = None
  c1 = c1
  c2 = c2
  Calls = {c1, c2}
  Scripts <- MCScripts
  Parse <- MCParse
  Acting <- MCActing
  Plain = {"orders", "users"}
  Conns = {"reader", "writer"}
  ReadOnly = {"reader"}
  Tables <- MCTables
  Phrases = {"a", "b"}
  Ids = {1, 2}
  Clients = {"gemini"}
  Dimensions = {2, 3}
  Stores <- MCStores
  Similarity <- MCSimilarity
  Mixed = 8
  TopKs <- MCTopKs
  Day = 8
  StartHour = 2
  EndHour = 6
  WorkingDays = {0, 1}
  DefaultDuration = 2
  Durations = {0, 1, 3}
  Calendars = {"primary", "team"}
  OwnCalendar = "primary"
  MaxResults = 1
  Bookings <- MCBookings
  Ranges <- MCRanges
  MaxEvents = 3
SYMMETRY MCSymmetry
CHECK_DEADLOCK FALSE
INVARIANTS
  OnlyReadsRun
  SchemaOfConnection
  SearchReturnsBest
  SameSpace
  SlotsAreExact
  NoEventLost
