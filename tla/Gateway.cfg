SPECIFICATION Spec
CONSTANTS
  c1 = c1
  c2 = c2
  old = old
  new = new
  client = client
  foreign = foreign
  alice = alice
  acme = acme
  globex = globex
  key = key
  cancel = cancel
  purge = purge
  search = search
  fetch = fetch
  report = report
  read = read
  write = write
  Nobody = Nobody
  Calls = {c1, c2}
  Sessions = {1}
  Tokens = {old, new, client, foreign}
  Claims <- MCClaims
  Ids = {alice}
  Issuers = {acme, globex}
  ApiKeys = {key}
  Tools = {cancel, purge, search, fetch, report}
  FuncName <- MCName
  Guard <- MCGuard
  Scopes = {read, write}
  Scope <- MCScope
  EndpointScope = read
  Args <- MCArgs
  MaxCalls = 1
  Window = 2
  Leeway = 1
  MaxSpans = 1
  MaxTime = 2
INVARIANTS
  SpansTell
  BudgetPerCaller
PROPERTIES
  RefusedForOwn
  BodyIsAllowed

