# A TLA+ development of the MCP server toolkit

The toolkit (`src/mcp_toolkit/`) is a Python framework for MCP tool servers: a
server class whose decorators cache, rate-limit, authenticate and trace tool
calls, an adapter to the A2A protocol, an HTTP gateway, and eight ready-made
servers. All of it runs on asyncio. One process is one thread: code between two
`await`s is atomic, at an `await` every other task may run and the waiting task
may be cancelled. Several processes meet only in Redis. That is the notion of
step of every module here: **one action is the code from one await to the
next**.

Paths below are relative to `src/mcp_toolkit/`.

## 1. Inventory

### Framework

**Rate limiter** (`framework/rate_limiter.py`). `RateLimiter` keeps
configurations by key prefix (`_configs`, first match wins) and delegates to a
window: `InMemorySlidingWindow` (a list of times per key, cut with the window of
the call at hand) or `RedisSlidingWindow` (a sorted set per key shared by
processes, a MULTI/EXEC pipeline, a separate ZREM for a refused call, an
in-memory window as the fallback). Operations: `check`, `configure`, `reset`,
`reset_all`, `get_remaining`. Hard: windows of different length on one list;
other processes between the pipeline and the ZREM; lost commands and replies,
cancelled tasks; clocks that differ; EXPIRE. Correct when it never admits more
than the limit in a window and refuses only when the limit is used up.

**Response cache** (`framework/caching.py`, `EnhancedMCP.cached_tool` in
`framework/base_server.py`). A dictionary of values with expiry, keyed by
function name and arguments; look up, run the function, store. `RedisCache` is
another backend: entries shared by processes, a store in memory as the fallback.
Operations: the wrapper's hit and miss, `get`, `set`, `delete`, `clear`. Hard:
runs that overlap one another, writes to the data, invalidation during a run;
names that collide; a command that fails and goes to one of two stores. Correct
when an answer belongs to its call and its staleness is bounded.

**Tool decorators** (`framework/base_server.py`). `cached_tool`,
`rate_limited_tool` (key = function and caller, or function, issuer and
subject), `auth_tool`; each registers its wrapper once and records one span per
call. Correct when a guard cannot be skipped and the identity a call is charged
to is its own.

**A2A adapter** (`framework/a2a_adapter.py`). `_tasks`, a dictionary of task
statuses under ids chosen by clients; `stream_task`, an async generator for SSE,
and `handle_task` with or without webhooks write it. Hard: consumers that stop
between two events, webhooks that are lost or arrive late, cancelled requests,
tools that raise, ids used twice. Correct when a client that was told a state finds it stored, states
only move forward, and every task whose client stays ends.

**Authentication** (`framework/auth.py`): `APIKeyAuth` (records that are
registered and revoked), `JWTAuth`, `OAuthAuth` (a test stub),
`requires_scope`. **HTTP resource server** (`framework/http_auth.py`): token
verification for the SDK, scope checks, the settings of a bind from the
environment or by keyword and their validation. **Gateway** (`gateway/app.py`):
the two-tool example on top. Hard: the order of authentication, budget and
scope; a key revoked while a call is under way; which request's token a tool
sees; settings that are absent, empty or given. Correct when a tool body runs
only for an identity that has the scope, calls are charged to their own
identity, and a server that others can reach is guarded as its operator asked.

**Telemetry** (`framework/telemetry.py`): a bounded deque of spans; one per
decorated call, whatever its end. **Cost tracker** (`framework/costing.py`): an
append-only list, a price lookup by model with a fuzzy match, sums that are
rounded on their way. **Address policy** (`framework/net_safety.py`): the
addresses a name resolves to, all of which must be public; what is done with
them afterwards is its users' business. **Test client, errors**
(`framework/testing.py`, `errors.py`).

### Servers

**multi_llm** (`servers/multi_llm/`). One `CircuitBreaker` per provider
(failure count, open until); `query_model`, `query_cheap` and `query_best`
(priority lists), `get_second_opinion` (all available providers at once,
45 s), `list_providers`; one retry on 429 and 503; `query_cheap` is a cached
tool. Hard: completions of concurrent queries interleave in a breaker; breakers
checked earlier than the POST; cancelled queries. Correct when a breaker trips
only on failures in a row, sheds load while it is open, and recovers.

**web_scraping** (`servers/web_scraping/`). One `WebScraper` with a cache of
robots.txt, the time of the last request and a delay; `configure()` replaces
it. Hard: scrapes that read the time, sleep, and write it; robots fetches that
overlap; redirects; cancellation. Correct when the delay is kept, pages follow an
answer of robots.txt, what overlapping fetches of robots.txt leave in the cache
settles, credentials stay with their origin (section 6), every scrape ends.

**database_query** (`servers/database_query/`): a connection and the schema
read from it, globals that `configure()` replaces; a question becomes a prompt,
the answer of a model is validated (`sql_safety.py`) and run. Hard: the schema
is cached over awaits; a write that one look at the outermost statement does not
show. Correct when only reads run and the schema is that of the connection.

**gemini_embedding** (`servers/gemini_embedding/`): texts, embedded by a client
over HTTP, in a store searched by similarity; client, dimensions and store are
globals. Hard: calls that overlap at the embedding and at `configure()`; ties
and odd values of `top_k`. Correct when a search returns the best, and the store
holds vectors that can be compared.

**calendar** (`servers/calendar/`): events of a provider in memory or of Google,
and the free slots between them. Hard: events across the borders of a day, of
working hours or of the range; ids made anew after a deletion.

**file_processing** (`servers/file_processing/`): parsers over libraries, and a
chunker with four strategies. Hard: overlaps, cuts at spaces, pieces longer than
a chunk, sizes and overlaps that come from the client. Correct when nothing is lost and the loop ends.

**crm_ghl**: a mapper from names to fields with aliases and similar names;
contacts and opportunities in memory. **email**: templates filled placeholder by
placeholder, mail sent in memory, over SMTP or by Gmail. **analytics**: points
of metrics, sums, outliers, charts.

### How they meet

- `EnhancedMCP` owns a `CacheLayer`, a `RateLimiter` and a `TelemetryProvider`;
  every server is one. `rate_limited_tool` passes an explicit limit and window
  on every check, so keys made by it have one rule (`ToolKeys` of
  `SlidingWindow`).
- The wrappers of the decorators charge the limiter and open the spans, with
  the identity of the request's token (`Gateway`, which uses the limiter by its
  contract: `Limiter` is an instance of `RateLimitContract`).
- `RedisCache` and `RedisSlidingWindow` share the prefix `mcp:` of one Redis: to
  the limiter the cache's `clear()` is a `reset_all()`.
- `query_cheap` puts the response cache in front of the routing
  (`cheap` of `MultiLLM`).
- `handle_task` and the scraper use `net_safety.py` before a request leaves; the
  scraper connects to the address that was checked, the webhook by the name
  (`AddressPolicy` has both).
- `Database` EXTENDS `SqlSafety`: a query runs only when the validator lets it.

## 2. Modules

| Module | Models | How |
|---|---|---|
| `RateLimitContract` | what a limiter promises | abstract specification: the admitted calls per key; a call is admitted iff fewer than the limit were admitted inside the window |
| `SlidingWindow` | `RateLimiter` over `InMemorySlidingWindow` | `bucket` is `_buckets`, `configs` is `_configs`; `Check`, `Configure`, `Reset`, `ResetAll`; nothing is awaited, so each is one step |
| `RedisWindow` | `RateLimiter` over `RedisSlidingWindow` | `zset`, `expireAt` in Redis; `client`, `fallback`, `pc`, `job` per process; one action per command, plus lost commands, lost replies and cancellation at each |
| `CachedTool` | `cached_tool`, `CacheLayer`, `InMemoryCache` | `store` is `_store` with time left instead of expiry; a miss is `Miss`, `Read`, `Finish`, or `Break` |
| `RedisCache` | `RedisCache` | `redis` and one `memory` per process, entries with their age; `clear()` lists and deletes in two steps; any command may fail |
| `MultiLLM` | the multi_llm server | `breaker` with `failures` and time left of `_open_until`; a request is a tool and one `leg` per provider it queries |
| `A2ATasks` | the A2A adapter | `tasks` is `_tasks`; a request stands at a yield, at a POST, or in its tool; `late` holds what was sent in a POST that was given up and may still arrive |
| `WebScraper` | the web_scraping server | `scraper` is `_scraper`; per scraper the robots cache and the time since the last request; a scrape validates, looks up, waits for an answer, or sleeps |
| `Gateway` | guarded tool calls: `base_server.py`, `auth.py`, `http_auth.py`, `telemetry.py`, `gateway/app.py` | `session` (the SDK's), `keys` is `APIKeyAuth._keys`, `ctx` is `_call_attrs` per context, `spans` is `_spans`; a call is verified, queued, fetches a signing key, or runs its body; budgets are kept under `FuncName`, the `__name__` of the function, which two tools may share |
| `HttpSettings` | the settings of a bind, `create_server` | a request for settings comes from the environment or by keyword, there with or without the flags `hosts_configured` and `origins_configured`, and is resolved, validated, maybe altered by the program, and served; values are what the checks tell apart |
| `SqlSafety` | `sql_safety.py` | a script is a sequence of statements, each a type, the node types and the functions below it; EXPLAIN holds another script. What a script does when it runs is measured by `Acting`, a constant, and not by the lists of the validator |
| `Database` | the database_query server | `conn`, `cache` are the globals; a call reads the tables one await at a time, asks the model, runs the query |
| `VectorIndex` | the gemini_embedding server | `client`, `dims`, `store` are the globals; a vector is the text and the space it was made in; a store given to `configure()` is any of `Stores` |
| `Calendar` | the calendar server | `provider`, `events`, `counter`; `find_free_slots` with the walk of its loops over an integer clock |
| `Chunker` | `TextChunker` | one action per pass of a loop; `first`, `size` are the group in hand; a chunk is a run of characters or of pieces; size and overlap are chosen at the start from `Sizes` |
| `Crm` | the field mapper, the CRM client and its tools | `fields`, `aliases` in the order they came; `NameForm`, `KeyForm`, `AskedForm` are the three ways a name, a key and a reference are normalised; `contacts`, `deals` |
| `Email` | templates, drafts, the three mail clients | a text is a sequence of words, some of them placeholders |
| `CostTracker` | `costing.py` | `records`; prices and costs are whole numbers of a decimal, rounded as the code rounds |
| `Metrics` | the analytics server | `points`; fractions are kept as pairs, so that nothing is rounded |
| `AddressPolicy` | `net_safety.py` and its two users | `dns` changes at any time; a request checks, then connects to the address or by the name |

`MC<module>` gives the constants values for TLC. `MCToolbox` drives the servers
`Database`, `VectorIndex` and `Calendar` and the sequential components: these
share nothing, so a behaviour chooses one of them in its initial state and leaves
the others as they began, and one run explores the sum of their state spaces
instead of the product. The constant `Parts` says which ones a run is for: the
three servers in `Servers.cfg`, the others in `Toolbox.cfg`.
`SlidingWindowProofs`, `RedisWindowProofs`, `CachedToolProofs`, `A2ATasksProofs`,
`WebScraperProofs`, `MultiLLMProofs`, `GatewayProofs` and `ToolboxProofs` hold
theorems; the last one has a section for each part that `MCToolbox` drives.
`PROJECT.json` maps every definition to the lines it models.

**Time.** `SlidingWindow`, `RedisWindow` and `Gateway` have a clock with a bound
because their properties speak of windows. The others store what is *left* or
*gone* of an interval, saturated at its length, so that time itself needs no
bound.

**History variables.** `admitted`, `narrowest`, `widest` (`SlidingWindow`),
`passed`, `localPassed`, `raised` (`RedisWindow`), `stale` (`CachedTool`),
`streak`, `probing` (fields of `breaker` in `MultiLLM`), `told` (`A2ATasks`),
`heard`, `age` (`WebScraper`), `who`, `passed`, `ended`, `verified` (`Gateway`),
`turn` (`Chunker`), `ran`,
`overtaken`, `moved` (`Database`), `found`, `current` (`VectorIndex`), `offer`,
`deleted` (`Calendar`), `altered` (`HttpSettings`), `writes`, `latest`, `broken`
(`RedisCache`), `log`, `resolved` (`Crm`) and the last answers of the servers
(`draft`, `answer`, `found`) record what happened. No guard reads them, except
for those that also bound the state space (`writes` of `RedisCache`, the length of
`log` of `Crm`).

**Mutants.** Next to a definition there may be a variant `<Name><Slip>` with a
comment "Mutant of": what a plausible slip would make of the code. They take no
part in `Spec`; each makes one property fail, which shows that the property
depends on the code.

**Refinement.** On the keys that always come with the same explicit limit and
window, `SlidingWindow` implements `RateLimitContract` (`ImplementsContract`,
an INSTANCE whose `admitted` is the history variable restricted to those
keys): pruning, the order of append and count, and resets are invisible. It
does not hold for keys used with several windows, where pruning by a short one
loses calls a long one would count. There `WindowBound` says what is left: no
more than the largest limit in the shortest window. `Gateway` builds on the
contract in place of the limiter: `rate_limited_tool` makes keys with one rule
each, and for those the refinement holds.

## 3. Runs

Bounds are values in the `.cfg` files. Passing runs:

| Run | Question | Bounds, and why they suffice |
|---|---|---|
| `SlidingWindow` | Does the in-process limiter keep its bound and refuse only when full, with mixed rules, reconfiguration and resets? Does it implement the contract? | Two keys, one with a fixed rule and one without; two prefixes that cover them differently; windows 1 and 2, limits 1 to 3; four calls, clock to 4: two full windows, so a call is admitted, counted, expires and its place is used again |
| `RedisWindow` | Do two processes on one Redis stay within the shared limit, whatever breaks? | Limit 1, window 2, one clock 1 ahead; three calls, two faults, clock to 3: a marker can outlive its window, a reply can be lost and the fallback used twice. The run checks the transient error class; the other one is in `RedisWindow_raise` |
| `MultiLLM` | Do breakers trip and shed correctly under concurrency, recover, and does every tool call end? | Two providers, two requests, threshold 2, cooldown 2: two failures in a row from different requests, one success between, late failures during a cooldown; no bound on time or on the number of calls |
| `CachedTool` | How stale can a hit be, and whose answer is it? | Two tools, two arguments, two callers, ttl 1, runs of at most 1, two writes; symmetric in the callers; the data of version 1 is `None`, which a backend cannot tell from no entry |
| `A2ATasks` | Are states stored, told and advanced in order, and do tasks end? | One request of each kind, any of which may lose its client at any await, and any POST may be received in time, late or never. The webhook request and the plain one use one task id, so that each overwrites the other's status; the stream is alone with its own |
| `WebScraper` | Do concurrent scrapes keep the delay, ask robots.txt, settle on what it says, and end? | Two scrapes, two origins, delay 2, one redirect, two scrapers of which one ignores robots.txt: a redirect away from an origin, a lookup that overtakes another, a `configure()` between two steps; any number of scrapes in a row |
| `Gateway` | Does a body run only for a credential that allows it, is a caller charged for its own calls and nobody else's, and does each call leave its own span? | Two calls, one tool of each kind and a second limited one whose function has the name of the first's, one session; two tokens of one subject of which the older may write, a client and a foreign subject of the same name; one key; limit 1, one span kept, clock to 2. Two calls are what it takes to mix up spans or budgets, and one to outlive its credential |
| `Servers` | Three servers with globals: do only reads run, over the right schema; does a search return the best of comparable vectors; are the free slots exact and no event lost? | Two symmetric calls each. Database: two connections with two tables, one name among them no identifier; eleven scripts, the ways to hide a write among them, and one function that is on no list. Index: two texts, ids and dimensions, an empty store and one with items of two spaces to replace the current one, `top_k` of -1, 0, 1 and 3. Calendar: days of eight slots, four of them work, two working days; three events that may cross an opening, a closing or the end of a range |
| `Toolbox` | The sequential components, each over every input of a bounded set and every order of its calls | Chunker: every text of up to 6 characters or 4 pieces, and five pairs of size and overlap: one that fits, an overlap above the size, one below 0, and size 0 with and without gaps. Settings: each way to bind and to guard, keyword lists with and without their flags. Email: three keys, values that hold placeholders, values in any order. Costs: prices whose products round, models in no table. Metrics: four points. Cache: two processes, one with a fallback, ttl 2, two writes. Fields: three registrations, aliases claimed twice and similar ones, a name with a blank at its end and a key with a space. Addresses: two requests, lookups of every class and of two classes at once |

Where what is counted is used up, the system stops, and `CHECK_DEADLOCK` is off:
in `RedisWindow` and its variant (clock and calls), `A2ATasks` (each request is
made once), `Servers` and `Toolbox` (calls, events, records, a chunker that is
done). In the other runs time can always pass or a task be started, and deadlock
is checked.

What the passing runs show beyond the titles:

- The limiter over Redis keeps the limit through every interleaving, lost command
  and cancellation, but in the window *shortened by the skew* of the clocks, and
  each process may add its fallback's limit. Neither can be had for less: TLC
  finds counterexamples to the limit in the full window under skew, and to one
  limit for all fallbacks together.
- A breaker never trips on failures that a success separates, though
  completions come in any order: the count the code keeps is at most the number
  of failures in a row.
- A cached answer is at most one ttl *plus one run of the tool* stale.
- Validation of SQL looks at the tree and not at its root: the mutant that looks
  at the root lets a DELETE in a WITH through.
- What overlapping fetches of one robots.txt overwrite in the cache settles: a
  failed fetch may replace a denial and let a page through, but a scraper hears the
  robots.txt of an origin no more often than scrapes overlap, and keeps what it
  heard last.
- `configure()` under way leaves a schema of the old connection in the cache only
  when an inspection was overtaken; otherwise the cache follows the connection.
- The Redis cache serves what was stored last as long as no command has failed;
  after a failure what is left is the bound by the ttl.

Runs that end in a counterexample, each a claim the code does not keep
(section 5): `RedisWindow_raise`, `MultiLLM_probe`, `WebScraper_pace`.

**Fairness**, used by the liveness properties only:

- `MultiLLM`: time passes (`Tick`) and each query in flight ends
  (`Progress`): the event loop starts created tasks, and provider clients have
  a 30 s timeout. Nothing is assumed about which way a query ends, nor that
  anybody retries or abandons.
- `A2ATasks`: a request in progress advances (`Advance`): tools return or
  raise, a webhook POST times out after 5 s, a consumer that has not left reads
  on. The tools' returning is an assumption about their authors. Leaving is not
  fair, and `TaskEnds` allows for it.
- `WebScraper`: time passes, and a lookup or a request of each scrape is
  answered or fails, for httpx has a timeout. Which answer it is, is open:
  sites may redirect as often as they like.

That the loops of the chunker end is no matter of fairness but of a measure:
`EachPassAdvances`. It also says when the loop does not: asked for chunks of size 0
without gaps, no pass gets on.

## 4. Proofs

TLAPS proves, for every value of the constants that satisfies the module's
ASSUME:

**`SlidingWindowProofs`** — `AdmittedBounded` (`WindowBound`),
`RefusalJustified` (`RefusedOnlyWhenFull`) and `Refinement`
(`ImplementsContract`). `WindowBound` is not inductive: it speaks of admitted
calls, while the code counts the bucket. The invariant `Inv` adds that the
bucket holds only admitted calls, that it holds *all* of those inside the
narrowest window ever used on the key (pruning with any other window spares
them), and that it has at most as many as the largest limit.

**`RedisWindowProofs`** — `SharedLimit` (`SharedBound`), `FallbackLimit`
(`FallbackBound`), `RefusedLeaveNothing` (`QuietMeansClean`), for any number of
processes, limit, window, skews and faults. Redis counts markers, the bound
speaks of calls. The link is `Remembered`: every call let through that lies in
the window *of the fastest clock* still has its marker, since no prune uses a
later cutoff than that clock's, the set lives a window longer than its last
pipeline, and a ZREM takes out a marker of its own (`Owned`: ids under way are
unique). A pipeline that counts no more than the limit therefore has all of
them in its count.

**`CachedToolProofs`** — `StalenessIsBounded` (`StalenessBounded`) and
`AnswersAreOwn` (`OwnAnswer`). The invariant says how old what a call has read
can be by now (no more than the time its run has taken), and how old the data of
an entry (one run, plus the part of the ttl that is over). `AnswersAreOwn`
assumes `OwnNames`, that no two tools' functions share a `__name__`: the key is
made of that name, not of the tool's.

**`MultiLLMProofs`** — `TripsInARow` (`TripNeedsFailuresInARow`) and
`ShedsLoad` (`OpenShedsLoad`), for any providers, priority lists, requests and
thresholds. Whatever a request does, what happens to a breaker in a step is one
of a few things (`Turn`): it is looked at, a query's failure or success is
recorded, time passes. Each keeps the count at most at the number of failures in
a row (`Sound`). That an open breaker sheds load is a fact about the requests
(`Requested`): a query is added only to a provider whose breaker was asked in
the same step.

**`GatewayProofs`** — `BudgetBound` (`BudgetPerCaller`), `RefusalsAreOwn`
(`RefusedForOwn`), `SpansHold` (`SpansTell`) and `GuardsHold` (`BodyIsAllowed`),
for any number of concurrent calls, sessions, tokens, keys and tools. A step
moves one call (`Moves`) or none (`Rests`). Budgets: the limiter admits entries
under keys, the property speaks of calls and callers. The invariant has a
one-to-one correspondence between the calls that passed and the entries
(`Numbered`), and two calls have one key exactly when they are of one caller
(`KeyIsCaller`); so the number of calls charged to a caller *is* the number the
limiter holds against its key, which gives the bound and, at a refusal, its
justification. A caller here is a principal (or, locally, the id that is passed)
together with the name of the function, since that is what the key is made of
(`framework/base_server.py:146`, `:151`): two tools whose functions share a name
share their budgets, and both theorems hold for any naming. Spans: dropping the
oldest before or after an append comes to the
same (`DropEarly`), and the identity of a call that has ended does not change.
Guards: what a wrapper read of a credential it read in the step that calls the
function. The bearer of an HTTP request is different: it is verified once, before
the call queues for its tool, and `BodyIsAllowed` says that it was good *then* (the
history variable `verified`), not that it still is.

**`A2ATasksProofs`** — `ToldIsStored` (`ReportedIsStored`), `OrderIsKept`
(`ToldInOrder`), `StatesGoForward` (`StateSequence`), for any requests and any ids.
A second request under an id that is in use overwrites the first one's status, and
what a client was told may then be stored no more: `ReportedIsStored` speaks of
requests that are `Alone` with their id so far, and `StateSequence` says that a
status goes back *only* when two requests have been begun under its id. The
invariant ties where a request stands to what is stored under its id and to the
rank of everything it has told; a POST that was given up is told late, behind
others, and at most once.

**`WebScraperProofs`** — `PaceIsBounded` (`PaceBounded`), `RobotsSettles`
(`RobotsSettle`), `RobotsAreAsked` (`RobotsAsked`). The argument for the
pace: the time written last is the latest at which any task left
`_rate_limit`, so a task that computes its sleep from it sleeps at least until
its own last leave is a delay ago. Two tasks that leave together are not
excluded (`WebScraper_pace` shows it); one task leaving twice is. The argument for
the cache of robots.txt: a scrape asks only when nothing is known, and from then on
none begins to ask; so what is yet to be heard comes from the scrapes that are
asking (`Askers`), each of which is heard once.

**`ToolboxProofs`** — one section for each part that `MCToolbox` drives. A theorem
here is about the specification of the part (`DB!Spec`, `Index!Spec`, ...). A
behaviour of `MCToolbox` is one of every part, the others resting (`EachPart`), so
that what the runs `Servers` and `Toolbox` check holds for all constants
(`PartsHold`).

- *Chunker*: `Tiling` (`ChunksTile`), `Bounded` (`ChunksBounded`) and `Advancing`
  (`EachPassAdvances`), for every text, every chunk size from 0 and every overlap,
  also one as large as the chunk: the code moves on by at least one unit, unless it
  is asked for size 0 without gaps, where it never moves (`Stalled`). Text is left
  out only under a negative overlap (`Gapless`). `Bounded` is about the length of a
  chunk: `current_len` counts the pieces of a group, and the separators of its join
  come on top (`Separators`). The invariant: all chunks lie behind the position,
  and the group in hand has the size that is counted for it.
- *Database*: `ReadsOnly` (`OnlyReadsRun`). `ValidateReadOnly` and `Effects` look through
  EXPLAIN at the script it explains, and scripts may name each other in a circle.
  The definitions are recursive functions by CHOOSE, so the proof exhibits a
  solution of each, the largest one (the union of all sets that are closed under
  looking inside), and then needs only the two equations. What it shows is that
  nothing on the lists acts; a function that acts and is on no list is `Overlooked`,
  as the validator's own doc says. `SchemaIsCurrent`
  (`SchemaOfConnection`): what an inspection has read and has yet to read are the
  tables of one connection, the current one unless `configure()` came in between.
- *Vector index*: `ItemsAreComparable` (`SameSpace`): what is current was made in
  the embedding space of now, and an id is in the store once, with the vector of its
  own text; items that came with a store are not current. `BestAreReturned`
  (`SearchReturnsBest`): `search` takes the head of a sorted permutation, and the
  proof has to show that there is one (by insertion, over the length), that a
  one-to-one map of `1 .. n` into itself is onto, and that whatever is in the head
  scores no less than whatever is not.
- *HTTP settings*: `GuardedBinds` (`BindIsGuarded`) and `ListsKept`
  (`ListsAreKept`), for every request. What was resolved is as the request has it
  unless the program altered it, and a server runs only on what was validated. A
  keyword list without its flag counts as none; on a public bind such hosts are
  refused.
- *Addresses*: `PublicOnly` (`ConnectionsArePublic`): between the check and the
  connection the answer that was checked travels with the call; the names may
  change in any way.
- *Redis cache*: `RecentHits` (`HitsAreRecent`), for any number of processes and
  keys: an entry of Redis is no older than the ttl, and the last write of its key
  as long as no command has failed. What is in memory may be older, and is looked
  at before it is served.
- *Calendar*: `NothingIsLost` (`NoEventLost`): the ids in use are as many as the
  counter less the deletions and none is beyond the counter, so a new id is always
  one that none has had. `ExactSlots` (`SlotsAreExact`), for any length of the day,
  any hours, durations, ranges and events: `find_free_slots` walks on by a day or by
  a slot; the proof gives the slots of the rest of the walk in closed form
  (`Slots`), shows that they obey the equation of the walk at every time
  (division and remainder by the day and by the duration), and by induction on the
  time left that the walk has no other solution.
- *Analytics*: `RareAnomalies` (`AnomaliesAreRare`): fewer than one in z² of the
  points deviate by more than z standard deviations, Chebyshev's inequality for the
  sums as the code folds them.
- *Costs*: `ChargesAddUp` (`CostsAddUp`): every sum is rounded after every addition,
  and the sums over the tools and over the models still agree to the last digit,
  since what is added is itself rounded.
- *Email*: `DraftsAreFilled` (`DraftIsFilled`): replacing key after key comes to the
  same as replacing all at once when no value holds a placeholder. Filling is a
  homomorphism of texts, which is shown by induction over their words.
- *CRM*: `ValuesFindTheirField` (`ValuesArrive`): the table of aliases, a
  sequence in which an entry is put in its old place or at the end, leads every
  name to the registration in the log that claimed it last.

Where the code loops over a list, the model folds over it, and a theorem for every
list needs induction. The induction theorems of the library take an operator, which
no backend here instantiates; the section *induction and folds* has them in a form
that needs none: a *set* of numbers that has 0 and with each number the next has
all (`NatInductionSet`), likewise for texts (`TextInduction`), and the folds and
recursive functions of the models are taken for what they are, a CHOOSE, whose
equation follows from a solution that is exhibited. Two models were put in another
form for it, with the same meaning: `Search` of `VectorIndex` takes a sorting
permutation where it called a library operator, and `GoogleEvents` of `Calendar`
takes the first `MaxResults` by their rank.

**Assumptions.** Constants are assumed to be what their types in the code say, and
besides:

| Assumption | Says | Why |
|---|---|---|
| `ChunkerAssumption` | a chunk size from 0, any overlap | both come from the client unchecked; a negative size is left out (section 6) |
| `SqlAssumption` | statements have the five fields, an EXPLAIN explains another script; node types are no function names | `Parse` is the parser's result, and a text is not a part of itself; longer circles are not excluded, since nothing needs it; types are capitalised, functions in lower case |
| `MCToolboxAssumption` | `None` is no connection, ids are no calls | model values |
| `AddressAssumption` | an IPv6 address that embeds one of IPv4 is unicast | the prefixes `net_safety.py` takes apart are neither multicast nor site-local |
| `TTLAssumption` | a ttl is a natural number | it is an integer of seconds |
| `MetricsAssumption` | whole values, thresholds above 0 | a fixed unit; with 0 deviations every point but the mean is an outlier, and nothing could be few |
| `CostAssumption` | no negative price or number of tokens | the tables of `costing.py`, the usage of an API |
| `EmailAssumption` | no key twice | the variables are a dict |
| `CrmAssumption` | every name, key and reference has its normal form | `lower()`, `replace()` and `strip()` are total; nothing is assumed of how the three forms relate |
| `CalendarAssumption` | hours of the day, durations that are not negative, a default above 0 | `replace(hour=...)` refuses other hours; a negative duration is in section 5 |
| `StoresAssumption` | a store that is given holds an id once, with the vector of its own text | it is an `InMemoryVectorStore`, a dict, which `index_text` fills |
| `SimilarityAssumption` | scores are integers | only their order counts |

In `CachedToolProofs`, `OwnNames` is a hypothesis of the one theorem that needs it.

Each theorem is `Init => IInv`, lemmas about the kinds of steps, and a final
step in temporal logic. Every inductive invariant was an invariant of a run before
it was proved. Type correctness is part of every invariant and a theorem of its own
(`TypeCorrect`) where the specification states it; the runs check no type invariant
besides, since a proof covers it.

Every safety property that a passing run checks, invariant, action property or
refinement, is stated by a theorem. Only model-checked are the four liveness
properties (`Recovers`, `Answered`, `TaskEnds`, `ScrapeEnds`): they rest on
fairness, hence on ENABLED, which is out of the prover's reach.

## 5. Findings

Claims of the documentation, or of a name, that the code does not keep. Each
has a run with a counterexample.

1. *The fallback raises* (`RedisWindow_raise`). The except clauses list the
   builtin errors; redis-py raises its own, so a connection that breaks after
   the first ping is an exception in spite of `fallback_to_memory=True`
   (`framework/caching.py:61`, `framework/rate_limiter.py:109`).
2. *A failed probe does not reopen the breaker* (`MultiLLM_probe`). After the
   cooldown the count is zero, and it takes the full threshold again
   (`servers/multi_llm/models.py:43`, ADR-0003).
3. *Two requests within one delay* (`WebScraper_pace`). Scrapes that sleep at
   the same time leave together (`servers/web_scraping/scraper.py:161`).

Met while modelling and part of the models, without a run of their own:

- Limiter: until its ZREM is done a refused call's marker counts against the
  others, and for good if the task is cancelled in between (ADR-0005:37 says a
  refused call does not consume). `get_remaining()` answers for the configured
  rule, not for the explicit one `rate_limited_tool` uses. `RedisCache.clear()`
  deletes every key `mcp:*`, the windows `mcp:ratelimit:*` among them.
- Cache: a run that read before a write stores after `delete`, so a stale entry
  survives it (ADR-0002:54). With `ttl=0` an entry in memory is served at the
  instant it was stored, and SETEX with 0 raises; ADR-0002 calls it a bypass. A
  `set` that raises fails the call after its tool has done its work. A `delete`
  during an outage reaches one of the two stores. What went through
  `json.dumps(default=str)` may come back as another type.
- Breakers: a success that comes late closes a breaker that has opened since; the
  retry and the POSTs of a gather go out though the breaker has opened meanwhile;
  queries cancelled at 45 s tell the breaker nothing; `query_cheap` caches its
  error text for 300 s.
- A2A: a request whose client leaves stays "submitted" or "working" for good, and
  the status "canceled" is never set. An id used again takes a task that has ended
  back to "submitted". A webhook that answers after 5 s may receive a state behind a
  later one (`framework/a2a_adapter.py:273`).
- Scraper: redirects and robots.txt requests do not pass through `_rate_limit`; a
  fetch of robots.txt that fails replaces a denial by a permission.
- Gateway: two rate-limited tools whose functions have one `__name__` share their
  budgets, whatever names they are registered under (`framework/base_server.py:146`,
  `:151`), so that a call of one is refused for calls of the other. A call that lacks
  its scope is charged before it is refused; a token is
  verified before its call queues for the tool, so the body may begin after it has
  expired; `docs/adr/ADR-0006-oauth-2.1-resource-server.md:26` says of
  `requires_scope` that it "returns an error string", while it raises.
- Calendar: `list_events` of the provider in memory leaves out events that
  straddle an end of the range, so an offered slot may be busy
  (`calendar/server.py:43`); slots may end after `end_date`; events with an offset
  give datetimes that cannot be compared with naive ones. A negative
  `duration_minutes` makes the walk over the day go backwards, where it does not
  end (`calendar/availability.py:89`); `CalendarAssumption` excludes it.
- HTTP settings: a list passed by keyword without `hosts_configured` or
  `origins_configured` is replaced by the defaults, without a word on a loopback bind
  (`framework/http_auth.py:264`, `:308`).
- Chunker: with an overlap the last chunk may lie wholly inside the one before.
  `chunk_text` takes `chunk_size` and `chunk_overlap` from the client unchecked
  (`file_processing/server.py:83`): size 0 with the fixed strategy never ends
  (`chunker.py:79`), and a negative overlap loses text. Groups exceed the size by the
  separators of their join, which `current_len` does not count (`chunker.py:113`,
  `:158`, `:201`).
  `chunk_text` does not use what `configure()` sets.
- Costs: the fuzzy match takes the first key of the table that fits
  (`costing.py:144`), whatever fits better.
- Email: a value that holds a placeholder is filled again by a later key; SMTP puts
  a Bcc header into the message and ignores recipients that were refused.
- Analytics: a chart shows the 100 oldest points, and a metric called "labels"
  cannot be drawn.
- CRM: a name, a key and a reference are normalised in three ways
  (`crm_ghl/field_mapper.py:34`, `:36`, `:42`): a field whose name ends in a blank,
  or whose key has a space, is not found by it, and the value may go to the field of
  a similar alias. `ValuesArrive` says where a value goes in terms of the forms. No
  tool uses the field mapper or `update_contact`.
- Addresses: the webhook looks its host up a second time, which
  `net_safety.py:40` documents; `ConnectionsArePublic` says what is left.

## 6. What is left out

- Data: what pages, prompts, documents and rows contain; formats of keys and
  messages; wording; numbers in spans; SVG.
- Libraries: the parsers of files (`parsers.py`), sqlglot's parser (`Parse` is its
  result), PyJWT's cryptography, the SDK's session layer (that it binds a session
  to the issuer and the subject of its token, and runs a call in the context of
  its own request, is taken from `http_auth.py` and
  `tests/test_gateway/test_transport_auth.py`), Redis beyond atomic commands.
- `servers/web_scraping/extractor.py`: one call to a language model without state;
  `extract_data` does not look whether the page was fetched.
- `OAuthAuth` (a test stub), `span()` and the export to OpenTelemetry, the
  command lines, `testing.py`, `errors.py`, and everything outside of
  `mcp_toolkit/`: examples, evals, scripts, benchmarks and tests.
- Which requests of the scraper carry the credentials of the client: each hop decides
  it anew by comparing its origin with the first one (`web_scraping/scraper.py:62`),
  and a property could only repeat that line.
- Negative chunk sizes; the fixed strategy then slices from the end of the text.
- `Gateway` has one `MaxCalls` and one `Window` for all limited tools. Under a shared
  function name two tools could pass different ones; what the limiter then keeps is
  in `SlidingWindow` (`WindowBound`).
- `asyncio.sleep` may wake early by the resolution of the clock; `WebScraper`
  takes the sleep to be as long as asked.
- `Gateway` identifies keys of the limiter with what they are made of. The code
  joins them with colons, and the id a local caller passes may contain colons,
  so a local key could be spelled like a verified one or like "default".
- Floating point: `Metrics` computes with exact fractions, while rounding can make
  the deviation of a constant series different from zero; `CostTracker` rounds
  in decimal, half up. Similarities in `VectorIndex` are numbers from a table, and
  what two spaces score together is one number.
- Similarity of names in `Crm` and of models in `CostTracker` is a relation the
  configuration gives, not computed from characters.

## 7. Plan

The order was by what many servers rest on, then by what concurrency makes hard:
the limiter in one process and over Redis, the cache, the breakers, the A2A
adapter, the scraper and the gateway first; then the servers with globals that
`configure()` replaces; then the sequential parts. All of that is done, and so are
the proofs of its safety properties. What could follow:

1. `CachedTool` with `RedisCache` as its backend in one composition, so that the
   bound on staleness covers outages.
2. `RedisWindow` as a refinement of `RateLimitContract` for equal clocks and no
   faults; between pipeline and ZREM it is not one, so the contract would need
   calls that are refused early.
3. Theorems beyond what the runs check: that the counterexample of
   `MultiLLM_probe` needs a full threshold again, how long a marker of a refused
   call can count against others (`RedisWindow`), that a walk of
   `find_free_slots` ends.
