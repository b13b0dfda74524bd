----------------------------- MODULE WebScraper -----------------------------
(***************************************************************************)
(* Scrapes that run concurrently through the web_scraping server           *)
(* (servers/web_scraping/server.py) and its WebScraper (scraper.py).       *)
(*                                                                         *)
(* A scrape validates its URL, asks the robots.txt of the URL's origin     *)
(* unless the scraper remembers it, waits for its turn, and fetches the    *)
(* page.  Both fetches follow redirects hop by hop in _safe_get.  The      *)
(* awaits are the lookup of a host, the answer to a request and the sleep  *)
(* of _rate_limit: between two of them a scrape runs alone, at them the    *)
(* others run, and there it may be cancelled.  configure() puts a new      *)
(* WebScraper in place; scrapes under way keep the one they began with.    *)
(*                                                                         *)
(* An origin stands for its pages too: one path, which a robots.txt allows *)
(* or denies.  Sites and the resolver answer anything; what a lookup       *)
(* accepts is the business of net_safety.py.  Whether a request carries    *)
(* the credentials of the client is left out: every hop decides it anew,   *)
(* by comparing its origin with the first one.                             *)
(***************************************************************************)
EXTENDS Integers, Sequences, FiniteSets

CONSTANTS
  Tasks,         (* scrapes that may be under way at once                  *)
  Origins,       (* scheme, host and port of an URL                        *)
  Delay,         (* _rate_delay, in ticks                                  *)
  MaxRedirects,  (* _MAX_REDIRECTS                                         *)
  MaxScrapers,   (* bound: scrapers made by configure(), the first included *)
  Respects       (* Respects[k]: respect_robots of scraper k               *)

Scrapers == 1..MaxScrapers

ASSUME WebScraperAssumption ==
  /\ IsFiniteSet(Tasks)
  /\ Delay \in Nat \ {0}
  /\ MaxRedirects \in Nat
  /\ MaxScrapers \in Nat \ {0}
  /\ Respects \in [Scrapers -> BOOLEAN]

VARIABLES
  scraper,  (* the _scraper of the server                                  *)
  task,     (* what each scrape is doing                                   *)
  robots,   (* robots[k][o]: _robots._cache of scraper k                   *)
  heard,    (* history: heard[k][o]: what was put there, one after another *)
  since,    (* since[k]: ticks since _last_request_time, up to Delay       *)
  age       (* age[k][t]: ticks since task t last left _rate_limit of k    *)

vars == <<scraper, task, robots, heard, since, age>>

\* What a robots.txt says of the page.
Verdicts == {"allow", "deny"}

Idle == [at |-> "idle"]

\* A scrape of page validates its URL, or sleeps in _rate_limit for sleep
\* more ticks.
Validating == [at: {"validate"}, by: Scrapers, page: Origins]
Sleeping == [at: {"sleep"}, by: Scrapers, page: Origins, sleep: 0..Delay]

\* In _safe_get, for robots.txt or for the page: hop is the origin of the
\* current URL, reached by so many redirects, looked up or already asked.
Looking == [at: {"lookup"}, by: Scrapers, page: Origins,
            get: {"robots", "page"}, hop: Origins, redirects: 0..MaxRedirects]
Waiting == [at: {"sent"}, by: Scrapers, page: Origins,
            get: {"robots", "page"}, hop: Origins, redirects: 0..MaxRedirects]

Init ==
  /\ scraper = 1
  /\ task = [t \in Tasks |-> Idle]
  /\ robots = [k \in Scrapers |-> [o \in Origins |-> "unknown"]]
  /\ heard = [k \in Scrapers |-> [o \in Origins |-> <<>>]]
  /\ since = [k \in Scrapers |-> Delay]
  /\ age = [k \in Scrapers |-> [t \in Tasks |-> Delay]]

-----------------------------------------------------------------------------
Becomes(t, state) == task' = [task EXCEPT ![t] = state]
Ends(t) == Becomes(t, Idle)

\* _safe_get begins with the URL it is given.
Fetches(t, what) ==
  Becomes(t, [at |-> "lookup", by |-> task[t].by, page |-> task[t].page,
              get |-> what, hop |-> task[t].page, redirects |-> 0])

\* Mutant of Leave: the time is written only when there was no need to sleep.
LeaveUnstamped(t) ==
  LET k == task[t].by IN
  /\ since' = IF task[t].at = "sleep" THEN since ELSE [since EXCEPT ![k] = 0]
  /\ age' = [age EXCEPT ![k][t] = 0]
  /\ Fetches(t, "page")

\* The end of _rate_limit; the page is fetched next.
Leave(t) ==
  LET k == task[t].by IN
  /\ since' = [since EXCEPT ![k] = 0]
  /\ age' = [age EXCEPT ![k][t] = 0]
  /\ Fetches(t, "page")

\* _rate_limit reads the time of the last request and sleeps the rest of the
\* delay.
RateLimit(t) ==
  LET k == task[t].by IN
  \/ /\ since[k] >= Delay
     /\ Leave(t)
  \/ /\ since[k] < Delay
     /\ Becomes(t, [at |-> "sleep", by |-> k, page |-> task[t].page,
                    sleep |-> Delay - since[k]])
     /\ UNCHANGED <<since, age>>

\* The end of is_allowed, with what the cache holds now.
Judge(t, verdict) ==
  \/ /\ verdict = "deny"
     /\ Ends(t)
     /\ UNCHANGED <<since, age>>
  \/ /\ verdict = "allow"
     /\ RateLimit(t)

\* scrape() is called.
Start(t) ==
  /\ task[t].at = "idle"
  /\ \E o \in Origins :
        Becomes(t, [at |-> "validate", by |-> scraper, page |-> o])
  /\ UNCHANGED <<scraper, robots, heard, since, age>>

\* Mutant of Checked: the entry is put in the cache before the fetch.
CheckedPlaceholder(t) ==
  LET k == task[t].by
      o == task[t].page
  IN
  /\ task[t].at = "validate"
  /\ \/ Ends(t) /\ UNCHANGED <<robots, since, age>>
     \/ /\ Respects[k] /\ robots[k][o] = "unknown"
        /\ robots' = [robots EXCEPT ![k][o] = "allow"]
        /\ Fetches(t, "robots")
        /\ UNCHANGED <<since, age>>
     \/ /\ Respects[k] /\ robots[k][o] # "unknown"
        /\ Judge(t, robots[k][o])
        /\ UNCHANGED robots
     \/ ~Respects[k] /\ RateLimit(t) /\ UNCHANGED robots
  /\ UNCHANGED <<scraper, heard>>

\* Mutant of Checked: the cache is filled but not looked at.
CheckedAfresh(t) ==
  LET k == task[t].by IN
  /\ task[t].at = "validate"
  /\ \/ Ends(t) /\ UNCHANGED <<since, age>>
     \/ Respects[k] /\ Fetches(t, "robots") /\ UNCHANGED <<since, age>>
     \/ ~Respects[k] /\ RateLimit(t)
  /\ UNCHANGED <<scraper, robots, heard>>

\* The URL is refused, which raises; or robots.txt is looked up in the cache,
\* and fetched when it is not there.
Checked(t) ==
  LET k == task[t].by
      verdict == robots[k][task[t].page]
  IN
  /\ task[t].at = "validate"
  /\ \/ Ends(t) /\ UNCHANGED <<since, age>>
     \/ /\ Respects[k] /\ verdict = "unknown"
        /\ Fetches(t, "robots")
        /\ UNCHANGED <<since, age>>
     \/ Respects[k] /\ Judge(t, verdict)
     \/ ~Respects[k] /\ RateLimit(t)
  /\ UNCHANGED <<scraper, robots, heard>>

\* A fetch is over.  The page ends its scrape; for robots.txt one of the
\* verdicts is remembered, over whatever another scrape has put there.
Fetched(t, verdicts) ==
  LET k == task[t].by
      o == task[t].page
  IN
  \/ /\ task[t].get = "page"
     /\ Ends(t)
     /\ UNCHANGED <<robots, heard, since, age>>
  \/ /\ task[t].get = "robots"
     /\ \E v \in verdicts :
          /\ robots' = [robots EXCEPT ![k][o] = v]
          /\ heard' = [heard EXCEPT ![k][o] = Append(@, v)]
          /\ Judge(t, v)

\* An error on the way: an error page, or a robots.txt that denies nothing.
Failed(t) == Fetched(t, {"allow"})

\* The host of the hop is refused, or the request is sent.
Lookup(t) ==
  /\ task[t].at = "lookup"
  /\ \/ Failed(t)
     \/ /\ Becomes(t, [task[t] EXCEPT !.at = "sent"])
        /\ UNCHANGED <<robots, heard, since, age>>
  /\ UNCHANGED scraper

\* Mutant of Redirect: redirects are not counted.
RedirectUncounted(t, o) ==
  /\ Becomes(t, [task[t] EXCEPT !.at = "lookup", !.hop = o])
  /\ UNCHANGED <<robots, heard, since, age>>

\* The answer points to an URL of origin o.
Redirect(t, o) ==
  \/ /\ task[t].redirects < MaxRedirects
     /\ Becomes(t, [task[t] EXCEPT !.at = "lookup", !.hop = o, !.redirects = @ + 1])
     /\ UNCHANGED <<robots, heard, since, age>>
  \/ task[t].redirects = MaxRedirects /\ Failed(t)

\* The request is answered, or breaks.
Answered(t) ==
  /\ task[t].at = "sent"
  /\ \/ Fetched(t, Verdicts)
     \/ Failed(t)
     \/ \E o \in Origins : Redirect(t, o)
  /\ UNCHANGED scraper

\* The sleep is over, at its deadline or later.
Awake(t) ==
  /\ task[t].at = "sleep" /\ task[t].sleep = 0
  /\ Leave(t)
  /\ UNCHANGED <<scraper, robots, heard>>

\* The tool call is cancelled at an await: no except clause catches that.
Cancel(t) ==
  /\ task[t].at # "idle"
  /\ Ends(t)
  /\ UNCHANGED <<scraper, robots, heard, since, age>>

\* configure()
Configure ==
  /\ scraper < MaxScrapers
  /\ scraper' = scraper + 1
  /\ UNCHANGED <<task, robots, heard, since, age>>

\* Time passes; beyond the delay it is not counted.
Later(n) == IF n < Delay THEN n + 1 ELSE Delay

Tick ==
  /\ since' = [k \in Scrapers |-> Later(since[k])]
  /\ age' = [k \in Scrapers |-> [t \in Tasks |-> Later(age[k][t])]]
  /\ task' = [t \in Tasks |->
                IF task[t].at = "sleep" /\ task[t].sleep > 0
                THEN [task[t] EXCEPT !.sleep = @ - 1] ELSE task[t]]
  /\ UNCHANGED <<scraper, robots, heard>>

Next ==
  \/ \E t \in Tasks :
       Start(t) \/ Checked(t) \/ Lookup(t) \/ Answered(t) \/ Awake(t) \/ Cancel(t)
  \/ Configure
  \/ Tick

Spec == Init /\ [][Next]_vars

\* The event loop runs a task whose await is over, to_thread and the timeouts
\* of httpx end every lookup and request, and time passes.
FairSpec ==
  /\ Spec
  /\ WF_vars(Tick)
  /\ \A t \in Tasks : WF_vars(Checked(t) \/ Lookup(t) \/ Answered(t) \/ Awake(t))

-----------------------------------------------------------------------------
\* Type invariant: the fields of a scrape go with where it stands, and no
\* fetch follows more than MaxRedirects redirects.
TypeOK ==
  /\ scraper \in Scrapers
  /\ task \in [Tasks -> {Idle} \cup Validating \cup Sleeping \cup Looking \cup Waiting]
  /\ robots \in [Scrapers -> [Origins -> Verdicts \cup {"unknown"}]]
  /\ heard \in [Scrapers -> [Origins -> Seq(Verdicts)]]
  /\ since \in [Scrapers -> 0..Delay]
  /\ age \in [Scrapers -> [Tasks -> 0..Delay]]

\* The page itself is being fetched.
Fetching(t) == task[t].at \in {"lookup", "sent"} /\ task[t].get = "page"

\* However the readings, sleeps and writings of _rate_limit interleave, and
\* whatever is cancelled in its sleep: scrapes that follow one another in one
\* task leave it at least the delay apart, so no more go out within one delay
\* than run at once.
PaceBounded ==
  [][ \A t \in Tasks :
        ~Fetching(t) /\ Fetching(t)' => age[task[t].by][t] >= Delay ]_vars

\* Past the check of robots.txt.
GoesForPage(t) == task[t].at = "sleep" \/ Fetching(t)

\* What a scraper has ever heard of an origin.
Ever(h, k, o) == {h[k][o][n] : n \in DOMAIN h[k][o]}

\* Concurrent scrapes of one origin overwrite what each has put in the cache
\* of robots.txt.  Still, a page is waited for or fetched only after some
\* fetch of robots.txt through the same scraper ended without denying it.
RobotsAsked ==
  \A t \in Tasks :
    (GoesForPage(t) /\ Respects[task[t].by])
      => "allow" \in Ever(heard, task[t].by, task[t].page)

\* Scrapes that began before anything was known of an origin overwrite what
\* each has put in the cache, a denial by the failure of a later one among
\* them.  Still, it settles: a scraper hears the robots.txt of an origin no more
\* often than scrapes can overlap, and what it heard last then holds for good.
RobotsSettle ==
  \A k \in Scrapers : \A o \in Origins :
    /\ Len(heard[k][o]) <= Cardinality(Tasks)
    /\ heard[k][o] # <<>> => robots[k][o] = heard[k][o][Len(heard[k][o])]

\* Every scrape ends, however long its redirects lead in circles and however
\* many others want their turn.
ScrapeEnds == \A t \in Tasks : task[t].at # "idle" ~> task[t].at = "idle"

\* "requests_per_second: Max requests per second" (scraper.py:139): within
\* one delay no two scrapes leave _rate_limit.
OnePerDelay ==
  \A k \in Scrapers : \A t, u \in Tasks :
    age[k][t] < Delay /\ age[k][u] < Delay => t = u
=============================================================================
