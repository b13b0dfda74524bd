-------------------------- MODULE WebScraperProofs --------------------------
(***************************************************************************)
(* What WebScraper promises for any number of scrapes, origins, redirects  *)
(* and scrapers and any delay.                                             *)
(*                                                                         *)
(* That the delay is kept rests on two facts about _rate_limit: the time   *)
(* written last is the latest at which any task left it, and whoever       *)
(* sleeps there sleeps until its own last leave is a delay ago.  That the  *)
(* cache of robots.txt settles rests on a count: once something is known   *)
(* of an origin, nobody begins to ask for its robots.txt any more.         *)
(***************************************************************************)
EXTENDS WebScraper, FiniteSetTheorems, TLAPS

Scrapes == {Idle} \cup Validating \cup Sleeping \cup Looking \cup Waiting

-----------------------------------------------------------------------------
(* The inductive invariant                                                 *)

\* No task left _rate_limit after the time it has written last.
SinceLatest == \A k \in Scrapers : \A t \in Tasks : since[k] <= age[k][t]

\* The sleep of a task lasts until its last leave is Delay ago.
SleepsEnough ==
  \A t \in Tasks :
    task[t].at = "sleep" => age[task[t].by][t] + task[t].sleep >= Delay

\* What the cache of robots.txt holds was heard.
HeardFirst ==
  \A k \in Scrapers : \A o \in Origins : robots[k][o] = "allow" => "allow" \in Ever(heard, k, o)

IInv ==
  /\ TypeOK
  /\ SinceLatest
  /\ SleepsEnough
  /\ HeardFirst
  /\ RobotsAsked

-----------------------------------------------------------------------------
(* What a step does to the scrape that takes it                            *)

\* A scrape past the check of robots.txt.
PageBound(s) == s \in Sleeping \/ (s \in Looking \cup Waiting /\ s.get = "page")

\* A scrape that is fetching a robots.txt.
Asks(s) == s.at \in {"lookup", "sent"} /\ s.get = "robots"

\* The scrapes that fetch the robots.txt of o for scraper k.
Askers(k, o) == {t \in Tasks : Asks(task[t]) /\ task[t].by = k /\ task[t].page = o}

\* The fields of the records tell where a scrape stands.
LEMMA Standing ==
  ASSUME NEW s \in Scrapes
  PROVE  /\ s.at = "idle" <=> s = Idle
         /\ s.at = "validate" <=> s \in Validating
         /\ s.at = "sleep" <=> s \in Sleeping
         /\ s.at = "lookup" <=> s \in Looking
         /\ s.at = "sent" <=> s \in Waiting
         /\ s.at # "idle" => s.by \in Scrapers /\ s.page \in Origins
  BY DEF Scrapes, Idle, Validating, Sleeping, Looking, Waiting

\* The delay and the ages of a scraper that a scrape leaves, or does not.
NoneLeaves == since' = since /\ age' = age
Leaves(t) ==
  /\ since' = [since EXCEPT ![task[t].by] = 0]
  /\ age' = [age EXCEPT ![task[t].by][t] = 0]

\* Scrape t goes on as s, and what that asks of the new state.
GoesOn(t, s) ==
  /\ s \in Scrapes
  /\ task' = [task EXCEPT ![t] = s]
  /\ task[t].at # "idle" /\ s # Idle => s.by = task[t].by /\ s.page = task[t].page
  /\ \/ NoneLeaves
     \/ Leaves(t) /\ task[t].at # "idle" /\ s \in Looking
  /\ s \in Sleeping => age[s.by][t] + s.sleep >= Delay
  /\ PageBound(s) /\ Respects[s.by] => "allow" \in Ever(heard', s.by, s.page)
  /\ Asks(s) => Asks(task[t]) \/ robots[s.by][s.page] = "unknown"

\* The cache of robots.txt stays, or gets a verdict that is heard with it.
NothingHeard == robots' = robots /\ heard' = heard
Hears(k, o, v) ==
  /\ robots' = [robots EXCEPT ![k][o] = v]
  /\ heard' = [heard EXCEPT ![k][o] = Append(@, v)]

\* The type invariant in one set.
LEMMA Typed == TypeOK <=>
  /\ scraper \in Scrapers
  /\ task \in [Tasks -> Scrapes]
  /\ robots \in [Scrapers -> [Origins -> Verdicts \cup {"unknown"}]]
  /\ heard \in [Scrapers -> [Origins -> Seq(Verdicts)]]
  /\ since \in [Scrapers -> 0..Delay]
  /\ age \in [Scrapers -> [Tasks -> 0..Delay]]
  BY DEF TypeOK, Scrapes

\* What was heard stays among what was ever heard.
LEMMA EverGrows ==
  ASSUME NEW h, NEW g, NEW k, NEW o, NEW v \in Verdicts,
         h[k][o] \in Seq(Verdicts), g[k][o] = Append(h[k][o], v)
  PROVE  Ever(h, k, o) \subseteq Ever(g, k, o) /\ v \in Ever(g, k, o)
  <1> DEFINE a == h[k][o]
             b == g[k][o]
  <1>1. /\ DOMAIN a = 1..Len(a) /\ Len(a) \in Nat /\ DOMAIN b = 1..(Len(a) + 1)
        /\ \A n \in 1..Len(a) : b[n] = a[n]
        /\ b[Len(a) + 1] = v
    OBVIOUS
  <1>2. 1..Len(a) \subseteq 1..(Len(a) + 1) /\ Len(a) + 1 \in 1..(Len(a) + 1)
    BY <1>1
  <1> QED BY <1>1, <1>2 DEF Ever

\* Hearing keeps the types and never takes a verdict back.
LEMMA HearingKeeps ==
  ASSUME IInv, NEW k \in Scrapers, NEW o \in Origins, NEW v \in Verdicts,
         NothingHeard \/ Hears(k, o, v)
  PROVE  /\ robots' \in [Scrapers -> [Origins -> Verdicts \cup {"unknown"}]]
         /\ heard' \in [Scrapers -> [Origins -> Seq(Verdicts)]]
         /\ \A j \in Scrapers : \A p \in Origins : Ever(heard, j, p) \subseteq Ever(heard', j, p)
         /\ HeardFirst'
  <1>1. /\ robots \in [Scrapers -> [Origins -> Verdicts \cup {"unknown"}]]
        /\ heard \in [Scrapers -> [Origins -> Seq(Verdicts)]]
    BY Typed DEF IInv
  <1>2. CASE NothingHeard
    BY <1>1, <1>2 DEF NothingHeard, IInv, HeardFirst
  <1>3. CASE Hears(k, o, v)
    <2>1. robots' \in [Scrapers -> [Origins -> Verdicts \cup {"unknown"}]]
      BY <1>1, <1>3 DEF Hears
    <2>2. heard' \in [Scrapers -> [Origins -> Seq(Verdicts)]]
      BY <1>1, <1>3 DEF Hears
    <2>3. \A j \in Scrapers : \A p \in Origins :
            IF j = k /\ p = o
            THEN robots'[j][p] = v /\ heard'[j][p] = Append(heard[j][p], v)
            ELSE robots'[j][p] = robots[j][p] /\ heard'[j][p] = heard[j][p]
      BY <1>1, <1>3 DEF Hears
    <2>4. \A j \in Scrapers : \A p \in Origins : Ever(heard, j, p) \subseteq Ever(heard', j, p)
      <3> SUFFICES ASSUME NEW j \in Scrapers, NEW p \in Origins
                   PROVE  Ever(heard, j, p) \subseteq Ever(heard', j, p)
        OBVIOUS
      <3>1. CASE j = k /\ p = o
        <4>1. heard[j][p] \in Seq(Verdicts) /\ heard'[j][p] = Append(heard[j][p], v)
          BY <1>1, <2>3, <3>1
        <4> QED BY <4>1, EverGrows
      <3>2. CASE ~(j = k /\ p = o)
        BY <2>3, <3>2 DEF Ever
      <3> QED BY <3>1, <3>2
    <2>5. HeardFirst'
      <3> SUFFICES ASSUME NEW j \in Scrapers, NEW p \in Origins, robots'[j][p] = "allow"
                   PROVE  "allow" \in Ever(heard', j, p)
        BY DEF HeardFirst
      <3>1. CASE j = k /\ p = o
        <4>1. heard[j][p] \in Seq(Verdicts) /\ heard'[j][p] = Append(heard[j][p], v)
          BY <1>1, <2>3, <3>1
        <4>2. v = "allow"
          BY <2>3, <3>1
        <4> QED BY <4>1, <4>2, EverGrows
      <3>2. CASE ~(j = k /\ p = o)
        BY <2>3, <3>2 DEF HeardFirst, IInv, Ever
      <3> QED BY <3>1, <3>2
    <2> QED BY <2>1, <2>2, <2>4, <2>5
  <1> QED BY <1>2, <1>3

\* Every step of one scrape keeps the invariant.
LEMMA GoingOnKeeps ==
  ASSUME IInv, NEW t \in Tasks, NEW s, GoesOn(t, s), scraper' = scraper,
         robots' \in [Scrapers -> [Origins -> Verdicts \cup {"unknown"}]],
         heard' \in [Scrapers -> [Origins -> Seq(Verdicts)]],
         \A j \in Scrapers : \A p \in Origins : Ever(heard, j, p) \subseteq Ever(heard', j, p),
         HeardFirst'
  PROVE  IInv'
  <1> USE WebScraperAssumption
  <1>1. /\ task \in [Tasks -> Scrapes]
        /\ since \in [Scrapers -> 0..Delay] /\ age \in [Scrapers -> [Tasks -> 0..Delay]]
        /\ scraper \in Scrapers
    BY Typed DEF IInv
  <1>2. /\ s \in Scrapes /\ task' \in [Tasks -> Scrapes] /\ task'[t] = s
        /\ \A u \in Tasks \ {t} : task'[u] = task[u]
    BY <1>1 DEF GoesOn
  <1>3. /\ since' \in [Scrapers -> 0..Delay] /\ age' \in [Scrapers -> [Tasks -> 0..Delay]]
        /\ SinceLatest'
        /\ \A k \in Scrapers : \A u \in Tasks \ {t} : age'[k][u] = age[k][u]
    <2>1. CASE NoneLeaves
      BY <1>1, <2>1 DEF NoneLeaves, IInv, SinceLatest
    <2>2. CASE Leaves(t) /\ task[t].at # "idle"
      <3>1. task[t].by \in Scrapers /\ 0 \in 0..Delay
        BY <1>1, <2>2, Standing
      <3>2. since' \in [Scrapers -> 0..Delay] /\ age' \in [Scrapers -> [Tasks -> 0..Delay]]
        BY <1>1, <2>2, <3>1 DEF Leaves
      <3>3. \A k \in Scrapers :
              /\ k # task[t].by => since'[k] = since[k] /\ age'[k] = age[k]
              /\ k = task[t].by => since'[k] = 0
              /\ \A u \in Tasks \ {t} : age'[k][u] = age[k][u]
        BY <1>1, <2>2, <3>1 DEF Leaves
      <3>4. SinceLatest'
        <4> SUFFICES ASSUME NEW k \in Scrapers, NEW u \in Tasks
                     PROVE  since'[k] <= age'[k][u]
          BY DEF SinceLatest
        <4>1. CASE k = task[t].by
          BY <3>2, <3>3, <4>1
        <4>2. CASE k # task[t].by
          BY <3>3, <4>2 DEF IInv, SinceLatest
        <4> QED BY <4>1, <4>2
      <3> QED BY <3>2, <3>3, <3>4
    <2> QED BY <2>1, <2>2 DEF GoesOn
  <1>4. TypeOK'
    BY <1>1, <1>2, <1>3, Typed DEF TypeOK, Scrapes
  <1>5. SleepsEnough'
    <2> SUFFICES ASSUME NEW u \in Tasks, task'[u].at = "sleep"
                 PROVE  age'[task'[u].by][u] + task'[u].sleep >= Delay
      BY DEF SleepsEnough
    <2>1. task'[u] \in Sleeping /\ task'[u].by \in Scrapers
      BY <1>2, Standing
    <2>2. CASE u = t
      <3>1. s \in Sleeping /\ s \notin Looking
        BY <1>2, <2>1, <2>2 DEF Sleeping, Looking
      <3> QED BY <1>2, <2>2, <3>1 DEF GoesOn, NoneLeaves
    <2>3. CASE u # t
      <3>1. task'[u] = task[u]
        BY <1>2, <2>3
      <3>2. age[task[u].by][u] + task[u].sleep >= Delay
        BY <3>1 DEF IInv, SleepsEnough
      <3>3. age'[task[u].by][u] = age[task[u].by][u]
        BY <1>3, <2>1, <2>3, <3>1
      <3> QED BY <3>1, <3>2, <3>3
    <2> QED BY <2>2, <2>3
  <1>6. RobotsAsked'
    <2> SUFFICES ASSUME NEW u \in Tasks, GoesForPage(u)', Respects[task'[u].by]
                 PROVE  "allow" \in Ever(heard', task'[u].by, task'[u].page)
      BY DEF RobotsAsked
    <2>1. CASE u = t
      <3>1. PageBound(s)
        BY <1>2, <2>1, Standing DEF GoesForPage, Fetching, PageBound
      <3> QED BY <1>2, <2>1, <3>1 DEF GoesOn
    <2>2. CASE u # t
      <3>1. task'[u] = task[u] /\ GoesForPage(u)
        BY <1>2, <2>2 DEF GoesForPage, Fetching
      <3>2. task[u].by \in Scrapers /\ task[u].page \in Origins
        BY <1>1, <3>1, Standing DEF GoesForPage, Fetching
      <3>3. "allow" \in Ever(heard, task[u].by, task[u].page)
        BY <3>1 DEF IInv, RobotsAsked
      <3> QED BY <3>1, <3>2, <3>3
    <2> QED BY <2>1, <2>2
  <1> QED BY <1>3, <1>4, <1>5, <1>6 DEF IInv

-----------------------------------------------------------------------------
(* The parts the actions are made of                                       *)

\* The record a scrape gets at the beginning of a fetch.
Begun(t, what) ==
  [at |-> "lookup", by |-> task[t].by, page |-> task[t].page,
   get |-> what, hop |-> task[t].page, redirects |-> 0]

\* It stands for a scrape on its way.
LEMMA BegunTyped ==
  ASSUME NEW t \in Tasks, task[t].by \in Scrapers, task[t].page \in Origins,
         NEW what \in {"robots", "page"}
  PROVE  /\ Begun(t, what) \in Looking /\ Begun(t, what) \in Scrapes
         /\ Begun(t, what).get = what
         /\ Begun(t, what).by = task[t].by /\ Begun(t, what).page = task[t].page
         /\ Begun(t, what) \notin Sleeping /\ Begun(t, what) \notin Waiting
         /\ Begun(t, what) # Idle
  <1>1. 0 \in 0..MaxRedirects
    BY WebScraperAssumption
  <1> QED BY <1>1 DEF Begun, Looking, Scrapes, Sleeping, Waiting, Idle

\* A scrape that may leave _rate_limit, because its last leave is Delay ago,
\* or has to sleep until then.
LEMMA RateLimitGoesOn ==
  ASSUME IInv, NEW t \in Tasks, task[t].at # "idle",
         Respects[task[t].by] => "allow" \in Ever(heard', task[t].by, task[t].page),
         RateLimit(t)
  PROVE  /\ \E s : GoesOn(t, s) /\ ~Asks(s)
         /\ Fetching(t)' => age[task[t].by][t] >= Delay
  <1> USE WebScraperAssumption
  <1>1. /\ task \in [Tasks -> Scrapes] /\ task[t].by \in Scrapers /\ task[t].page \in Origins
        /\ since \in [Scrapers -> 0..Delay] /\ age \in [Scrapers -> [Tasks -> 0..Delay]]
    BY Typed, Standing DEF IInv
  <1>2. since[task[t].by] <= age[task[t].by][t]
    BY <1>1 DEF IInv, SinceLatest
  <1>3. CASE since[task[t].by] >= Delay /\ Leave(t)
    <2>1. task' = [task EXCEPT ![t] = Begun(t, "page")] /\ Leaves(t)
      BY <1>3 DEF Leave, Fetches, Becomes, Begun, Leaves
    <2>2. GoesOn(t, Begun(t, "page")) /\ ~Asks(Begun(t, "page"))
      BY <1>1, <2>1, BegunTyped DEF GoesOn, Asks
    <2> QED BY <1>1, <1>2, <1>3, <2>2
  <1>4. CASE /\ since[task[t].by] < Delay /\ UNCHANGED <<since, age>>
             /\ Becomes(t, [at |-> "sleep", by |-> task[t].by, page |-> task[t].page,
                            sleep |-> Delay - since[task[t].by]])
    <2> DEFINE s == [at |-> "sleep", by |-> task[t].by, page |-> task[t].page,
                     sleep |-> Delay - since[task[t].by]]
    <2>1. Delay - since[task[t].by] \in 0..Delay
      BY <1>1, <1>4
    <2>2. s \in Sleeping /\ s \in Scrapes /\ s \notin Waiting /\ s.at = "sleep"
      BY <1>1, <2>1 DEF Sleeping, Scrapes, Waiting
    <2>3. age[task[t].by][t] + s.sleep >= Delay
      BY <1>1, <1>2
    <2>4. task' = [task EXCEPT ![t] = s]
      BY <1>4 DEF Becomes
    <2>5. GoesOn(t, s) /\ ~Asks(s)
      BY <1>4, <2>2, <2>3, <2>4 DEF GoesOn, NoneLeaves, Asks
    <2>6. ~Fetching(t)'
      BY <1>1, <2>2, <2>4 DEF Fetching
    <2> QED BY <2>5, <2>6
  <1> QED BY <1>3, <1>4 DEF RateLimit

\* A scrape that ends changes nothing else.
LEMMA EndsGoesOn ==
  ASSUME IInv, NEW t \in Tasks, Ends(t), UNCHANGED <<since, age>>
  PROVE  GoesOn(t, Idle) /\ ~Asks(Idle) /\ ~Fetching(t)'
  <1>1. Idle \in Scrapes /\ Idle \notin Sleeping /\ Idle \notin Looking /\ Idle \notin Waiting
        /\ Idle.at = "idle"
    BY DEF Idle, Scrapes, Sleeping, Looking, Waiting
  <1>2. task \in [Tasks -> Scrapes] /\ task' = [task EXCEPT ![t] = Idle]
    BY Typed DEF IInv, Ends, Becomes
  <1> QED BY <1>1, <1>2 DEF GoesOn, NoneLeaves, PageBound, Fetching, Asks

\* A verdict on the page that has been heard.
LEMMA JudgeGoesOn ==
  ASSUME IInv, NEW t \in Tasks, task[t].at # "idle", NEW v \in Verdicts,
         v = "allow" => "allow" \in Ever(heard', task[t].by, task[t].page),
         Judge(t, v)
  PROVE  /\ \E s : GoesOn(t, s) /\ ~Asks(s)
         /\ Fetching(t)' => age[task[t].by][t] >= Delay
  <1>1. CASE Ends(t) /\ UNCHANGED <<since, age>>
    BY <1>1, EndsGoesOn
  <1>2. CASE v = "allow" /\ RateLimit(t)
    BY <1>2, RateLimitGoesOn
  <1> QED BY <1>1, <1>2 DEF Judge

\* In a step the entry of an origin stays, and while it is there nobody begins
\* to ask; or one of those who asked hears a verdict, and asks no more.
Quiet(k, o) ==
  /\ robots'[k][o] = robots[k][o] /\ heard'[k][o] = heard[k][o]
  /\ robots[k][o] = "unknown" \/ Askers(k, o)' \subseteq Askers(k, o)
Loud(k, o) ==
  /\ robots'[k][o] \in Verdicts
  /\ heard'[k][o] = Append(heard[k][o], robots'[k][o])
  /\ \E t \in Askers(k, o) : Askers(k, o)' \subseteq Askers(k, o) \ {t}

CacheMoves == \A k \in Scrapers : \A o \in Origins : Quiet(k, o) \/ Loud(k, o)

\* What an action of one scrape has to show.
Keeps(t) ==
  /\ IInv'
  /\ ~Fetching(t) /\ Fetching(t)' => age[task[t].by][t] >= Delay
  /\ \A u \in Tasks \ {t} : task'[u] = task[u]
  /\ CacheMoves

\* A scrape goes on and hears the answer it has asked for.
LEMMA HeardKeeps ==
  ASSUME IInv, NEW t \in Tasks, scraper' = scraper, Asks(task[t]),
         NEW v \in Verdicts, Hears(task[t].by, task[t].page, v),
         NEW s, GoesOn(t, s), ~Asks(s),
         ~Fetching(t) /\ Fetching(t)' => age[task[t].by][t] >= Delay
  PROVE  Keeps(t)
  <1>1. /\ task \in [Tasks -> Scrapes] /\ task[t].by \in Scrapers /\ task[t].page \in Origins
        /\ robots \in [Scrapers -> [Origins -> Verdicts \cup {"unknown"}]]
        /\ heard \in [Scrapers -> [Origins -> Seq(Verdicts)]]
    BY Typed, Standing DEF IInv, Asks
  <1>2. IInv'
    BY <1>1, HearingKeeps, GoingOnKeeps
  <1>3. (\A u \in Tasks \ {t} : task'[u] = task[u]) /\ task'[t] = s
    BY <1>1 DEF GoesOn
  <1>4. ASSUME NEW k \in Scrapers, NEW o \in Origins
        PROVE  Quiet(k, o) \/ Loud(k, o)
    <2>1. CASE k = task[t].by /\ o = task[t].page
      <3>1. robots'[k][o] = v /\ heard'[k][o] = Append(heard[k][o], v)
        BY <1>1, <2>1 DEF Hears
      <3>2. t \in Askers(k, o) /\ Askers(k, o)' \subseteq Askers(k, o) \ {t}
        BY <1>3, <2>1 DEF Askers
      <3> QED BY <3>1, <3>2 DEF Loud
    <2>2. CASE ~(k = task[t].by /\ o = task[t].page)
      <3>1. robots'[k][o] = robots[k][o] /\ heard'[k][o] = heard[k][o]
        BY <1>1, <2>2 DEF Hears
      <3>2. Askers(k, o)' \subseteq Askers(k, o)
        BY <1>3 DEF Askers
      <3> QED BY <3>1, <3>2 DEF Quiet
    <2> QED BY <2>1, <2>2
  <1> QED BY <1>2, <1>3, <1>4 DEF Keeps, CacheMoves

\* A scrape goes on and hears nothing.
LEMMA SilentKeeps ==
  ASSUME IInv, NEW t \in Tasks, scraper' = scraper, NothingHeard,
         \E s : GoesOn(t, s),
         ~Fetching(t) /\ Fetching(t)' => age[task[t].by][t] >= Delay
  PROVE  Keeps(t)
  <1>1. PICK s : GoesOn(t, s)
    OBVIOUS
  <1>2. IInv'
    <2>1. /\ robots' \in [Scrapers -> [Origins -> Verdicts \cup {"unknown"}]]
          /\ heard' \in [Scrapers -> [Origins -> Seq(Verdicts)]]
          /\ \A j \in Scrapers : \A p \in Origins : Ever(heard, j, p) \subseteq Ever(heard', j, p)
      BY Typed DEF IInv, NothingHeard
    <2>2. HeardFirst'
      BY DEF NothingHeard, IInv, HeardFirst, Ever
    <2> QED BY <1>1, <2>1, <2>2, GoingOnKeeps
  <1>3. /\ task \in [Tasks -> Scrapes] /\ task'[t] = s
        /\ \A u \in Tasks \ {t} : task'[u] = task[u]
    BY <1>1, Typed DEF GoesOn, IInv
  <1>4. ASSUME NEW k \in Scrapers, NEW o \in Origins
        PROVE  Quiet(k, o)
    <2>1. Asks(s) => /\ Asks(task[t]) \/ robots[s.by][s.page] = "unknown"
                     /\ Asks(task[t]) => s.by = task[t].by /\ s.page = task[t].page
      BY <1>1 DEF GoesOn, Asks, Idle
    <2>2. robots[k][o] = "unknown" \/ Askers(k, o)' \subseteq Askers(k, o)
      BY <1>3, <2>1 DEF Askers
    <2> QED BY <2>2 DEF Quiet, NothingHeard
  <1> QED BY <1>2, <1>3, <1>4 DEF Keeps, CacheMoves

\* The end of a fetch.
LEMMA FetchedKeeps ==
  ASSUME IInv, NEW t \in Tasks, task[t] \in Looking \cup Waiting, scraper' = scraper,
         NEW verdicts \in SUBSET Verdicts, Fetched(t, verdicts)
  PROVE  Keeps(t)
  <1>1. /\ task[t].by \in Scrapers /\ task[t].page \in Origins /\ task[t].at # "idle"
        /\ heard \in [Scrapers -> [Origins -> Seq(Verdicts)]]
    BY Typed DEF IInv, Looking, Waiting
  <1>2. CASE Ends(t) /\ UNCHANGED <<robots, heard, since, age>>
    BY <1>2, EndsGoesOn, SilentKeeps DEF NothingHeard
  <1>3. ASSUME NEW v \in verdicts, task[t].get = "robots",
               Hears(task[t].by, task[t].page, v), Judge(t, v)
        PROVE  Keeps(t)
    <2>1. v \in Ever(heard', task[t].by, task[t].page) /\ v \in Verdicts
      <3>1. heard'[task[t].by][task[t].page] = Append(heard[task[t].by][task[t].page], v)
        BY <1>1, <1>3 DEF Hears
      <3>2. v \in Verdicts /\ heard[task[t].by][task[t].page] \in Seq(Verdicts)
        BY <1>1
      <3> QED BY <3>1, <3>2, EverGrows
    <2>2. /\ \E s : GoesOn(t, s) /\ ~Asks(s)
          /\ Fetching(t)' => age[task[t].by][t] >= Delay
      BY <1>1, <1>3, <2>1, JudgeGoesOn
    <2>3. Asks(task[t])
      BY <1>3 DEF Asks, Looking, Waiting
    <2> QED BY <1>1, <1>3, <2>1, <2>2, <2>3, HeardKeeps
  <1> QED BY <1>2, <1>3 DEF Fetched, Hears

-----------------------------------------------------------------------------
(* The actions                                                             *)

\* The first state: nobody is under way and nothing was heard.
LEMMA InitIInv == Init => IInv
  <1> SUFFICES ASSUME Init PROVE IInv
    OBVIOUS
  <1> USE WebScraperAssumption DEF Init
  <1>1. 1 \in Scrapers /\ 0 \in 0..Delay /\ Delay \in 0..Delay
    BY DEF Scrapers
  <1>2. Idle \in Scrapes /\ Idle.at = "idle"
    BY DEF Scrapes, Idle
  <1>3. TypeOK
    BY <1>1, <1>2, Typed DEF Verdicts
  <1>4. SinceLatest /\ HeardFirst
    BY <1>1 DEF SinceLatest, HeardFirst
  <1>5. SleepsEnough /\ RobotsAsked
    BY <1>2 DEF SleepsEnough, RobotsAsked, GoesForPage, Fetching
  <1> QED BY <1>3, <1>4, <1>5 DEF IInv

\* A new scrape takes the scraper in place.
LEMMA StartKeeps ==
  ASSUME IInv, NEW t \in Tasks, Start(t)
  PROVE  Keeps(t)
  <1>1. PICK o \in Origins : Becomes(t, [at |-> "validate", by |-> scraper, page |-> o])
    BY DEF Start
  <1> DEFINE s == [at |-> "validate", by |-> scraper, page |-> o]
  <1>2. scraper \in Scrapers /\ task \in [Tasks -> Scrapes]
    BY Typed DEF IInv
  <1>3. s \in Validating /\ s \in Scrapes /\ s \notin Sleeping /\ s \notin Looking
        /\ s \notin Waiting /\ s.at = "validate"
    BY <1>2 DEF Validating, Scrapes, Sleeping, Looking, Waiting
  <1>4. GoesOn(t, s)
    BY <1>1, <1>3 DEF Start, GoesOn, NoneLeaves, PageBound, Becomes, Asks
  <1>5. ~Fetching(t)'
    BY <1>1, <1>2, <1>3 DEF Becomes, Fetching
  <1> QED BY <1>4, <1>5, SilentKeeps DEF Start, NothingHeard

\* An allowed URL: robots.txt is known, or fetched, or not asked.
LEMMA CheckedKeeps ==
  ASSUME IInv, NEW t \in Tasks, Checked(t)
  PROVE  Keeps(t)
  <1>1. /\ task \in [Tasks -> Scrapes] /\ task[t].at = "validate"
        /\ task[t].by \in Scrapers /\ task[t].page \in Origins
    BY Typed, Standing DEF IInv, Checked
  <1>2. NothingHeard /\ scraper' = scraper
    BY DEF Checked, NothingHeard
  <1>3. CASE Ends(t) /\ UNCHANGED <<since, age>>
    BY <1>2, <1>3, EndsGoesOn, SilentKeeps
  <1>4. CASE /\ robots[task[t].by][task[t].page] = "unknown"
             /\ Fetches(t, "robots") /\ UNCHANGED <<since, age>>
    <2>1. task' = [task EXCEPT ![t] = Begun(t, "robots")]
      BY <1>4 DEF Fetches, Becomes, Begun
    <2>2. GoesOn(t, Begun(t, "robots"))
      BY <1>1, <1>4, <2>1, BegunTyped DEF GoesOn, NoneLeaves, PageBound
    <2>3. ~Fetching(t)'
      BY <1>1, <2>1, BegunTyped DEF Fetching
    <2> QED BY <1>2, <2>2, <2>3, SilentKeeps
  <1>5. CASE /\ Respects[task[t].by] /\ Judge(t, robots[task[t].by][task[t].page])
    <2>1. CASE robots[task[t].by][task[t].page] \in Verdicts
      <3>1. robots[task[t].by][task[t].page] = "allow" =>
              "allow" \in Ever(heard', task[t].by, task[t].page)
        BY <1>1, <1>2 DEF IInv, HeardFirst, NothingHeard
      <3> QED BY <1>1, <1>2, <1>5, <2>1, <3>1, JudgeGoesOn, SilentKeeps
    <2>2. CASE robots[task[t].by][task[t].page] \notin Verdicts
      BY <1>5, <2>2 DEF Judge, Verdicts
    <2> QED BY <2>1, <2>2
  <1>6. CASE ~Respects[task[t].by] /\ RateLimit(t)
    BY <1>1, <1>2, <1>6, RateLimitGoesOn, SilentKeeps
  <1> QED BY <1>3, <1>4, <1>5, <1>6 DEF Checked

\* A hop is looked up.
LEMMA LookupKeeps ==
  ASSUME IInv, NEW t \in Tasks, Lookup(t)
  PROVE  Keeps(t)
  <1>1. /\ task \in [Tasks -> Scrapes] /\ task[t].at = "lookup" /\ task[t] \in Looking
        /\ scraper' = scraper
    BY Typed, Standing DEF IInv, Lookup
  <1>2. CASE Failed(t)
    BY <1>1, <1>2, FetchedKeeps DEF Failed, Verdicts
  <1>3. CASE /\ Becomes(t, [task[t] EXCEPT !.at = "sent"])
             /\ UNCHANGED <<robots, heard, since, age>>
    <2> DEFINE s == [task[t] EXCEPT !.at = "sent"]
    <2>1. s \in Waiting /\ s \in Scrapes
      BY <1>1 DEF Looking, Waiting, Scrapes
    <2>2. s \notin Sleeping /\ s \notin Looking
      BY <2>1 DEF Sleeping, Looking, Waiting
    <2>3. task' = [task EXCEPT ![t] = s]
      BY <1>3 DEF Becomes
    <2>4. PageBound(s) /\ Respects[s.by] => "allow" \in Ever(heard', s.by, s.page)
      <3>1. PageBound(s) => GoesForPage(t)
        BY <1>1, <2>2 DEF PageBound, GoesForPage, Fetching
      <3> QED BY <1>1, <1>3, <3>1 DEF IInv, RobotsAsked, Looking, Ever
    <2>5. NoneLeaves /\ NothingHeard
      BY <1>3 DEF NoneLeaves, NothingHeard
    <2>6. s.by = task[t].by /\ s.page = task[t].page /\ s.get = task[t].get
      BY <1>1 DEF Looking
    <2>7. GoesOn(t, s)
      BY <1>1, <2>1, <2>2, <2>3, <2>4, <2>5, <2>6 DEF GoesOn, Asks
    <2>8. Fetching(t)' => Fetching(t)
      BY <1>1, <2>3, <2>6 DEF Fetching
    <2> QED BY <1>1, <2>5, <2>7, <2>8, SilentKeeps
  <1> QED BY <1>2, <1>3 DEF Lookup

\* An answer, a redirect among them.
LEMMA AnsweredKeeps ==
  ASSUME IInv, NEW t \in Tasks, Answered(t)
  PROVE  Keeps(t)
  <1>1. /\ task \in [Tasks -> Scrapes] /\ task[t].at = "sent" /\ task[t] \in Waiting
        /\ scraper' = scraper
    BY Typed, Standing DEF IInv, Answered
  <1>2. CASE Fetched(t, Verdicts)
    BY <1>1, <1>2, FetchedKeeps
  <1>3. CASE Failed(t)
    BY <1>1, <1>3, FetchedKeeps DEF Failed, Verdicts
  <1>4. ASSUME NEW o \in Origins, Redirect(t, o)
        PROVE  Keeps(t)
    <2> DEFINE s == [task[t] EXCEPT !.at = "lookup", !.hop = o, !.redirects = @ + 1]
    <2>1. CASE Failed(t)
      BY <1>3, <2>1
    <2>2. CASE /\ task[t].redirects < MaxRedirects
               /\ Becomes(t, s) /\ UNCHANGED <<robots, heard, since, age>>
      <3>1. task[t].redirects + 1 \in 0..MaxRedirects
        BY <1>1, <2>2, WebScraperAssumption DEF Waiting
      <3>2. s \in Looking /\ s \in Scrapes
        BY <1>1, <3>1 DEF Looking, Waiting, Scrapes
      <3>3. s \notin Sleeping /\ s \notin Waiting
        BY <3>2 DEF Sleeping, Waiting, Looking
      <3>4. task' = [task EXCEPT ![t] = s]
        BY <2>2 DEF Becomes
      <3>5. PageBound(s) /\ Respects[s.by] => "allow" \in Ever(heard', s.by, s.page)
        <4>1. PageBound(s) => GoesForPage(t)
          BY <1>1, <3>3 DEF PageBound, GoesForPage, Fetching
        <4> QED BY <1>1, <2>2, <4>1 DEF IInv, RobotsAsked, Waiting, Ever
      <3>6. NoneLeaves /\ NothingHeard
        BY <2>2 DEF NoneLeaves, NothingHeard
      <3>7. s.by = task[t].by /\ s.page = task[t].page /\ s.get = task[t].get
        BY <1>1 DEF Waiting
      <3>8. GoesOn(t, s)
        BY <1>1, <3>2, <3>3, <3>4, <3>5, <3>6, <3>7 DEF GoesOn, Asks
      <3>9. Fetching(t)' => Fetching(t)
        BY <1>1, <3>4, <3>7 DEF Fetching
      <3> QED BY <1>1, <3>6, <3>8, <3>9, SilentKeeps
    <2> QED BY <1>4, <2>1, <2>2 DEF Redirect
  <1> QED BY <1>2, <1>3, <1>4 DEF Answered

\* The end of a sleep: by now the last leave of the task is Delay ago.
LEMMA AwakeKeeps ==
  ASSUME IInv, NEW t \in Tasks, Awake(t)
  PROVE  Keeps(t)
  <1>1. /\ task \in [Tasks -> Scrapes] /\ task[t].at = "sleep" /\ task[t].sleep = 0
        /\ task[t].by \in Scrapers /\ task[t].page \in Origins
        /\ age \in [Scrapers -> [Tasks -> 0..Delay]]
    BY Typed, Standing DEF IInv, Awake
  <1>2. NothingHeard /\ scraper' = scraper
    BY DEF Awake, NothingHeard
  <1>3. task' = [task EXCEPT ![t] = Begun(t, "page")] /\ Leaves(t)
    BY DEF Awake, Leave, Fetches, Becomes, Begun, Leaves
  <1>4. Respects[task[t].by] => "allow" \in Ever(heard', task[t].by, task[t].page)
    BY <1>1, <1>2 DEF IInv, RobotsAsked, GoesForPage, NothingHeard, Ever
  <1>5. GoesOn(t, Begun(t, "page"))
    BY <1>1, <1>3, <1>4, BegunTyped DEF GoesOn, Asks
  <1>6. age[task[t].by][t] >= Delay
    <2>1. age[task[t].by][t] + task[t].sleep >= Delay /\ age[task[t].by][t] \in Int
      BY <1>1 DEF IInv, SleepsEnough
    <2> QED BY <1>1, <2>1
  <1> QED BY <1>2, <1>5, <1>6, SilentKeeps

\* A cancelled scrape is forgotten.
LEMMA CancelKeeps ==
  ASSUME IInv, NEW t \in Tasks, Cancel(t)
  PROVE  Keeps(t)
  BY EndsGoesOn, SilentKeeps DEF Cancel, NothingHeard

\* No scrape is touched by configure().
LEMMA ConfigureKeeps ==
  ASSUME IInv, Configure
  PROVE  IInv' /\ task' = task /\ CacheMoves
  <1>1. scraper' \in Scrapers
    BY Typed, WebScraperAssumption DEF IInv, Configure, Scrapers
  <1>2. task' = task /\ robots' = robots /\ heard' = heard /\ since' = since /\ age' = age
    BY DEF Configure
  <1>3. TypeOK'
    BY <1>1, <1>2 DEF IInv, TypeOK
  <1>4. CacheMoves
    BY <1>2 DEF CacheMoves, Quiet, Askers
  <1> QED BY <1>2, <1>3, <1>4 DEF IInv, SinceLatest, SleepsEnough, HeardFirst, RobotsAsked,
                                  Ever, GoesForPage, Fetching

\* With time the ages grow by one, up to Delay, and sleeps lose one.
LEMMA TickKeeps ==
  ASSUME IInv, Tick
  PROVE  IInv' /\ CacheMoves /\ \A t \in Tasks : Fetching(t)' => Fetching(t)
  <1> USE WebScraperAssumption
  <1>1. /\ scraper \in Scrapers /\ task \in [Tasks -> Scrapes]
        /\ robots \in [Scrapers -> [Origins -> Verdicts \cup {"unknown"}]]
        /\ heard \in [Scrapers -> [Origins -> Seq(Verdicts)]]
        /\ since \in [Scrapers -> 0..Delay] /\ age \in [Scrapers -> [Tasks -> 0..Delay]]
    BY Typed DEF IInv
  <1>2. scraper' = scraper /\ robots' = robots /\ heard' = heard
    BY DEF Tick
  <1>3. \A n \in 0..Delay : Later(n) \in 0..Delay
    BY DEF Later
  <1>4. /\ since' \in [Scrapers -> 0..Delay] /\ age' \in [Scrapers -> [Tasks -> 0..Delay]]
        /\ \A k \in Scrapers : since'[k] = Later(since[k])
        /\ \A k \in Scrapers : \A t \in Tasks : age'[k][t] = Later(age[k][t])
    BY <1>1, <1>3 DEF Tick
  <1>5. ASSUME NEW t \in Tasks
        PROVE  /\ task'[t] \in Scrapes
               /\ \/ task[t].at # "sleep" /\ task'[t] = task[t]
                  \/ /\ task[t] \in Sleeping /\ task'[t] \in Sleeping
                     /\ task'[t].by = task[t].by /\ task'[t].page = task[t].page
                     /\ \/ task[t].sleep = 0 /\ task'[t].sleep = 0
                        \/ task'[t].sleep = task[t].sleep - 1
    <2>1. CASE task[t].at = "sleep" /\ task[t].sleep > 0
      <3>1. task[t] \in Sleeping /\ task'[t] = [task[t] EXCEPT !.sleep = @ - 1]
        BY <1>1, <2>1, Standing DEF Tick
      <3>2. task'[t] = [at |-> "sleep", by |-> task[t].by, page |-> task[t].page,
                        sleep |-> task[t].sleep - 1]
        BY <2>1, <3>1 DEF Sleeping
      <3>3. task[t].sleep - 1 \in 0..Delay /\ task[t].by \in Scrapers /\ task[t].page \in Origins
        BY <2>1, <3>1 DEF Sleeping
      <3>4. task'[t] \in Sleeping
        BY <3>2, <3>3 DEF Sleeping
      <3> QED BY <3>1, <3>2, <3>4 DEF Scrapes
    <2>2. CASE task[t].at = "sleep" /\ ~(task[t].sleep > 0)
      <3>1. task[t] \in Sleeping /\ task'[t] = task[t]
        BY <1>1, <2>2, Standing DEF Tick
      <3>2. task[t].sleep = 0
        BY <2>2, <3>1 DEF Sleeping
      <3> QED BY <3>1, <3>2 DEF Scrapes
    <2>3. CASE task[t].at # "sleep"
      BY <1>1, <2>3 DEF Tick
    <2> QED BY <2>1, <2>2, <2>3
  <1>6. TypeOK'
    <2>1. task' = [t \in Tasks |-> task'[t]]
      BY DEF Tick
    <2>2. task' \in [Tasks -> Scrapes]
      BY <1>5, <2>1
    <2> QED BY <1>1, <1>2, <1>4, <2>2 DEF TypeOK, Scrapes
  <1>7. SinceLatest'
    <2> SUFFICES ASSUME NEW k \in Scrapers, NEW t \in Tasks
                 PROVE  since'[k] <= age'[k][t]
      BY DEF SinceLatest
    <2>1. since[k] <= age[k][t] /\ since[k] \in 0..Delay /\ age[k][t] \in 0..Delay
      BY <1>1 DEF IInv, SinceLatest
    <2> QED BY <1>4, <2>1 DEF Later
  <1>8. SleepsEnough'
    <2> SUFFICES ASSUME NEW t \in Tasks, task'[t].at = "sleep"
                 PROVE  age'[task'[t].by][t] + task'[t].sleep >= Delay
      BY DEF SleepsEnough
    <2>1. /\ task[t] \in Sleeping /\ task'[t].by = task[t].by
          /\ \/ task[t].sleep = 0 /\ task'[t].sleep = 0
             \/ task'[t].sleep = task[t].sleep - 1
      <3>1. ~(task[t].at # "sleep" /\ task'[t] = task[t])
        OBVIOUS
      <3> QED BY <1>5, <3>1
    <2>2. task[t].at = "sleep" /\ task[t].by \in Scrapers /\ task[t].sleep \in 0..Delay
      BY <2>1 DEF Sleeping
    <2>3. age[task[t].by][t] + task[t].sleep >= Delay /\ age[task[t].by][t] \in 0..Delay
      BY <1>1, <2>2 DEF IInv, SleepsEnough
    <2>4. age'[task[t].by][t] = Later(age[task[t].by][t])
      BY <1>4, <2>2
    <2> DEFINE n == age[task[t].by][t]
    <2>5. CASE task[t].sleep = 0 /\ task'[t].sleep = 0
      <3>1. Later(n) >= Delay
        BY <2>3, <2>5 DEF Later
      <3> QED BY <2>1, <2>4, <2>5, <3>1, <1>3, <2>3
    <2>6. CASE task'[t].sleep = task[t].sleep - 1
      <3>1. Later(n) + (task[t].sleep - 1) >= Delay \/ task[t].sleep = 0
        BY <2>2, <2>3 DEF Later
      <3>2. task'[t].sleep \in 0..Delay
        BY <1>5, <2>1, <2>2 DEF Sleeping
      <3>3. task[t].sleep # 0
        BY <2>2, <2>6, <3>2
      <3> QED BY <2>1, <2>4, <2>6, <3>1, <3>3
    <2> QED BY <2>1, <2>5, <2>6
  <1>9. ASSUME NEW t \in Tasks
        PROVE  /\ Fetching(t)' => Fetching(t)
               /\ GoesForPage(t)' => GoesForPage(t)
               /\ task'[t].at # "sleep" => task'[t] = task[t]
               /\ task'[t].at = "sleep" => task'[t].by = task[t].by /\ task'[t].page = task[t].page
    <2>1. task'[t] \in Sleeping => task'[t].at = "sleep"
      BY DEF Sleeping
    <2> QED BY <1>5, <2>1 DEF Fetching, GoesForPage, Sleeping
  <1>10. HeardFirst'
    BY <1>2 DEF IInv, HeardFirst, Ever
  <1>11. RobotsAsked'
    BY <1>2, <1>9 DEF IInv, RobotsAsked, Ever
  <1>12. CacheMoves
    <2>1. \A k \in Scrapers : \A o \in Origins : Askers(k, o)' \subseteq Askers(k, o)
      <3>1. \A t \in Tasks : Asks(task'[t]) => task'[t] = task[t]
        BY <1>9 DEF Asks
      <3> QED BY <3>1 DEF Askers
    <2> QED BY <1>2, <2>1 DEF CacheMoves, Quiet
  <1> QED BY <1>6, <1>7, <1>8, <1>9, <1>10, <1>11, <1>12 DEF IInv

\* Every step keeps the invariant, and no task begins to fetch its page
\* less than Delay after it did so last.
LEMMA NextKeeps ==
  ASSUME IInv, [Next]_vars
  PROVE  /\ IInv' /\ CacheMoves
         /\ \A t \in Tasks : ~Fetching(t) /\ Fetching(t)' => age[task[t].by][t] >= Delay
  <1>1. ASSUME NEW t \in Tasks, Keeps(t)
        PROVE  /\ IInv' /\ CacheMoves
               /\ \A u \in Tasks : ~Fetching(u) /\ Fetching(u)' => age[task[u].by][u] >= Delay
    BY <1>1 DEF Keeps, Fetching
  <1>2. ASSUME NEW t \in Tasks,
               Start(t) \/ Checked(t) \/ Lookup(t) \/ Answered(t) \/ Awake(t) \/ Cancel(t)
        PROVE  Keeps(t)
    BY <1>2, StartKeeps, CheckedKeeps, LookupKeeps, AnsweredKeeps, AwakeKeeps, CancelKeeps
  <1>3. CASE Configure
    BY <1>3, ConfigureKeeps DEF Fetching
  <1>4. CASE Tick
    BY <1>4, TickKeeps
  <1>5. CASE UNCHANGED vars
    <2>1. /\ scraper' = scraper /\ task' = task /\ robots' = robots
          /\ heard' = heard /\ since' = since /\ age' = age
      BY <1>5 DEF vars
    <2>2. TypeOK'
      BY <2>1 DEF IInv, TypeOK
    <2>3. CacheMoves
      BY <2>1 DEF CacheMoves, Quiet, Askers
    <2> QED BY <2>1, <2>2, <2>3 DEF IInv, SinceLatest, SleepsEnough, HeardFirst, RobotsAsked,
                                    Ever, GoesForPage, Fetching
  <1> QED BY <1>1, <1>2, <1>3, <1>4, <1>5 DEF Next

-----------------------------------------------------------------------------
(* The cache of robots.txt settles                                         *)

\* Nothing was heard of an origin that is unknown; of any other, what was heard
\* and what is still asked for are together no more than the scrapes there can
\* be.
Settling(k, o) ==
  /\ robots[k][o] = "unknown" => heard[k][o] = <<>>
  /\ robots[k][o] # "unknown" =>
       /\ heard[k][o] # <<>> /\ robots[k][o] = heard[k][o][Len(heard[k][o])]
       /\ Len(heard[k][o]) + Cardinality(Askers(k, o)) <= Cardinality(Tasks)

CacheSettles == \A k \in Scrapers : \A o \in Origins : Settling(k, o)

\* Those who ask are finitely many.
LEMMA AskersFinite ==
  ASSUME NEW k, NEW o
  PROVE  /\ IsFiniteSet(Askers(k, o)) /\ Cardinality(Askers(k, o)) \in Nat
         /\ IsFiniteSet(Tasks) /\ Cardinality(Tasks) \in Nat
  BY WebScraperAssumption, FS_Subset, FS_CardinalityType DEF Askers

\* One of a finite set less.
LEMMA OneLess ==
  ASSUME NEW S, IsFiniteSet(S), NEW t \in S, NEW T, T \subseteq S \ {t}
  PROVE  IsFiniteSet(T) /\ Cardinality(T) \in Nat /\ Cardinality(T) + 1 <= Cardinality(S)
  <1>1. /\ IsFiniteSet(S \ {t}) /\ Cardinality(S \ {t}) = Cardinality(S) - 1
        /\ Cardinality(S) \in Nat
    BY FS_RemoveElement, FS_CardinalityType
  <1>2. IsFiniteSet(T) /\ Cardinality(T) <= Cardinality(S \ {t}) /\ Cardinality(T) \in Nat
    BY <1>1, FS_Subset, FS_CardinalityType
  <1> QED BY <1>1, <1>2

\* Every step keeps the count.
LEMMA SettlingKept ==
  ASSUME IInv, CacheSettles, CacheMoves, NEW k \in Scrapers, NEW o \in Origins
  PROVE  Settling(k, o)'
  <1> DEFINE h == heard[k][o]
             n == Cardinality(Askers(k, o))
             m == Cardinality(Askers(k, o)')
             all == Cardinality(Tasks)
  <1>1. /\ h \in Seq(Verdicts) /\ robots[k][o] \in Verdicts \cup {"unknown"}
        /\ n \in Nat /\ all \in Nat /\ IsFiniteSet(Askers(k, o)) /\ IsFiniteSet(Tasks)
    BY Typed, AskersFinite DEF IInv
  <1>2. Settling(k, o)
    BY DEF CacheSettles
  <1>3. CASE Quiet(k, o)
    <2>1. CASE robots[k][o] = "unknown"
      BY <1>2, <1>3, <2>1 DEF Quiet, Settling
    <2>2. CASE robots[k][o] # "unknown"
      <3>1. m <= n /\ m \in Nat
        BY <1>1, <1>3, <2>2, FS_Subset, FS_CardinalityType DEF Quiet
      <3>2. Len(h) + m <= all
        BY <1>1, <1>2, <2>2, <3>1 DEF Settling
      <3> QED BY <1>2, <1>3, <2>2, <3>2 DEF Quiet, Settling
    <2> QED BY <2>1, <2>2
  <1>4. CASE Loud(k, o)
    <2>1. PICK t \in Askers(k, o) : Askers(k, o)' \subseteq Askers(k, o) \ {t}
      BY <1>4 DEF Loud
    <2>2. m \in Nat /\ m + 1 <= n
      BY <1>1, <2>1, OneLess
    <2>3. m + 1 <= all
      <3>1. t \in Tasks /\ Askers(k, o)' \subseteq Tasks \ {t}
        BY <2>1 DEF Askers
      <3> QED BY <1>1, <3>1, OneLess
    <2>4. Len(h) + 1 + m <= all
      <3>1. CASE robots[k][o] = "unknown"
        <4>1. Len(h) = 0
          BY <1>2, <3>1 DEF Settling
        <4> QED BY <2>2, <2>3, <4>1
      <3>2. CASE robots[k][o] # "unknown"
        <4>1. Len(h) + n <= all /\ Len(h) \in Nat
          BY <1>1, <1>2, <3>2 DEF Settling
        <4> QED BY <1>1, <2>2, <4>1
      <3> QED BY <3>1, <3>2
    <2>5. robots'[k][o] \in Verdicts /\ heard'[k][o] = Append(h, robots'[k][o])
      BY <1>4 DEF Loud
    <2>6. /\ Len(heard'[k][o]) = Len(h) + 1 /\ heard'[k][o] # <<>>
          /\ heard'[k][o][Len(h) + 1] = robots'[k][o]
      BY <1>1, <2>5
    <2>7. robots'[k][o] # "unknown"
      BY <2>5 DEF Verdicts
    <2> QED BY <2>4, <2>6, <2>7 DEF Settling
  <1> QED BY <1>3, <1>4 DEF CacheMoves

\* Nothing was heard at first.
LEMMA InitSettles == Init => CacheSettles
  BY DEF Init, CacheSettles, Settling

\* What has settled is what the property says.
LEMMA SettlesEnough ==
  ASSUME IInv, CacheSettles
  PROVE  RobotsSettle
  <1> SUFFICES ASSUME NEW k \in Scrapers, NEW o \in Origins
               PROVE  /\ Len(heard[k][o]) <= Cardinality(Tasks)
                      /\ heard[k][o] # <<>> => robots[k][o] = heard[k][o][Len(heard[k][o])]
    BY DEF RobotsSettle
  <1>1. Settling(k, o) /\ heard[k][o] \in Seq(Verdicts)
    BY Typed DEF CacheSettles, IInv
  <1>2. Cardinality(Askers(k, o)) \in Nat /\ Cardinality(Tasks) \in Nat
    BY AskersFinite
  <1>3. CASE robots[k][o] = "unknown"
    <2>1. heard[k][o] = <<>> /\ Len(heard[k][o]) = 0
      BY <1>1, <1>3 DEF Settling
    <2> QED BY <1>2, <2>1
  <1>4. CASE robots[k][o] # "unknown"
    <2>1. Len(heard[k][o]) \in Nat
      BY <1>1
    <2> QED BY <1>1, <1>2, <1>4, <2>1 DEF Settling
  <1> QED BY <1>3, <1>4

-----------------------------------------------------------------------------
(* Theorems                                                                *)

\* The inductive invariant of the scraper.
THEOREM Invariance == Spec => []IInv
  <1>1. IInv /\ [Next]_vars => IInv'
    BY NextKeeps
  <1> QED BY <1>1, InitIInv, PTL DEF Spec

\* Every variable keeps its type: among others, no fetch follows more than
\* MaxRedirects redirects.
THEOREM TypeCorrect == Spec => []TypeOK
  <1>1. IInv => TypeOK
    BY DEF IInv
  <1> QED BY <1>1, Invariance, PTL

\* Scrapes that follow one another in one task keep the delay of their
\* scraper, whatever other scrapes do in _rate_limit meanwhile.
THEOREM PaceIsBounded == Spec => PaceBounded
  <1>1. IInv /\ [Next]_vars =>
          [\A t \in Tasks :
             ~Fetching(t) /\ Fetching(t)' => age[task[t].by][t] >= Delay]_vars
    BY NextKeeps
  <1> QED BY <1>1, Invariance, PTL DEF Spec, PaceBounded

\* No page is fetched before its robots.txt was asked for and did not deny
\* it, however concurrent scrapes overwrite what is remembered of it.
THEOREM RobotsAreAsked == Spec => []RobotsAsked
  <1>1. IInv => RobotsAsked
    BY DEF IInv
  <1> QED BY <1>1, Invariance, PTL

\* Concurrent scrapes hear the robots.txt of an origin no more often than
\* scrapes can overlap, and what was heard last stays, whatever is cancelled,
\* fails or is put over what another has heard.
THEOREM RobotsSettles == Spec => []RobotsSettle
  <1>1. Init => CacheSettles
    BY InitSettles
  <1>2. IInv /\ CacheSettles /\ [Next]_vars => CacheSettles'
    BY NextKeeps, SettlingKept DEF CacheSettles
  <1>3. IInv /\ CacheSettles => RobotsSettle
    BY SettlesEnough
  <1> QED BY <1>1, <1>2, <1>3, Invariance, PTL DEF Spec
=============================================================================
