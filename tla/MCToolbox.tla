----------------------------- MODULE MCToolbox -----------------------------
(***************************************************************************)
(* The parts that work alone - the chunker, the servers database_query,    *)
(* gemini_embedding, calendar, email, crm_ghl and analytics, the settings  *)
(* of the HTTP gateway, costs, the Redis cache and the address policy -    *)
(* for TLC.  They share nothing, so a behaviour drives one of them and the *)
(* others stay as they began; a run names the parts it is for.             *)
(***************************************************************************)
EXTENDS Chunker, SqlSafety, FiniteSets, SequencesExt, TLC

VARIABLES part,
  request, settings, altered,
  templates, draft, mailer, mails, mailCounter,
  records,
  points, statistics,
  redis, memory, client, clearing, writes, latest, broken, hit,
  fields, aliases, log, resolved, contacts, deals, counter, found,
  dns, calls,
  conn, cache, pc, call, ran, overtaken, moved,
  embedder, dims, store, at, job, nearest, current,
  provider, events, eventCounter, offer, deleted

CONSTANTS Parts, Requests, Names, Keys, Texts, Variables, People, MaxMails,
  Prices, Models, Alike, Tools, NoTool, TokenCounts, MaxRecords,
  MetricNames, Values, Thresholds, Limits, ChartLimit, MaxPoints,
  Procs, CacheKeys, Fallback, TTL, MaxWrites,
  Fields, Extras, NameForm, KeyForm, AskedForm, Within, Dicts, Matches, MaxLimit, MaxFields, MaxCreated,
  Hosts, Schemes, Lookups, Global, Unicast, Embedded,
  None, c1, c2, Calls,
  Phrases, Ids, Clients, Dimensions, Stores, Similarity, Mixed, TopKs,
  Day, StartHour, EndHour, WorkingDays, DefaultDuration, Durations,
  Calendars, OwnCalendar, MaxResults, Bookings, Ranges, MaxEvents

\* None is no connection, and the items and the calls of the index are told apart.
ASSUME MCToolboxAssumption == None \notin Conns /\ Ids \cap Calls = {}

\* An IPv6 address that embeds an IPv4 address is a unicast address itself: none
\* of the three prefixes is a multicast or a site-local one.
ASSUME AddressAssumption == Lookups \subseteq Seq(STRING) /\ DOMAIN Embedded \subseteq Unicast

\* A ttl is a number of ticks, and a threshold of zero deviations is not asked for.
ASSUME TTLAssumption == TTL \in Nat
ASSUME MetricsAssumption == Values \subseteq Int /\ Thresholds \subseteq Nat \ {0}

\* Prices and numbers of tokens are not negative.
ASSUME CostAssumption ==
  /\ \A p \in DOMAIN Prices : Prices[p] \in Seq([model : STRING, input : Nat, output : Nat])
  /\ TokenCounts \subseteq Nat

\* Texts are words, and what draft_from_template is given is a dict: no key twice.
ASSUME EmailAssumption ==
  /\ Texts \subseteq Seq(STRING)
  /\ \A given \in Variables :
       /\ given \in Seq(Keys \X Seq(STRING))
       /\ \A i, j \in DOMAIN given : given[i][1] = given[j][1] => i = j
  /\ Keys \subseteq STRING

\* Every name and key of a field, every alias, and every name asked for, has
\* its form.
ASSUME CrmAssumption ==
  /\ Fields \subseteq [id : {f.id : f \in Fields}, name : DOMAIN NameForm, key : DOMAIN KeyForm]
  /\ Extras \subseteq Seq(DOMAIN NameForm)
  /\ Dicts \subseteq Seq((DOMAIN AskedForm) \X STRING)

\* An hour is one of the day, and neither durations nor the default go backwards.
ASSUME CalendarAssumption ==
  /\ Day \in Nat \ {0} /\ StartHour \in 0 .. Day - 1 /\ EndHour \in 0 .. Day - 1
  /\ DefaultDuration \in Nat \ {0} /\ Durations \subseteq Nat
  /\ Ranges \subseteq Int \X Int /\ Bookings \subseteq Int \X Int

\* A store that is given holds an id once, with the vector of its own text.
ASSUME StoresAssumption ==
  \A s \in Stores :
    /\ s \in Seq([id : Ids, text : Phrases,
                 vector : [text : Phrases, space : [client : Clients, dims : Dimensions]]])
    /\ \A i, j \in 1 .. Len(s) : s[i].id = s[j].id => i = j
    /\ \A i \in 1 .. Len(s) : s[i].vector.text = s[i].text

\* Scores are numbers, in whatever unit.
ASSUME SimilarityAssumption ==
  /\ \A t, u \in Phrases : Similarity[t][u] \in Int
  /\ Mixed \in Int /\ TopKs \subseteq Int

Http == INSTANCE HttpSettings WITH answer <- settings
Mail == INSTANCE Email WITH counter <- mailCounter
Costs == INSTANCE CostTracker
Analytics == INSTANCE Metrics WITH answer <- statistics
Cache == INSTANCE RedisCache WITH answer <- hit
GHL == INSTANCE Crm
Net == INSTANCE AddressPolicy
DB == INSTANCE Database
Index == INSTANCE VectorIndex WITH client <- embedder, found <- nearest, Texts <- Phrases
Booking == INSTANCE Calendar WITH counter <- eventCounter

httpvars == <<request, settings, altered>>
mailvars == <<templates, draft, mailer, mails, mailCounter>>
metricvars == <<points, statistics>>
cachevars == <<redis, memory, client, clearing, writes, latest, broken, hit>>
crmvars == <<fields, aliases, log, resolved, contacts, deals, counter, found>>
netvars == <<dns, calls>>
dbvars == <<conn, cache, pc, call, ran, overtaken, moved>>
indexvars == <<embedder, dims, store, at, job, nearest, current>>
bookingvars == <<provider, events, eventCounter, offer, deleted>>
servervars == <<dbvars, indexvars, bookingvars>>
allvars == <<part, vars, httpvars, mailvars, records, metricvars, cachevars, crmvars, netvars,
             servervars>>

MCInit ==
  /\ part \in Parts
  /\ part = "chunker" \/ (strategy = "fixed" /\ text = <<>> /\ overlap = 2)
  /\ part = "http" \/ request = CHOOSE r \in Requests : TRUE
  /\ part = "mail" \/ mailer = "memory"
  /\ part = "net" \/ dns = [h \in Hosts \ {""} |-> Net!Unresolved]
  /\ part = "index" \/ embedder = CHOOSE cl \in Clients : TRUE
  /\ part = "index" \/ dims = CHOOSE d \in Dimensions : TRUE
  /\ part = "calendar" \/ provider = "mock"
  /\ Http!Init /\ Mail!Init /\ Costs!Init /\ Analytics!Init /\ Cache!Init /\ GHL!Init /\ Net!Init
  /\ DB!Init /\ Index!Init /\ Booking!Init /\ Init

MCNext ==
  /\ UNCHANGED part
  /\ \/ /\ part = "chunker" /\ Next
        /\ UNCHANGED <<httpvars, mailvars, records, metricvars, cachevars, crmvars, netvars, servervars>>
     \/ /\ part = "http" /\ Http!Next
        /\ UNCHANGED <<vars, mailvars, records, metricvars, cachevars, crmvars, netvars, servervars>>
     \/ /\ part = "drafts" /\ Mail!DraftNext
        /\ UNCHANGED <<vars, httpvars, records, metricvars, cachevars, crmvars, netvars, servervars>>
     \/ /\ part = "mail" /\ Mail!SendNext
        /\ UNCHANGED <<vars, httpvars, records, metricvars, cachevars, crmvars, netvars, servervars>>
     \/ /\ part = "costs" /\ Costs!Next
        /\ UNCHANGED <<vars, httpvars, mailvars, metricvars, cachevars, crmvars, netvars, servervars>>
     \/ /\ part = "metrics" /\ Analytics!Next
        /\ UNCHANGED <<vars, httpvars, mailvars, records, cachevars, crmvars, netvars, servervars>>
     \/ /\ part = "cache" /\ Cache!Next
        /\ UNCHANGED <<vars, httpvars, mailvars, records, metricvars, crmvars, netvars, servervars>>
     \/ /\ part = "fields" /\ GHL!MapperNext
        /\ UNCHANGED <<vars, httpvars, mailvars, records, metricvars, cachevars, netvars, servervars>>
     \/ /\ part = "contacts" /\ GHL!ClientNext
        /\ UNCHANGED <<vars, httpvars, mailvars, records, metricvars, cachevars, netvars, servervars>>
     \/ /\ part = "net" /\ Net!Next
        /\ UNCHANGED <<vars, httpvars, mailvars, records, metricvars, cachevars, crmvars, servervars>>
     \/ /\ part = "database" /\ DB!Next
        /\ UNCHANGED <<vars, httpvars, mailvars, records, metricvars, cachevars, crmvars, netvars,
                       indexvars, bookingvars>>
     \/ /\ part = "index" /\ Index!Next
        /\ UNCHANGED <<vars, httpvars, mailvars, records, metricvars, cachevars, crmvars, netvars,
                       dbvars, bookingvars>>
     \/ /\ part = "calendar" /\ Booking!Next
        /\ UNCHANGED <<vars, httpvars, mailvars, records, metricvars, cachevars, crmvars, netvars,
                       dbvars, indexvars>>

MCSpec == MCInit /\ [][MCNext]_allvars

-----------------------------------------------------------------------------
(* Values                                                                  *)

\* A size and an overlap that fit, an overlap above the size, gaps, and chunks of
\* no size with and without gaps.
MCSizes == {<<3, 2>>, <<2, 3>>, <<2, -1>>, <<0, -2>>, <<0, 0>>}
MCCharTexts == SeqOf(Chars, 6)
MCPieceTexts == SeqOf(0 .. 4, 4)

\* Every way to bind and to guard, and every kind of key and port for some.
Unset == "unset"
MCHosts == [name : {"::1", "localhost", "0.0.0.0", "host.name", Unset}, brackets : BOOLEAN]
Asked(resources, issuers, hosts, origins, ports, keys) ==
  {r \in [way : {"environ", "keywords"}, host : MCHosts, public : BOOLEAN, resource : resources,
          issuer : issuers, hosts : hosts, origins : origins, port : ports,
          hostsflag : {Unset, "yes", "no"}, originsflag : {Unset, "yes", "no"},
          secret : keys, jwks : {FALSE}, token : keys] :
     IF r.way = "environ" THEN {r.hostsflag, r.originsflag} = {Unset}
     ELSE r.hostsflag = r.originsflag \/ r.hostsflag = "yes" \/ r.originsflag = "yes"}
MCRequests ==
  Asked({Unset, "", "url", "with userinfo"}, {Unset, "url", "not a url"},
        {{Unset}, {}, {"exact"}, {"exact", "*"}}, {{Unset}, {}, {"exact"}}, {Unset}, {TRUE})
  \cup {[r EXCEPT !.jwks = b, !.token = t] : b, t \in BOOLEAN,
          r \in Asked({"url"}, {"url"}, {{Unset}, {"exact"}}, {{Unset}},
                      {"8000", "text", "too high"}, BOOLEAN)}

MCTexts == {<<"Dear", "name">>, <<"sum", "name", "sum">>}
MCVariables ==
  {<<>>, <<<<"name", <<"Ann">>>>>>,
   <<<<"sum", <<"10">>>>, <<"name", <<"Ann">>>>>>,
   <<<<"name", <<"sum">>>>, <<"sum", <<"10">>>>>>,
   <<<<"name", <<>>>>, <<"sum", <<"1", "0">>>>, <<"x", <<"y">>>>>>}

Price(m, i, o) == [model |-> m, input |-> i, output |-> o]
MCPrices == "a" :> <<Price("m-pro", 33, 120), Price("m", 151, 49)>>
MCAlike == {<<"m-new", "m-pro">>, <<"m-new", "m">>}

MCLimits == {-1, 1, 5}
MCFallback == [p \in Procs |-> p = "p1"]

Field(id, name, key) == [id |-> id, name |-> name, key |-> key]
MCFields == {Field(1, "Source", "lead_source"), Field(2, "Lead Source", "k2"),
             Field(1, "Budget ", "lead source"), Field(3, "Lead", "k3")}
MCExtras == {<<>>, <<"Budget">>}
MCKeyForm == [k \in {"lead_source", "lead source", "k2", "k3"} |-> k]
MCNameForm == "Source" :> "source" @@ "Lead Source" :> "lead_source" @@ "Lead" :> "lead"
  @@ "Budget" :> "budget" @@ "Budget " :> "budget_"
MCAskedForm == [n \in {"lead_source", "k2", "other"} |-> n] @@ "lead source" :> "lead_source"
  @@ "Budget " :> "budget" @@ MCNameForm
MCWithin == {<<a, a>> : a \in {"source", "lead_source", "lead source", "lead", "budget", "budget_",
                               "k2", "k3", "other"}}
  \cup {<<a, "lead" \o b \o "source">> : a \in {"lead", "source"}, b \in {"_", " "}}
  \cup {<<"budget", "budget_">>}
MCDicts == {<<<<a, "v">>, <<b, "w">>>> : a \in {"Source", "lead source", "Lead", "Budget "},
                                          b \in {"k2", "other", "lead_source"}}
MCMatches == {<<"q", "ann">>}

MCEmbedded == "v6 of local" :> "local" @@ "v6 of public" :> "public"
MCLookups == {<<>>, <<"public">>, <<"local">>, <<"public", "group">>, <<"v6 of local">>,
              <<"v6 of public">>}

Stmt(type, nodes, funcs) ==
  [type |-> type, nodes |-> {type} \cup nodes, funcs |-> funcs, analyze |-> FALSE, rest |-> ""]
Explain(analyze, q) ==
  [type |-> "Explain", nodes |-> {}, funcs |-> {}, analyze |-> analyze, rest |-> q]

\* The calls are alike.
MCSymmetry == Permutations(Calls)

\* A read; a write; a read, then a write; a write in a WITH; a function that
\* acts, on the list and not; and EXPLAIN of a read, of a write, and of a write that it runs.
\* "garbage" does not parse, "comment" has no statement in it.
MCParse ==
     "read" :> <<Stmt("Select", {"Func"}, {"count"})>>
  @@ "write" :> <<Stmt("Insert", {}, {})>>
  @@ "two" :> <<Stmt("Select", {}, {}), Stmt("Drop", {}, {})>>
  @@ "with" :> <<Stmt("Select", {"Delete"}, {})>>
  @@ "act" :> <<Stmt("Select", {}, {"nextval"})>>
  @@ "unlisted" :> <<Stmt("Select", {}, {"charge"})>>
  @@ "explain" :> <<Explain(FALSE, "read")>>
  @@ "explain_write" :> <<Explain(FALSE, "write")>>
  @@ "analyze" :> <<Explain(TRUE, "with")>>
  @@ "comment" :> <<>>
MCScripts == DOMAIN MCParse \cup {"garbage"}

\* A function of the application acts too, which no list names.
MCActing == DeniedNodes \cup DeniedFunctions \cup {"charge"}

\* One database has a table whose name is no plain identifier.
MCTables == "reader" :> <<"orders", "users">> @@ "writer" :> <<"users", "Order Items">>

MCTopKs == {-1, 0, 1, 3}
MCStores ==
  {<<>>, <<[id |-> 2, text |-> "a", vector |-> [text |-> "a", space |-> [client |-> "gemini", dims |-> 3]]],
           [id |-> 1, text |-> "b", vector |-> [text |-> "b", space |-> [client |-> "gemini", dims |-> 2]]]>>}
MCSimilarity == "a" :> ("a" :> 10 @@ "b" :> 7) @@ "b" :> ("a" :> 7 @@ "b" :> 10)

\* Two days of four hours' work and a weekend; an event may cross an opening,
\* a closing or the end of a range.
MCBookings == {<<1, 3>>, <<3, 4>>, <<9, 11>>}
MCRanges == {<<0, 16>>, <<2, 10>>, <<3, 4>>}

-----------------------------------------------------------------------------
(* Properties of the other parts, as their modules state them              *)

\* A server that runs is as guarded as its bind asks for.
BindIsGuarded == Http!BindIsGuarded

\* The SDK checks against the lists that were configured.
ListsAreKept == Http!ListsAreKept

\* A draft is filled as if all placeholders were replaced at once.
DraftIsFilled == Mail!DraftIsFilled

\* What models and tools are charged adds up to the total.
CostsAddUp == Costs!CostsAddUp

\* Outliers are fewer than one in z squared of the points.
AnomaliesAreRare == Analytics!AnomaliesAreRare

\* A hit is no older than the ttl, and the last write unless a command failed.
HitsAreRecent == Cache!HitsAreRecent

\* A value arrives under the key of the field that claimed its name last.
ValuesArrive == GHL!ValuesArrive

\* Checked and pinned connections go to public unicast addresses.
ConnectionsArePublic == Net!ConnectionsArePublic
\* Only reads run, on names that are identifiers.
OnlyReadsRun == DB!OnlyReadsRun

\* A query is written for the schema of the connection it runs on.
SchemaOfConnection == DB!SchemaOfConnection

\* search returns the best items of the store it looks in.
SearchReturnsBest == Index!SearchReturnsBest

\* Items are comparable with what is embedded now unless configure() came after them.
SameSpace == Index!SameSpace

\* find_free_slots offers exactly the slots of the grid beside the listed events.
SlotsAreExact == Booking!SlotsAreExact

\* No creation of an event loses another one.
NoEventLost == Booking!NoEventLost

=============================================================================
