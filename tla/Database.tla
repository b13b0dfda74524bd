------------------------------ MODULE Database ------------------------------
(***************************************************************************)
(* The database_query server (servers/database_query/): a question becomes *)
(* a prompt with the schema of the database, the answer of the model is    *)
(* validated and run.                                                      *)
(*                                                                         *)
(* The server keeps its connection and the schema it has inspected in      *)
(* globals that configure() replaces; a call awaits the queries of an      *)
(* inspection (one for the tables and one for the columns of each), the    *)
(* model, and the query itself.  Any of them may fail.  The application    *)
(* also uses the PostgresClient directly.                                  *)
(*                                                                         *)
(* A schema stands for its tables and the connection they were read from.  *)
(* The dialect is one for all connections.                                 *)
(***************************************************************************)
EXTENDS SqlSafety, FiniteSets, FiniteSetsExt

CONSTANTS
  Calls,      (* tool calls, each made at most once                        *)
  None        (* no connection, nothing cached                             *)

VARIABLES
  conn,      (* _db_connection                                             *)
  cache,     (* _schema_cache                                              *)
  pc,        (* where call c stands                                        *)
  call,      (* the tool of c, the connection it inspects, the tables it   *)
             (* has yet to read and has read, and the schema it works with *)
  ran,       (* history: what reached a database in the last step          *)
  overtaken, (* history: an inspection ended after configure() had         *)
             (* replaced its connection                                    *)
  moved      (* history: the calls that were under way in a configure()    *)

vars == <<conn, cache, pc, call, ran, overtaken, moved>>

NoSchema == [of |-> None, tables |-> <<>>]
QueryTools == {"query_database", "explain_query", "list_tables"}
Fresh == [tool |-> None, on |-> None, todo |-> <<>>, read |-> <<>>, schema |-> NoSchema]

Init ==
  /\ conn = None /\ cache = None
  /\ pc = [c \in Calls |-> "new"] /\ call = [c \in Calls |-> Fresh]
  /\ ran = None /\ overtaken = FALSE /\ moved = {}

\* Mutant: the schema of the old connection stays.
Kept == cache

\* configure(): another connection, and nothing is known of it.
ConfigureCache == None
Configure(k) ==
  /\ conn' = k /\ cache' = ConfigureCache
  /\ overtaken' = FALSE
  /\ moved' = moved \cup {c \in Calls : pc[c] \in {"tables", "columns", "llm"}}
  /\ ran' = None /\ UNCHANGED <<pc, call>>

-----------------------------------------------------------------------------
(* The schema                                                              *)

\* With its schema, list_tables answers; the other tools ask the model.
Continue(c, r, s) ==
  /\ call' = [call EXCEPT ![c] = [r EXCEPT !.schema = s]]
  /\ pc' = [pc EXCEPT ![c] = IF r.tool = "list_tables" THEN "answered" ELSE "llm"]

\* A tool is called: the cached schema, none without a connection, or an inspection.
Call(c, f) ==
  LET r == [Fresh EXCEPT !.tool = f] IN
  /\ pc[c] = "new"
  /\ CASE cache # None -> Continue(c, r, cache)
       [] cache = None /\ conn = None -> Continue(c, r, NoSchema)
       [] OTHER -> /\ pc' = [pc EXCEPT ![c] = "tables"]
                   /\ call' = [call EXCEPT ![c] = [r EXCEPT !.on = conn]]
  /\ ran' = None /\ UNCHANGED <<conn, cache, overtaken, moved>>

\* Between two queries of an inspection: the next name is validated and its
\* columns are asked for; after the last one the schema is cached.
Inspecting(c, todo, read) ==
  LET r == [call[c] EXCEPT !.todo = todo, !.read = read] IN
  CASE todo = <<>> ->
         LET s == [of |-> r.on, tables |-> read] IN
         /\ cache' = s /\ Continue(c, r, s)
         /\ overtaken' = (overtaken \/ conn # r.on)
         /\ ran' = None
    [] todo # <<>> /\ ValidateIdentifier(Head(todo)) ->
         /\ pc' = [pc EXCEPT ![c] = "columns"] /\ call' = [call EXCEPT ![c] = r]
         /\ ran' = [via |-> "inspector", on |-> r.on, effects |-> {}, names |-> {Head(todo)}]
         /\ UNCHANGED <<cache, overtaken>>
    [] OTHER ->
         /\ pc' = [pc EXCEPT ![c] = "raised"] /\ call' = [call EXCEPT ![c] = r]
         /\ ran' = None /\ UNCHANGED <<cache, overtaken>>

TablesArrive(c) ==
  /\ pc[c] = "tables"
  /\ Inspecting(c, Tables[call[c].on], <<>>)
  /\ UNCHANGED <<conn, moved>>

ColumnsArrive(c) ==
  /\ pc[c] = "columns"
  /\ Inspecting(c, Tail(call[c].todo), Append(call[c].read, Head(call[c].todo)))
  /\ UNCHANGED <<conn, moved>>

\* A query of the inspection or the model raises: nothing catches it.
Fails(c) ==
  /\ pc[c] \in {"tables", "columns", "llm"}
  /\ pc' = [pc EXCEPT ![c] = "raised"]
  /\ ran' = None /\ UNCHANGED <<conn, cache, call, overtaken, moved>>

-----------------------------------------------------------------------------
(* The query                                                               *)

\* PostgresClient.fetch: whatever k is asked to run, if it is read-only only reads.
FetchRuns(k, q) == k \notin ReadOnly \/ ValidateReadOnly[q]

\* SQLGenerator.validate: what the model wrote is run only when it reads.
Valid(q) == ValidateReadOnly[q]

\* The model answers q: query_database runs it on the connection there is now.
Generate(c, q) ==
  /\ pc[c] = "llm"
  /\ pc' = [pc EXCEPT ![c] = "answered"]
  /\ ran' = IF /\ Valid(q) /\ call[c].tool = "query_database"
               /\ conn # None /\ FetchRuns(conn, q)
            THEN [via |-> c, on |-> conn, effects |-> Effects[q], names |-> {}]
            ELSE None
  /\ UNCHANGED <<conn, cache, call, overtaken, moved>>

-----------------------------------------------------------------------------
(* The client in the hands of the application                              *)

AppFetch(k, q) ==
  /\ FetchRuns(k, q)
  /\ ran' = [via |-> "application", on |-> k, effects |-> Effects[q], names |-> {}]
  /\ UNCHANGED <<conn, cache, pc, call, overtaken, moved>>

\* PostgresClient.execute: nothing at all when the client is read-only.
AppExecute(k, q) ==
  /\ k \notin ReadOnly
  /\ ran' = [via |-> "application", on |-> k, effects |-> Effects[q], names |-> {}]
  /\ UNCHANGED <<conn, cache, pc, call, overtaken, moved>>

\* vector_search composes a SELECT from the table, the column and the filters;
\* their values are bound parameters.
VectorSearch(k, names) ==
  /\ \A n \in names : ValidateIdentifier(n)
  /\ ran' = [via |-> "vector_search", on |-> k, effects |-> {}, names |-> names]
  /\ UNCHANGED <<conn, cache, pc, call, overtaken, moved>>

TableNames == Plain \cup UNION {Range(Tables[k]) : k \in Conns}

Next ==
  \/ \E k \in Conns \cup {None} : Configure(k)
  \/ \E c \in Calls :
       \/ \E f \in QueryTools : Call(c, f)
       \/ TablesArrive(c)
       \/ ColumnsArrive(c)
       \/ Fails(c)
       \/ \E q \in Scripts : Generate(c, q)
  \/ \E k \in Conns :
       \/ \E q \in Scripts : AppFetch(k, q) \/ AppExecute(k, q)
       \/ \E names \in kSubset(2, TableNames) : VectorSearch(k, names)

Spec == Init /\ [][Next]_vars

-----------------------------------------------------------------------------
(* Properties                                                              *)

\* What the server lets through to a database, or a read-only client, only
\* reads: in no statement of a script, at no depth, under no EXPLAIN that runs
\* what it explains does anything act that is on the lists; and names that go into the
\* text of a query are identifiers.  (query_database, fetch, vector_search)
OnlyReadsRun ==
  (ran # None /\ (ran.on \in ReadOnly \/ ran.via # "application")) =>
     /\ ran.effects \subseteq Overlooked
     /\ ran.names \subseteq Plain

\* The schema a query was written for is that of the connection it runs on,
\* unless configure() came in between, or an inspection of the connection
\* before was still under way when it did; and a schema is known only whole,
\* never with some of the tables.  (_get_schema, configure)
SchemaOfConnection ==
  /\ cache # None => cache.tables = Tables[cache.of] /\ (overtaken \/ cache.of = conn)
  /\ \A c \in Calls : call[c].schema # NoSchema => call[c].schema.tables = Tables[call[c].schema.of]
  /\ \A c \in Calls : pc[c] = "llm" /\ c \notin moved /\ ~overtaken =>
       call[c].schema.of = conn
=============================================================================
