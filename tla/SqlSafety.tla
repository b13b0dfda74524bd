----------------------------- MODULE SqlSafety -----------------------------
(***************************************************************************)
(* The read-only validator of servers/database_query/sql_safety.py, what   *)
(* PostgreSQL executes of a script, and the databases there are.           *)
(*                                                                         *)
(* A script stands for an SQL text.  Parse gives what sqlglot makes of it: *)
(* its statements, each with its type, the types of all nodes of its tree  *)
(* (the root is one), and the functions it calls.  A text that sqlglot     *)
(* cannot parse has no entry.  EXPLAIN is a command whose rest is a script *)
(* of its own, and analyze tells whether the word occurs in that rest.     *)
(***************************************************************************)
EXTENDS Naturals, Sequences, Functions

CONSTANTS
  Scripts,   (* SQL texts                                                  *)
  Parse,     (* Parse[q]: the statements of q                              *)
  Acting,    (* the node types and functions that do more than read        *)
  Plain,     (* the names that match _IDENTIFIER_RE                        *)
  Conns,     (* PostgresClient objects ...                                 *)
  ReadOnly,  (* ... those with read_only                                   *)
  Tables     (* Tables[k]: the names of the tables of k, in order          *)

WriteStatements == {"Insert", "Update", "Delete", "Drop", "Create", "Alter", "Truncate",
                    "TruncateTable", "Merge", "Replace", "Grant", "Revoke", "Lock", "Call"}
AllowedStatements == {"Select", "Union", "Intersect", "Except", "Values"}
DeniedNodes == WriteStatements \cup {"Into", "Copy", "Command", "Set"}

\* One function for each group of the list.
DeniedFunctions == {"pg_cancel_backend", "pg_read_file", "lo_unlink", "dblink_exec",
                    "nextval", "pg_drop_replication_slot", "query_to_xml"}

\* Node types are capitalised and functions in lower case: neither is taken for
\* the other.
ASSUME SqlAssumption ==
  /\ ReadOnly \subseteq Conns
  /\ \A k \in Conns : Tables[k] \in Seq(STRING)
  /\ DOMAIN Parse \subseteq Scripts
  /\ \A q \in DOMAIN Parse : \A st \in Range(Parse[q]) :
       /\ DOMAIN st = {"type", "nodes", "funcs", "analyze", "rest"}
       /\ st.type = "Explain" => st.rest \in Scripts \ {q}
       /\ st.nodes \cap DeniedFunctions = {} /\ st.funcs \cap DeniedNodes = {}

\* What acts and is on none of the lists: "a function that is not on it passes
\* the validator".
Overlooked == Acting \ (DeniedNodes \cup DeniedFunctions)

-----------------------------------------------------------------------------
\* Mutant: only the root of the statement is looked at.
PlainReadAtRoot(st) == st.type \in AllowedStatements

\* A SELECT, a set operation or VALUES, with nothing that is denied anywhere in it.
PlainRead(st) ==
  /\ st.type \in AllowedStatements
  /\ st.nodes \cap DeniedNodes = {}
  /\ st.funcs \cap DeniedFunctions = {}

\* validate_read_only raises nothing: every statement is a plain read, or
\* explains a script that is one without running it.
ValidateReadOnly[q \in Scripts] ==
  /\ q \in DOMAIN Parse
  /\ Parse[q] # <<>>
  /\ \A st \in Range(Parse[q]) :
       IF st.type = "Explain" THEN ~st.analyze /\ ValidateReadOnly[st.rest]
                              ELSE PlainRead(st)

ValidateIdentifier(name) == name \in Plain

\* What PostgreSQL does beside reading when it runs q, whatever the validator
\* knows of it: EXPLAIN runs its rest only with ANALYZE.
Effects[q \in Scripts] ==
  IF q \notin DOMAIN Parse THEN {}
  ELSE UNION {IF st.type # "Explain"
                THEN (st.nodes \cup st.funcs) \cap Acting
                ELSE IF st.analyze THEN Effects[st.rest] ELSE {} : st \in Range(Parse[q])}
=============================================================================
