------------------------------ MODULE Gateway ------------------------------
(***************************************************************************)
(* Guarded tool calls: the decorators of EnhancedMCP                       *)
(* (framework/base_server.py) behind the HTTP resource server              *)
(* (framework/http_auth.py, gateway/app.py), with the credentials of       *)
(* framework/auth.py and the spans of framework/telemetry.py.              *)
(*                                                                         *)
(* An HTTP request carries a bearer token and a session; the SDK verifies  *)
(* the token, checks the scope of the endpoint and the owner of the        *)
(* session, and runs the tool in the context of the request.  A local call *)
(* (stdio, or in the process) has no token.  The wrapper of a tool opens a *)
(* span, finds out who calls, applies its guard, runs the function, and    *)
(* closes the span whatever happened.  Awaits are the fetch of a signing   *)
(* key, the queue of the session, and the function itself.                 *)
(*                                                                         *)
(* A token stands for its verified claims: one that is forged or was made  *)
(* for another audience is refused without a trace, and is left out.  A    *)
(* hash of an identity stands for the identity.  The limiter is the        *)
(* abstract one: all limited tools have one rule here, so that two of them *)
(* with functions of one name, which share their keys, do not mix rules    *)
(* (SlidingWindow has keys with several).                                  *)
(***************************************************************************)
EXTENDS Integers, FiniteSets, Sequences

CONSTANTS
  Calls,          (* tool calls, each made at most once                    *)
  Sessions,       (* session ids                                           *)
  Tokens,         (* bearer tokens ...                                     *)
  Claims,         (* ... and their claims: iss, sub, client, scopes, exp   *)
  Ids, Issuers,   (* subjects, client ids and caller ids; issuers          *)
  ApiKeys,        (* API keys; each belongs to one client, named alike     *)
  Nobody,         (* no token, no subject, no caller, no record            *)
  Tools,          (* the registered tools ...                              *)
  FuncName,       (* ... and the names of their functions (func.__name__)  *)
  Guard,          (* Guard[f]: the decorator of f                          *)
  Scopes,         (* all scopes                                            *)
  Scope,          (* Scope[f]: the scope f asks for, or Nobody             *)
  EndpointScope,  (* required_scopes                                       *)
  Args,           (* Args[f]: what callers of f pass as caller_id, token   *)
                  (* or api_key                                            *)
  MaxCalls,       (* max_calls and window_seconds of the limited tools     *)
  Window,
  Leeway,         (* leeway of JWTAuth for tokens passed as arguments      *)
  MaxSpans,       (* MAX_SPAN_RECORDS                                      *)
  MaxTime         (* bound: the clock                                      *)

Claim == [iss : Issuers, sub : Ids \cup {Nobody}, client : Ids,
          scopes : SUBSET Scopes, exp : Nat]

ASSUME GatewayAssumption ==
  /\ Claims \in [Tokens -> Claim]
  /\ Nobody \notin Tokens \cup Calls \cup Ids \cup ApiKeys \cup Scopes
  /\ Guard \in [Tools -> {"limited", "cached", "jwt", "api_key"}]
  /\ Scope \in [Tools -> Scopes \cup {Nobody}] /\ EndpointScope \in Scopes
  /\ \A f \in Tools : CASE Guard[f] = "jwt"     -> Args[f] \subseteq Tokens
                       [] Guard[f] = "api_key" -> Args[f] \subseteq ApiKeys
                       [] OTHER                -> Args[f] \subseteq Ids \cup {Nobody}
  /\ MaxCalls \in Nat \ {0} /\ Window \in Nat \ {0} /\ Leeway \in Nat
  /\ MaxSpans \in Nat \ {0} /\ MaxTime \in Nat

VARIABLES
  now,               (* the clock                                          *)
  admitted, answer,  (* the limiter's                                      *)
  session,           (* session[s]: the token it was created with          *)
  keys,              (* keys[k]: the APIKeyRecord, or Nobody               *)
  pc, req,           (* where call c stands, and what it asks              *)
  ctx,               (* ctx[c]: whose dict is in _call_attrs, in the       *)
                     (* context of c                                       *)
  attrs,             (* attrs[c]: mcp.subject in the dict of c             *)
  spans,             (* the deque of SpanRecords                           *)
  who, ended,        (* history: who a call was taken for and how calls    *)
  verified, passed   (* ended; when a bearer was verified, and when the    *)
                     (* limiter let a call pass                            *)

limiter == <<admitted, answer>>
telemetry == <<ctx, attrs, spans, who, ended>>
history == <<verified, passed>>
vars == <<now, limiter, session, keys, pc, req, telemetry, history>>

-----------------------------------------------------------------------------
(* Identities                                                              *)

\* The subject of a token, or its client identity when it has none.
Who(t) == IF Claims[t].sub # Nobody THEN Claims[t].sub ELSE Claims[t].client

Principal(t) ==
  [iss |-> Claims[t].iss, who |-> Who(t),
   kind |-> IF Claims[t].sub # Nobody THEN "sub" ELSE "client"]

Verifies(t, leeway) == now < Claims[t].exp + leeway

\* Mutant of AccessToken: the tool sees the token that created the session.
AccessTokenOfSession(c) ==
  IF req[c].token = Nobody THEN Nobody ELSE session[req[c].session]

\* get_request_access_token
AccessToken(c) == req[c].token

\* What a tool is charged under: the name of its function, whatever name the
\* tool is registered with.
LocalKey(f, a) == [name |-> FuncName[f], iss |-> Nobody, kind |-> "local", who |-> a]
VerifiedKey(f, t) ==
  [name |-> FuncName[f], iss |-> Principal(t).iss, kind |-> Principal(t).kind,
   who |-> Principal(t).who]

\* Mutant of RateKey: what the caller passes comes first.
RateKeyByArg(c) ==
  IF AccessToken(c) = Nobody \/ req[c].arg # Nobody THEN LocalKey(req[c].tool, req[c].arg)
  ELSE VerifiedKey(req[c].tool, AccessToken(c))

\* Mutant of RateKey: the subject and nothing else.
RateKeyBySubject(c) ==
  IF AccessToken(c) = Nobody THEN LocalKey(req[c].tool, req[c].arg)
  ELSE LocalKey(req[c].tool, Who(AccessToken(c)))

\* The key a limited tool is charged to.
RateKey(c) ==
  IF AccessToken(c) = Nobody THEN LocalKey(req[c].tool, req[c].arg)
  ELSE VerifiedKey(req[c].tool, AccessToken(c))

LimitedTools == {f \in Tools : Guard[f] = "limited"}
RateKeys == UNION {{LocalKey(f, a) : a \in Ids \cup {Nobody}}
                     \cup {VerifiedKey(f, t) : t \in Tokens} : f \in LimitedTools}

Limiter == INSTANCE RateLimitContract
             WITH Keys <- RateKeys, Limit <- [k \in RateKeys |-> MaxCalls],
                  Window <- [k \in RateKeys |-> Window]

-----------------------------------------------------------------------------
(* Spans                                                                   *)

\* Mutant of Context: _call_attrs is one variable of the module.
ContextShared(c) == CHOOSE d \in Calls : TRUE

\* The context call c runs in: that of its own task.
Context(c) == c

\* deque(maxlen=n)
LastOf(s, n) == IF Len(s) > n THEN SubSeq(s, Len(s) - n + 1, Len(s)) ELSE s

\* The end of tool_call: one span with what is in the dict of the call.
Closes(c, outcome) ==
  /\ pc' = [pc EXCEPT ![c] = "over"]
  /\ spans' = LastOf(Append(spans, [name |-> FuncName[req[c].tool], subject |-> attrs'[c],
                                    outcome |-> outcome]), MaxSpans)
  /\ ended' = Append(ended, [call |-> c, outcome |-> outcome])

\* The function behind the guards is called.
RunsBody(c) == pc' = [pc EXCEPT ![c] = "body"] /\ UNCHANGED <<spans, ended>>

Enters(c) == ctx' = [ctx EXCEPT ![Context(c)] = c]
Exits(c) == ctx' = [ctx EXCEPT ![Context(c)] = Nobody]

\* The beginning of tool_call, and annotate_call in the same step.
TakenFor(c, x) ==
  /\ who' = [who EXCEPT ![c] = x]
  /\ attrs' = [attrs EXCEPT ![c] = x]

\* annotate_call in a later step: in the dict of the context, if it has one.
Annotates(c, x) ==
  /\ who' = [who EXCEPT ![c] = x]
  /\ attrs' = IF ctx[Context(c)] = Nobody THEN attrs
              ELSE [attrs EXCEPT ![ctx[Context(c)]] = x]

\* A wrapper that awaits nothing lets its call in, or ends it at once.
LetsIn(c, x) == TakenFor(c, x) /\ Enters(c) /\ RunsBody(c)
EndsAtOnce(c, x, outcome) == TakenFor(c, x) /\ Closes(c, outcome) /\ UNCHANGED ctx

-----------------------------------------------------------------------------
Init ==
  /\ now = 0
  /\ admitted = [k \in RateKeys |-> {}] /\ answer = [Limiter!NoAnswer EXCEPT !.key = Nobody]
  /\ session = [s \in Sessions |-> Nobody]
  /\ keys = [k \in ApiKeys |-> Nobody]
  /\ pc = [c \in Calls |-> "new"]
  /\ req = [c \in Calls |-> Nobody]
  /\ ctx = [c \in Calls |-> Nobody]
  /\ attrs = [c \in Calls |-> Nobody]
  /\ spans = <<>>
  /\ who = [c \in Calls |-> Nobody]
  /\ verified = [c \in Calls |-> -1]
  /\ passed = [c \in Calls |-> -1]
  /\ ended = <<>>

\* A verified token with the scope of the endpoint creates a session.
Initialize(s, t) ==
  /\ session[s] = Nobody
  /\ Verifies(t, 0) /\ EndpointScope \in Claims[t].scopes
  /\ session' = [session EXCEPT ![s] = t]
  /\ UNCHANGED <<now, limiter, keys, pc, req, telemetry, history>>

Asks(c, where, s, t, f, a) ==
  /\ pc[c] = "new"
  /\ pc' = [pc EXCEPT ![c] = where]
  /\ req' = [req EXCEPT ![c] = [session |-> s, token |-> t, tool |-> f, arg |-> a]]
  /\ UNCHANGED <<now, limiter, session, keys, telemetry, history>>

\* A request with a bearer comes in on a session: verify_token awaits the
\* signing key.
Send(c, s, t, f, a) == session[s] # Nobody /\ Asks(c, "verify", s, t, f, a)

\* A call without HTTP.
CallLocally(c, f, a) == Asks(c, "queued", Nobody, Nobody, f, a)

\* 401, 403 or 404 for a token that has expired, lacks the scope of the
\* endpoint, or is not of the session's principal; else on to the tool.
Verified(c) ==
  LET t == req[c].token
      ok == /\ Verifies(t, 0) /\ EndpointScope \in Claims[t].scopes
            /\ Principal(t) = Principal(session[req[c].session])
  IN  /\ pc[c] = "verify"
      /\ pc' = [pc EXCEPT ![c] = IF ok THEN "queued" ELSE "over"]
      /\ verified' = IF ok THEN [verified EXCEPT ![c] = now] ELSE verified
      /\ UNCHANGED <<now, limiter, session, keys, req, telemetry, passed>>

Subject(c) == IF AccessToken(c) = Nobody THEN Nobody ELSE Who(AccessToken(c))

\* require_scope
HasScope(c) ==
  \/ Scope[req[c].tool] = Nobody
  \/ AccessToken(c) # Nobody /\ Scope[req[c].tool] \in Claims[AccessToken(c)].scopes

\* rate_limited_tool: charge the caller, then ask for the scope in the
\* function's first line.
RateLimited(c) ==
  /\ pc[c] = "queued" /\ Guard[req[c].tool] = "limited"
  /\ \/ /\ Limiter!Admit(RateKey(c))
        /\ passed' = [passed EXCEPT ![c] = now]
        /\ IF HasScope(c) THEN LetsIn(c, Subject(c)) ELSE EndsAtOnce(c, Subject(c), "forbidden")
     \/ /\ Limiter!Refuse(RateKey(c))
        /\ EndsAtOnce(c, Subject(c), "rate_limited")
        /\ UNCHANGED passed
  /\ UNCHANGED <<session, keys, req, verified>>

\* cached_tool: not over HTTP; else an answer from the cache, or the function.
Cached(c) ==
  /\ pc[c] = "queued" /\ Guard[req[c].tool] = "cached"
  /\ IF AccessToken(c) # Nobody
     THEN EndsAtOnce(c, Subject(c), "forbidden")
     ELSE EndsAtOnce(c, Nobody, "ok") \/ LetsIn(c, Nobody)
  /\ UNCHANGED <<now, limiter, session, keys, req, history>>

\* auth_tool with APIKeyAuth, whose authenticate() awaits nothing.
KeyAsked(c) ==
  LET k == req[c].arg
      f == req[c].tool
  IN  /\ pc[c] = "queued" /\ Guard[f] = "api_key"
      /\ IF keys[k] = Nobody \/ ~keys[k].active THEN EndsAtOnce(c, Nobody, "unauthorized")
         ELSE IF Scope[f] \in keys[k].scopes \cup {Nobody} THEN LetsIn(c, k)
         ELSE EndsAtOnce(c, k, "forbidden")
      /\ UNCHANGED <<now, limiter, session, keys, req, history>>

\* auth_tool with JWTAuth: it awaits the signing key ...
TokenAsked(c) ==
  /\ pc[c] = "queued" /\ Guard[req[c].tool] = "jwt"
  /\ pc' = [pc EXCEPT ![c] = "signing"]
  /\ Enters(c)
  /\ UNCHANGED <<now, limiter, session, keys, req, attrs, spans, who, ended, history>>

\* ... and then decodes the token and checks the scope.
TokenChecked(c) ==
  LET t == req[c].arg
      f == req[c].tool
  IN  /\ pc[c] = "signing"
      /\ IF ~Verifies(t, Leeway)
         THEN Annotates(c, Nobody) /\ Closes(c, "unauthorized") /\ Exits(c)
         ELSE /\ Annotates(c, Who(t))
              /\ IF Scope[f] \in Claims[t].scopes \cup {Nobody}
                 THEN RunsBody(c) /\ UNCHANGED ctx
                 ELSE Closes(c, "forbidden") /\ Exits(c)
      /\ UNCHANGED <<now, limiter, session, keys, req, history>>

\* The function returns; or it raises or is cancelled.
Ends(c, outcome) ==
  /\ pc[c] = "body"
  /\ UNCHANGED <<now, limiter, session, keys, req, attrs, who, history>>
  /\ Closes(c, outcome) /\ Exits(c)

\* The client goes away before the function is called.
Leaves(c) ==
  /\ \/ /\ pc[c] \in {"verify", "queued"}
        /\ pc' = [pc EXCEPT ![c] = "over"]
        /\ UNCHANGED <<ctx, attrs, spans, ended>>
     \/ /\ pc[c] = "signing"
        /\ UNCHANGED attrs
        /\ Closes(c, "error") /\ Exits(c)
  /\ UNCHANGED <<now, limiter, session, keys, req, who, history>>

\* register_key and revoke_key
Register(k, S) ==
  /\ keys' = [keys EXCEPT ![k] = [scopes |-> S, active |-> TRUE]]
  /\ UNCHANGED <<now, limiter, session, pc, req, telemetry, history>>

Revoke(k) ==
  /\ keys[k] # Nobody
  /\ keys' = [keys EXCEPT ![k].active = FALSE]
  /\ UNCHANGED <<now, limiter, session, pc, req, telemetry, history>>

Tick ==
  /\ now < MaxTime
  /\ Limiter!Pass
  /\ UNCHANGED <<session, keys, pc, req, telemetry, history>>

Next ==
  \/ \E s \in Sessions, t \in Tokens : Initialize(s, t)
  \/ \E c \in Calls :
       \/ \E f \in Tools : \E a \in Args[f] :
            \/ CallLocally(c, f, a)
            \/ \E s \in Sessions, t \in Tokens : Send(c, s, t, f, a)
       \/ Verified(c) \/ RateLimited(c) \/ Cached(c) \/ KeyAsked(c)
       \/ TokenAsked(c) \/ TokenChecked(c) \/ Leaves(c)
       \/ \E outcome \in {"ok", "error"} : Ends(c, outcome)
  \/ \E k \in ApiKeys : Revoke(k) \/ \E S \in SUBSET Scopes \ {{}} : Register(k, S)
  \/ Tick

Spec == Init /\ [][Next]_vars

-----------------------------------------------------------------------------
(* Properties                                                              *)

\* Every call that reached its wrapper leaves one span, in the order in which
\* the calls end, with its own caller and its own outcome, however the calls
\* interleave at their awaits; only the oldest are dropped.
SpansTell ==
  spans = LastOf([i \in DOMAIN ended |->
                    [name |-> FuncName[req[ended[i].call].tool], subject |-> who[ended[i].call],
                     outcome |-> ended[i].outcome]], MaxSpans)

\* The calls that share a budget: of tools whose functions have one name, and
\* of one principal, or local ones that pass one id.
SameCaller(c, d) ==
  /\ FuncName[req[c].tool] = FuncName[req[d].tool]
  /\ IF req[c].token = Nobody
     THEN req[d].token = Nobody /\ req[c].arg = req[d].arg
     ELSE req[d].token # Nobody /\ Principal(req[c].token) = Principal(req[d].token)

\* The calls of the caller of c, of tools with this function name, that passed
\* the limiter within the window.
Charged(c) ==
  {d \in Calls : passed[d] >= 0 /\ passed[d] > now - Window /\ SameCaller(c, d)}

\* Whatever tokens and sessions a caller uses and whatever it passes as its
\* id, no more than max_calls of its calls of the tools with one function name
\* pass within a window.
BudgetPerCaller ==
  \A c \in Calls : req[c] # Nobody => Cardinality(Charged(c)) <= MaxCalls

\* Nobody is refused for what others have spent: not those of another issuer
\* with the same subject, nor a client whose id is somebody's subject.  A
\* caller is refused only when its own calls of the tools that share their
\* function's name with this one have used the budget up.
RefusedForOwn ==
  [][ \A c \in Calls :
        ended' = Append(ended, [call |-> c, outcome |-> "rate_limited"])
          => Cardinality(Charged(c)) >= MaxCalls ]_vars

\* The bearer of call c was good when the request was verified: it had not
\* expired, had the scope of the endpoint, and was of the principal the
\* session belongs to.
Vouched(c) ==
  LET t == req[c].token
  IN  /\ verified[c] >= 0 /\ verified[c] < Claims[t].exp
      /\ EndpointScope \in Claims[t].scopes
      /\ Principal(t) = Principal(session[req[c].session])

\* What the guard of the tool asks of the credential of this very call, and
\* not of that of an earlier request of the session, a former registration or
\* a revoked key.  A token or key passed as an argument must be good now.
GuardAllows(c) ==
  LET f == req[c].tool
      a == req[c].arg
  IN  CASE Guard[f] = "limited" ->
             \/ Scope[f] = Nobody
             \/ req[c].token # Nobody /\ Scope[f] \in Claims[req[c].token].scopes
        [] Guard[f] = "cached" -> req[c].token = Nobody
        [] Guard[f] = "jwt" ->
             now < Claims[a].exp + Leeway /\ Scope[f] \in Claims[a].scopes \cup {Nobody}
        [] Guard[f] = "api_key" ->
             keys[a] # Nobody /\ keys[a].active /\ Scope[f] \in keys[a].scopes \cup {Nobody}

\* A function behind a guard is called over HTTP only for a bearer that was
\* good when this request was verified (it may have expired since, in the
\* queue), and in any case only for what the guard allows at the moment of the
\* call, whatever was revoked, registered, refreshed or has expired since the
\* call came in.
BodyIsAllowed ==
  [][ \A c \in Calls : pc[c] # "body" /\ pc'[c] = "body" =>
        /\ GuardAllows(c)
        /\ req[c].token # Nobody => Vouched(c) ]_vars
=============================================================================
