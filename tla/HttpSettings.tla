---------------------------- MODULE HttpSettings ----------------------------
(***************************************************************************)
(* How the HTTP gateway is configured and started: the settings resolved   *)
(* from the environment or from keyword arguments (framework/http_auth.py), *)
(* create_server and the command line (gateway/app.py).                    *)
(*                                                                         *)
(* A host is a name, maybe in brackets.  A URL is known by what the checks *)
(* find in it, a list of hosts by its members, some of them with a star;   *)
(* hostsflag and originsflag are the keywords hosts_configured and         *)
(* origins_configured.                                                     *)
(***************************************************************************)
EXTENDS Naturals, FiniteSets

CONSTANTS Requests   (* the configurations that are tried                  *)

VARIABLES
  request,   (* what is asked for                                          *)
  answer,    (* what came of it                                            *)
  altered    (* history: what the program did to the lists in between      *)

vars == <<request, answer, altered>>

\* The names a host can have, "" when it is blank.
LoopbackIPs == {"127.0.0.1", "::1", "::ffff:127.0.0.1"}
IPs == LoopbackIPs \cup {"0.0.0.0", "::", "203.0.113.7"}
Unset == "unset"
NoList == {Unset}
Open == {Unset, ""}    \* not set, or set to nothing
Wild == {"*", "*.example.com"}

IsLoopbackBind(h) == h.name \in LoopbackIPs \cup {"localhost"}

\* Brackets are taken off an address, and stay on anything else.
NormalizeBindHost(h) == [h EXCEPT !.brackets = @ /\ h.name \notin IPs]

\* The SDK's own aliases and the bind itself, with any port.
LoopbackNames == {"127.0.0.1", "localhost", "::1"}
Defaults(h) == LoopbackNames \cup {h.name}

UrlOK(u) == u \notin {"not a url", "with userinfo", "with fragment"}

Refuse(why) == [outcome |-> "refused", why |-> why]

\* A value of the environment, and what it is when it is absent.
Or(value, default) == IF value = Unset THEN default ELSE value

-----------------------------------------------------------------------------
(* HttpServerSettings.validate                                             *)

\* Mutant: the settings are trusted to be those that were resolved.
InvalidURLs(s) == ~UrlOK(s.issuer) \/ ~UrlOK(s.resource)

Invalid(s) ==
  \/ s.host.name = ""
  \/ s.port \in {"too high", "bool"}
  \/ ~UrlOK(s.issuer) \/ ~UrlOK(s.resource)
  \/ s.deploy # ~IsLoopbackBind(s.host)
  \/ s.deploy /\ ~s.public
  \/ ~s.protected
  \/ s.deploy /\ (s.hosts = {} \/ s.hosts \cap Wild # {})
  \/ s.sdkhosts # s.hosts \/ s.sdkorigins # s.origins

-----------------------------------------------------------------------------
(* resolve_http_server_settings                                            *)

\* hosts_configured and origins_configured: what the keyword says, and without
\* it whether the environment variable is there, also as "".
Configured(r, flag, list) == flag = "yes" \/ (flag = Unset /\ r.way = "environ" /\ list # NoList)

\* Mutant: an empty list counts as not configured.
ListOrEmptied(configured, list, default) ==
  IF ~configured \/ list \in {NoList, {}} THEN default ELSE list

\* The list, if it counts as configured: an empty one stays empty, and one that
\* was only announced is empty too.  A list that does not count is not looked at.
ListOr(configured, list, default) ==
  IF ~configured THEN default ELSE IF list = NoList THEN {} ELSE list

\* No exact list of hosts was configured.
NotExact(configured, list) == ~configured \/ list \in {NoList, {}} \/ list \cap Wild # {}

\* A missing value has its default; a bind that is not loopback needs the
\* opt-in, both URLs and the hosts, checked in this order, and no default.
Resolve(r) ==
  LET host == NormalizeBindHost([r.host EXCEPT !.name = Or(@, "127.0.0.1")])
      deploy == ~IsLoopbackBind(host)
      named == Configured(r, r.hostsflag, r.hosts)
      hosts == ListOr(named, r.hosts, IF deploy THEN {} ELSE Defaults(host))
      origins == ListOr(Configured(r, r.originsflag, r.origins), r.origins,
                        IF deploy THEN {} ELSE Defaults(host))
      settings ==
        [outcome |-> "settings", host |-> host, port |-> Or(r.port, "8000"),
         resource |-> IF r.resource \notin Open THEN r.resource
                      ELSE IF host.brackets THEN "not a url" ELSE "of the bind",
         issuer |-> IF r.issuer \in Open THEN "local" ELSE r.issuer,
         deploy |-> deploy, hosts |-> hosts, origins |-> origins, public |-> r.public,
         protected |-> TRUE, sdkhosts |-> hosts, sdkorigins |-> origins]
  IN  IF r.port = "text" THEN Refuse("port")
      ELSE IF deploy /\ ~r.public THEN Refuse("public")
      ELSE IF deploy /\ {r.issuer, r.resource} \cap Open # {} THEN Refuse("urls")
      ELSE IF deploy /\ NotExact(named, r.hosts) THEN Refuse("hosts")
      ELSE IF Invalid(settings) THEN Refuse("invalid") ELSE settings

-----------------------------------------------------------------------------
(* create_server and main                                                  *)

\* JWTAuth takes a secret or a JWKS, and one of them.
KeysWrong(r) == r.secret = r.jwks

Init == request \in Requests /\ answer = [outcome |-> "none"] /\ altered = {}

\* The settings, from either source.
Configure ==
  /\ answer.outcome = "none"
  /\ answer' = Resolve(request)
  /\ UNCHANGED <<request, altered>>

\* The fields are frozen, their lists and the SDK's object are not: a program
\* that resolved its settings itself may alter them before create_server.
Alter(field, value) ==
  /\ answer.outcome = "settings" /\ request.way = "keywords" /\ field \notin altered
  /\ answer' = [answer EXCEPT ![field] = value]
  /\ altered' = altered \cup {field}
  /\ UNCHANGED request

\* --print-demo-token: a token signed with the secret, and no server.
PrintDemoToken ==
  /\ answer.outcome = "settings" /\ request.way = "environ" /\ request.token
  /\ answer' = IF ~request.secret \/ request.jwks THEN Refuse("token")
               ELSE [answer EXCEPT !.outcome = "token"]
  /\ UNCHANGED <<request, altered>>

\* create_server validates again, makes the verifier, and the server runs with
\* the settings.
Serve ==
  /\ answer.outcome = "settings" /\ ~(request.way = "environ" /\ request.token)
  /\ answer' = IF KeysWrong(request) \/ Invalid(answer) THEN Refuse("keys")
               ELSE [answer EXCEPT !.outcome = "serves"]
  /\ UNCHANGED <<request, altered>>

Next ==
  \/ Configure \/ PrintDemoToken \/ Serve
  \/ \E list \in {"hosts", "sdkhosts", "sdkorigins"} : Alter(list, {"*"})
  \/ Alter("protected", FALSE)

Spec == Init /\ [][Next]_vars

-----------------------------------------------------------------------------
(* Properties                                                              *)

Serves == answer.outcome = "serves"
Reachable == answer.host.name \notin LoopbackIPs \cup {"localhost"}

\* A server that runs is as guarded as its bind asks for, whichever way it was
\* configured and whatever was altered: reachable from elsewhere only when that
\* was asked for by name, with an issuer, a resource URL and hosts that are all
\* exact; with the SDK's protection on; and with one kind of key.
\* (resolve_http_server_settings, validate, create_server)
BindIsGuarded ==
  Serves =>
    /\ answer.protected /\ request.secret # request.jwks
    /\ Reachable => /\ request.public
                    /\ {request.issuer, request.resource} \cap Open = {}
                    /\ answer.sdkhosts # {} /\ answer.sdkhosts \cap Wild = {}

\* Unless the program alters them, the SDK checks against the lists of the
\* environment, and of the keywords when they come with their flag, also the
\* empty ones; a list announced by its flag and not given lets nobody in; and
\* what was not configured lets in the loopback names and the bind, or, when
\* others can reach the server, no origin at all: a server that others reach
\* always has the hosts it was given.  (resolve_http_server_settings)
ListsAreKept ==
  Serves /\ altered = {} =>
    LET stated(flag) == flag = "yes" \/ (request.way = "environ" /\ flag = Unset)
        hosts == stated(request.hostsflag)
        origins == stated(request.originsflag)
    IN  /\ hosts /\ request.hosts # NoList => answer.sdkhosts = request.hosts
        /\ origins /\ request.origins # NoList => answer.sdkorigins = request.origins
        /\ request.hostsflag = "yes" /\ request.hosts = NoList => answer.sdkhosts = {}
        /\ request.originsflag = "yes" /\ request.origins = NoList => answer.sdkorigins = {}
        /\ ~hosts => answer.sdkhosts = Defaults(answer.host)
        /\ ~origins => answer.sdkorigins = IF Reachable THEN {} ELSE Defaults(answer.host)
        /\ Reachable => request.hosts # NoList /\ answer.sdkhosts = request.hosts
=============================================================================
