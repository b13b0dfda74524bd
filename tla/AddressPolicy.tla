--------------------------- MODULE AddressPolicy ---------------------------
(***************************************************************************)
(* Which addresses outbound requests go to (framework/net_safety.py), with *)
(* its two users: the scraper connects to the address that was checked,    *)
(* the A2A webhook discards it and connects by the name, which is looked   *)
(* up again.                                                               *)
(***************************************************************************)
EXTENDS Naturals, FiniteSets, Sequences, Functions

CONSTANTS
  Hosts,        (* the host of a URL; "" when there is none                *)
  Schemes,
  Lookups,      (* what a lookup answers: sequences of addresses           *)
  Global,       (* is_global                                               *)
  Unicast,      (* neither multicast nor a site-local IPv6 address         *)
  Embedded,     (* Embedded[a]: the IPv4 address in a mapped, translated   *)
                (* or 6to4 address a                                       *)
  Calls         (* requests under way                                      *)

Unresolved == <<"unresolved">>

VARIABLES
  dns,       (* dns[host]: what a lookup answers now                       *)
  calls      (* calls[c]: its user and host, the addresses it was checked  *)
             (* on and the one it connected to                             *)

vars == <<dns, calls>>

Idle == [stage |-> "idle"]

Init ==
  /\ dns \in [Hosts \ {""} -> Lookups \cup {Unresolved}]
  /\ calls = [c \in Calls |-> Idle]

DnsChanges(host, answer) ==
  dns' = [dns EXCEPT ![host] = answer] /\ UNCHANGED calls

-----------------------------------------------------------------------------
(* net_safety                                                              *)

\* An IPv6 address that embeds an IPv4 address is judged by both.
IsForbidden(ip) ==
  LET address == IF ip \in DOMAIN Embedded THEN Embedded[ip] ELSE ip
  IN  ip \notin Global \/ address \notin Global \/ address \notin Unicast

\* Mutant: the first address of the answer is enough.
RefusesFirst(answer) == answer = Unresolved \/ answer = <<>> \/ IsForbidden(Head(answer))

\* One forbidden address is enough to refuse the name.
Refuses(answer) ==
  answer = Unresolved \/ answer = <<>> \/ \E i \in DOMAIN answer : IsForbidden(answer[i])

\* resolve_public_ip: the URL is refused, or has one address to connect to.
ResolvePublicIp(c, user, scheme, host) ==
  /\ calls[c] = Idle
  /\ calls' = [calls EXCEPT ![c] =
       IF scheme \notin {"http", "https"} \/ host = "" THEN [stage |-> "refused"]
       ELSE IF Refuses(dns[host]) THEN [stage |-> "refused"]
       ELSE [stage |-> "checked", user |-> user, host |-> host, checked |-> dns[host]]]
  /\ UNCHANGED dns

-----------------------------------------------------------------------------
(* The users                                                               *)

\* steady is history: the name still has the addresses it was checked on.
Connects(c, ip) ==
  calls' = [calls EXCEPT ![c] = [stage |-> "connected", user |-> @.user, to |-> ip,
                                 steady |-> dns[@.host] = @.checked]]

\* _safe_get: the request is made to the address that was returned.
ConnectPinned(c) ==
  /\ calls[c].stage = "checked" /\ calls[c].user = "scraper"
  /\ Connects(c, Head(calls[c].checked))
  /\ UNCHANGED dns

\* _notify: the request is made to the name, and any of its addresses may do.
ConnectByName(c) ==
  /\ calls[c].stage = "checked" /\ calls[c].user = "webhook"
  /\ dns[calls[c].host] # Unresolved
  /\ \E ip \in Range(dns[calls[c].host]) : Connects(c, ip)
  /\ UNCHANGED dns

\* A call ends, with a connection or without.
End(c) ==
  /\ calls[c] # Idle
  /\ calls' = [calls EXCEPT ![c] = Idle] /\ UNCHANGED dns

Next ==
  \/ \E h \in Hosts \ {""}, a \in Lookups \cup {Unresolved} : DnsChanges(h, a)
  \/ \E c \in Calls :
       \/ \E u \in {"scraper", "webhook"}, s \in Schemes, h \in Hosts : ResolvePublicIp(c, u, s, h)
       \/ ConnectPinned(c) \/ ConnectByName(c) \/ End(c)

Spec == Init /\ [][Next]_vars

-----------------------------------------------------------------------------
(* Properties                                                              *)

\* Where a packet to the address ends up: at the address, or at the one in it.
Reached(ip) == IF ip \in DOMAIN Embedded THEN {ip, Embedded[ip]} ELSE {ip}

\* What the scraper connects to is a public unicast address, and so is the IPv4
\* address in it, whatever the name resolves to by then; and as long as no name
\* changes hands, what the webhook connects to is one as well.
\* (resolve_public_ip, _safe_get, _notify)
ConnectionsArePublic ==
  \A c \in Calls : calls[c].stage = "connected" /\ (calls[c].user = "scraper" \/ calls[c].steady) =>
    Reached(calls[c].to) \subseteq Global \cap Unicast
=============================================================================
