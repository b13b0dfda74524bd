----------------------------- MODULE MCGateway -----------------------------
(***************************************************************************)
(* Instances of Gateway for TLC.  alice's old token writes and expires     *)
(* first, her new one only reads; a client of the same issuer is named     *)
(* alice too, and so is a subject of another issuer.  purge is registered  *)
(* under a name of its own, with a function that is named like that of     *)
(* cancel, and asks for no scope.                                          *)
(***************************************************************************)
EXTENDS Gateway, TLC

CONSTANTS c1, c2, old, new, client, foreign, alice, acme, globex, key,
          cancel, purge, search, fetch, report, read, write

MCClaims ==
     old :> [iss |-> acme, sub |-> alice, client |-> alice, scopes |-> {read, write}, exp |-> 1]
  @@ new :> [iss |-> acme, sub |-> alice, client |-> alice, scopes |-> {read}, exp |-> 2]
  @@ client :> [iss |-> acme, sub |-> Nobody, client |-> alice, scopes |-> {read, write}, exp |-> 2]
  @@ foreign :> [iss |-> globex, sub |-> alice, client |-> alice, scopes |-> {read}, exp |-> 2]

MCName == [f \in Tools |-> IF f = purge THEN cancel ELSE f]
MCGuard == cancel :> "limited" @@ purge :> "limited" @@ search :> "cached"
             @@ fetch :> "jwt" @@ report :> "api_key"
MCScope == cancel :> write @@ purge :> Nobody @@ search :> Nobody @@ fetch :> write @@ report :> read
MCArgs == cancel :> {alice, Nobody} @@ purge :> {alice} @@ search :> {Nobody}
            @@ fetch :> {old} @@ report :> {key}
=============================================================================
