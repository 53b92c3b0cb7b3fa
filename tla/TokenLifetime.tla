--------------------------- MODULE TokenLifetime ---------------------------
(***************************************************************************)
(* The registry tokens that are out (auth/jwt.go), through the restarts of *)
(* Startup.  Issuer.Mint signs an access decision that was made a moment   *)
(* before, with claims nbf and exp; from then on the auth service has no   *)
(* part in it: what ends the access is the registry's own clock.           *)
(*                                                                         *)
(* One client is enough, for tokens do not influence each other; "due" is  *)
(* what TokenHandler would decide for it, which administrators change.  A  *)
(* point in time is its distance from now, so that Tick moves them all.    *)
(***************************************************************************)
EXTENDS Startup, Integers

CONSTANTS
  TTL,       \* TokenConfig.TTL, TOKEN_TTL
  Leeway,    \* defaultNBFLeeway
  Grace,     \* external: what the registry adds to both ends of a token's time
  MaxDelay,  \* bound on the time from the decision to the signature
  Skews      \* by how much the registry's clock may be ahead of auth's

ASSUME LifetimeAssumption ==
  /\ TTL \in Nat \ {0} /\ Leeway \in Nat /\ Grace \in Nat /\ MaxDelay \in Nat
  /\ Skews \subseteq Int

VARIABLES
  skew,      \* external: the difference of the two clocks
  due,       \* is the client entitled to its access?
  lapse,     \* history: for how long it has not been
  request,   \* the client's token request: its replica, and how long ago the decision was
  token      \* the token the client holds

lifetime == <<skew, due, lapse, request, token>>
lifetimeVars == <<vars, lifetime>>

\* Beyond this everything is in the past.
Horizon == TTL + Leeway + Grace + Grace + MaxDelay + 2
Age  == 0..Horizon
Time == -Horizon..Horizon

Token   == [key : KeyIds, cert : KeyIds, nbf : Time, exp : Time, age : Age]
Request == [replica : Replicas, age : 0..MaxDelay]

ASSUME NullIsNoToken == NULL \notin Token \cup Request

LifetimeTypeOK ==
  /\ TypeOK
  /\ skew \in Skews /\ due \in BOOLEAN /\ lapse \in Age
  /\ due => lapse = 0
  /\ request \in Request \cup {NULL} /\ token \in Token \cup {NULL}
  /\ request # NULL => pc[request.replica] = "serving"

LifetimeInit ==
  /\ Init
  /\ skew \in Skews
  /\ due = FALSE /\ lapse = Horizon
  /\ request = NULL /\ token = NULL

(***************************************************************************)
(* GET /token: the decision, and then the signature.                       *)
(***************************************************************************)
Decide(r) ==
  /\ pc[r] = "serving" /\ request = NULL /\ due
  /\ request' = [replica |-> r, age |-> 0]
  /\ UNCHANGED <<vars, skew, due, lapse, token>>

BUG_Mint_LateExpiry ==   \* the leeway is added to both ends
  /\ request # NULL
  /\ LET i == issuer[request.replica]
     IN token' = [key |-> i.key, cert |-> i.cert, nbf |-> -Leeway, exp |-> TTL + Leeway, age |-> 0]
  /\ request' = NULL
  /\ UNCHANGED <<vars, skew, due, lapse>>

BUG_Mint_NoLeeway ==   \* nbf is now
  /\ request # NULL
  /\ LET i == issuer[request.replica]
     IN token' = [key |-> i.key, cert |-> i.cert, nbf |-> 0, exp |-> TTL, age |-> 0]
  /\ request' = NULL
  /\ UNCHANGED <<vars, skew, due, lapse>>

\* "age" is history: the time since the signature.
Mint ==
  /\ request # NULL
  /\ LET i == issuer[request.replica]
     IN token' = [key |-> i.key, cert |-> i.cert, nbf |-> -Leeway, exp |-> TTL, age |-> 0]
  /\ request' = NULL
  /\ UNCHANGED <<vars, skew, due, lapse>>

\* The client gives up, or signing fails.
Drop ==
  /\ request # NULL
  /\ request' = NULL
  /\ UNCHANGED <<vars, skew, due, lapse, token>>

\* A user is enabled or disabled, a token revoked, a rule or a member added or
\* taken away.
Administrate ==
  /\ due' = ~due /\ lapse' = 0
  /\ UNCHANGED <<vars, skew, request, token>>

later(age)   == IF age = Horizon THEN Horizon ELSE age + 1
earlier(t)   == IF t = -Horizon THEN -Horizon ELSE t - 1

Tick ==
  /\ request # NULL => request.age < MaxDelay
  /\ lapse' = IF due THEN 0 ELSE later(lapse)
  /\ request' = IF request = NULL THEN NULL ELSE [request EXCEPT !.age = @ + 1]
  /\ token' = IF token = NULL THEN NULL
              ELSE [token EXCEPT !.nbf = earlier(@), !.exp = earlier(@), !.age = later(@)]
  /\ UNCHANGED <<vars, skew, due>>

\* A replica that goes down takes its requests with it.
Process ==
  /\ Next
  /\ request' = IF request # NULL /\ pc'[request.replica] # "serving" THEN NULL ELSE request
  /\ UNCHANGED <<skew, due, lapse, token>>

LifetimeNext ==
  \/ Process
  \/ \E r \in Replicas : Decide(r)
  \/ Mint \/ Drop \/ Administrate \/ Tick

LifetimeSpec ==
  /\ LifetimeInit /\ [][LifetimeNext]_lifetimeVars
  /\ \A r \in Replicas : WF_vars(main(r) /\ UNCHANGED <<registry, crashes>>)

-----------------------------------------------------------------------------
\* External: the registry takes a token that its certificate has signed, by its
\* own clock and with a leeway of its own.
Accepts(t) ==
  /\ registry # NULL /\ t.cert = registry /\ t.key = registry
  /\ t.nbf - Grace =< skew /\ skew =< t.exp + Grace

\* Nothing revokes a token, but it ends: whoever the registry still lets in was
\* entitled to it no longer ago than the token lifetime, the length of one request
\* and the registry's grace, give or take the difference of the clocks.
AccessLapses ==
  token # NULL /\ Accepts(token) => lapse =< TTL + MaxDelay + Grace - skew

\* Until then it is good: from the moment of the signature, although the
\* registry's clock may be behind by both leeways, and through every crash and
\* restart of the auth service and of the registry.
TokensLast ==
  token # NULL /\ registry # NULL /\ -(Leeway + Grace) =< skew
    => (token.age + skew =< TTL + Grace => Accepts(token))
=============================================================================
