---------------------------- MODULE TokenService ----------------------------
(***************************************************************************)
(* GET /token (auth.TokenHandler): clients ask for a registry token while  *)
(* administrators write to the store.  A request reads the store up to     *)
(* four times, in separate statements:                                     *)
(*                                                                         *)
(*   idle --> user --> tokens --> groups --> rules --> done --> idle       *)
(*               \________________/  ^                                     *)
(*   idle ---------------------------------> rules   (no credentials)      *)
(*                                                                         *)
(* History variables record, per request, what was true of the store while *)
(* it ran, so that what it answers can be compared with that.              *)
(***************************************************************************)
EXTENDS Store, Acl

CONSTANTS
  Clients,        \* the token requests that run at once
  Repositories,
  Requests        \* the scope lists clients send, as sets (bounds TLC's runs)

Scope == [type : {"repository"}, name : Repositories,
          actions : SUBSET {"pull", "push", "other"}]

ASSUME TokenServiceAssumption == Requests \subseteq SUBSET Scope

(***************************************************************************)
(* What a client sends as Basic credentials: a username with a password,   *)
(* or with the string prt_<id>_<secret>, here the pair of the tokens that  *)
(* <id> and <secret> belong to.                                            *)
(***************************************************************************)
APITokens   == TokenIds \X TokenIds
Credentials == [username : Usernames, secret : Passwords \cup APITokens]

ASSUME CredentialsAssumption == NULL \notin Credentials

VARIABLES
  treq,     \* client -> what its request is doing
  ever,     \* client -> history: what held at some moment of its request
  always    \* client -> history: what held at every moment of its request

vars == <<users, tokens, groups, members, rules, treq, ever, always>>

Identity  == [anonymous : BOOLEAN, user : UserIds \cup {NULL}, groups : SUBSET GroupIds]
Anonymous == [anonymous |-> TRUE, user |-> NULL, groups |-> {}]
User(u)   == [anonymous |-> FALSE, user |-> u, groups |-> {}]

\* "fault" is history too: the store failed a call of this request.
TokenRequest ==
  [pc     : {"idle", "user", "tokens", "groups", "rules", "done"},
   cred   : Credentials \cup {NULL},   requested : SUBSET Scope,
   id     : Identity,                  access    : SUBSET Scope,
   status : {"none", "token", "unauthorized", "error"}, fault : BOOLEAN]

NoRequest == [pc |-> "idle", cred |-> NULL, requested |-> {}, id |-> Anonymous,
              access |-> {}, status |-> "none", fault |-> FALSE]

\* u can log in with the credentials c, as one state of the store has it: with
\* its password or with an active token of its own.
LogsIn(u, c) ==
  /\ c # NULL
  /\ IsUser(u) /\ users[u].username = c.username /\ users[u].active
  /\ \/ CheckPassword(users[u].hash, c.secret)
     \/ \E t \in ListAPITokensByUser(u) : tokens[t].active /\ c.secret = <<t, t>>

\* The facts of the store that a request with credentials c may rely on.
Facts == [logins : SUBSET UserIds, members : SUBSET (GroupIds \X UserIds),
          rules : SUBSET RuleRow]
FactsNow(c) == [logins |-> {u \in UserIds : LogsIn(u, c)},
                members |-> members, rules |-> ListACLRules]
EitherFacts(f, g) == [logins |-> f.logins \cup g.logins,
                      members |-> f.members \cup g.members, rules |-> f.rules \cup g.rules]
CommonFacts(f, g) == [logins |-> f.logins \cap g.logins,
                      members |-> f.members \cap g.members, rules |-> f.rules \cap g.rules]

TypeOK ==
  /\ StoreTypeOK
  /\ treq \in [Clients -> TokenRequest]
  /\ ever \in [Clients -> Facts] /\ always \in [Clients -> Facts]
  /\ \A c \in Clients :
       /\ treq[c].pc \in {"user", "tokens"} => treq[c].cred # NULL
       /\ treq[c].pc = "tokens" => /\ treq[c].cred.secret \in APITokens
                                   /\ treq[c].id.user \in UserIds

Init ==
  /\ EmptyDatabase
  /\ treq = [c \in Clients |-> NoRequest]
  /\ ever = [c \in Clients |-> FactsNow(NULL)]
  /\ always = [c \in Clients |-> FactsNow(NULL)]

at(c, pc)  == treq[c].pc = pc
Running(c) == treq[c].pc \notin {"idle", "done"}

\* Keeps the history variables: they collect from a request's first state to its
\* answer, and stand still until the answer is delivered.
Observe ==
  /\ ever' = [c \in Clients |->
       IF at(c, "idle") \/ at(c, "idle")' THEN FactsNow(treq[c].cred)'
       ELSE IF Running(c) THEN EitherFacts(ever[c], FactsNow(treq[c].cred)') ELSE ever[c]]
  /\ always' = [c \in Clients |->
       IF at(c, "idle") \/ at(c, "idle")' THEN FactsNow(treq[c].cred)'
       ELSE IF Running(c) THEN CommonFacts(always[c], FactsNow(treq[c].cred)') ELSE always[c]]

proceed(c, pc, id) == treq' = [treq EXCEPT ![c] = [@ EXCEPT !.pc = pc, !.id = id]]
answer(c, id, status, access, fault) ==
  treq' = [treq EXCEPT ![c] = [@ EXCEPT !.pc = "done", !.id = id, !.status = status,
                                        !.access = access, !.fault = fault]]
unauthorized(c) == answer(c, Anonymous, "unauthorized", {}, FALSE)

(***************************************************************************)
(* A request for this service arrives; one for another is a 401 at once.   *)
(* Secrets of tokens are not guessed: whoever presents one has been shown  *)
(* it, by the handler that stored the token.                               *)
(***************************************************************************)
Start(c) ==
  /\ at(c, "idle")
  /\ \E requested \in Requests :
       \/ treq' = [treq EXCEPT ![c] = [NoRequest EXCEPT !.pc = "rules",
                                                        !.requested = requested]]
       \/ \E cred \in Credentials :
            /\ cred.secret \in APITokens =>
                 \E t, s \in TokenIds : cred.secret = <<t, s>> /\ IsToken(t) /\ IsToken(s)
            /\ treq' = [treq EXCEPT ![c] = [NoRequest EXCEPT !.pc = "user", !.cred = cred,
                                                             !.requested = requested]]
  /\ UNCHANGED tables

BUG_GetUserByName_AnySecret(c) ==   \* the secret is not parsed as a token first
  /\ at(c, "user")
  /\ LET found == {u \in GetUserByUsername(treq[c].cred.username) : users[u].active}
     IN \/ found = {} /\ unauthorized(c)
        \/ \E u \in found : proceed(c, "tokens", User(u))
  /\ UNCHANGED tables

(***************************************************************************)
(* Authenticate: one read of the user; then, when the secret is not its    *)
(* password but has the form of a token, one read of its tokens.           *)
(***************************************************************************)
GetUserByName(c) ==
  /\ at(c, "user")
  /\ LET cred == treq[c].cred
         found == {u \in GetUserByUsername(cred.username) : users[u].active}
     IN \/ found = {} /\ unauthorized(c)
        \/ \E u \in found :
             \/ /\ CheckPassword(users[u].hash, cred.secret)
                /\ proceed(c, "groups", User(u))
             \/ /\ ~CheckPassword(users[u].hash, cred.secret)
                /\ IF cred.secret \in APITokens
                   THEN proceed(c, "tokens", User(u)) ELSE unauthorized(c)
  /\ UNCHANGED tables

BUG_authenticateAPIToken_Revoked(c) ==   \* token.Active is not looked at
  /\ at(c, "tokens")
  /\ LET u  == treq[c].id.user
         id == treq[c].cred.secret[1]
     IN IF id \in ListAPITokensByUser(u) /\ CheckPassword(tokens[id].hash, treq[c].cred.secret[2])
        THEN proceed(c, "groups", User(u))
        ELSE unauthorized(c)
  /\ UNCHANGED tables

authenticateAPIToken(c) ==
  /\ at(c, "tokens")
  /\ LET u  == treq[c].id.user
         id == treq[c].cred.secret[1]
         secret == treq[c].cred.secret[2]
     IN IF /\ id \in ListAPITokensByUser(u)
           /\ tokens[id].active
           /\ CheckPassword(tokens[id].hash, secret)
        THEN proceed(c, "groups", User(u))
        ELSE unauthorized(c)
  /\ UNCHANGED tables

BUG_ListGroups_Everyone(c) ==   \* the query forgets its WHERE
  /\ at(c, "groups")
  /\ proceed(c, "rules", [treq[c].id EXCEPT !.groups = GroupIds])
  /\ UNCHANGED tables

BUG_ListGroups_Dropped(c) ==   \* the result is not put into the identity
  /\ at(c, "groups")
  /\ proceed(c, "rules", treq[c].id)
  /\ UNCHANGED tables

ListGroups(c) ==
  /\ at(c, "groups")
  /\ proceed(c, "rules",
       [treq[c].id EXCEPT !.groups = ListGroupIDsForUser(treq[c].id.user)])
  /\ UNCHANGED tables

BUG_EvaluateRules_EmptyForAll(c) ==   \* an anonymous docker login gets a token
  /\ at(c, "rules")
  /\ LET id == treq[c].id
         access == Evaluate(id, ListACLRules, treq[c].requested)
     IN IF access = {} /\ treq[c].requested # {}
        THEN answer(c, id, "unauthorized", {}, FALSE)
        ELSE answer(c, id, "token", access, FALSE)
  /\ UNCHANGED tables

BUG_EvaluateRules_AnonymousOnly(c) ==   \* only anonymous clients are refused
  /\ at(c, "rules")
  /\ LET id == treq[c].id
         access == Evaluate(id, ListACLRules, treq[c].requested)
     IN IF access = {} /\ id.anonymous
        THEN answer(c, id, "unauthorized", {}, FALSE)
        ELSE answer(c, id, "token", access, FALSE)
  /\ UNCHANGED tables

\* The rules are read, evaluated, and the answer is sent.
EvaluateRules(c) ==
  /\ at(c, "rules")
  /\ LET id == treq[c].id
         access == Evaluate(id, ListACLRules, treq[c].requested)
     IN IF access = {} /\ (treq[c].requested # {} \/ id.anonymous)
        THEN answer(c, id, "unauthorized", {}, FALSE)
        ELSE answer(c, id, "token", access, FALSE)
  /\ UNCHANGED tables

\* A store call fails (or, at the end, signing does).  Authenticate's callers
\* cannot tell an error from wrong credentials.
StoreError(c) ==
  /\ Running(c)
  /\ answer(c, Anonymous, IF treq[c].pc \in {"user", "tokens"} THEN "unauthorized" ELSE "error",
            {}, TRUE)
  /\ UNCHANGED tables

\* The answer is delivered; or the client or the server goes away before that.
End(c) ==
  /\ ~at(c, "idle")
  /\ treq' = [treq EXCEPT ![c] = NoRequest]
  /\ UNCHANGED tables

Step(c) == \/ Start(c) \/ GetUserByName(c) \/ authenticateAPIToken(c)
           \/ ListGroups(c) \/ EvaluateRules(c) \/ StoreError(c) \/ End(c)

Administrate == Write(RuleInputs) /\ UNCHANGED treq

Next ==
  /\ Administrate \/ \E c \in Clients : Step(c)
  /\ Observe

Spec == Init /\ [][Next]_vars

-----------------------------------------------------------------------------
\* The identity a request runs as, in the groups that the facts f show it in.
With(id, f) == [id EXCEPT !.groups = {g \in GroupIds : <<g, id.user>> \in f.members}]

\* Authentication reads the user and then its tokens, and both may change in
\* between; yet whoever passes could log in at one single moment of the request.
\* (It rests on tokens never changing owner and never coming back to life.)
AuthenticatedByLogin ==
  \A c \in Clients :
    treq[c].pc \in {"groups", "rules", "done"} /\ ~treq[c].id.anonymous
      => treq[c].id.user \in ever[c].logins

\* A token grants nothing that the rules and the memberships of the time of the
\* request do not explain, whatever is changed meanwhile.  (Each was there at
\* some moment: groups are read before rules, so perhaps not at the same one.)
GrantsJustified ==
  \A c \in Clients :
    \A s \in treq[c].access :
      \E r \in treq[c].requested :
        /\ r.name = s.name
        /\ s.actions \subseteq Granted(With(treq[c].id, ever[c]), ever[c].rules, r)

\* A client is not refused what it was entitled to all through its request.
GrantsComplete ==
  \A c \in Clients :
    treq[c].pc = "done" /\ ~treq[c].fault =>
      \A id \in {User(u) : u \in always[c].logins}
                  \cup (IF treq[c].cred = NULL THEN {Anonymous} ELSE {}) :
        \A r \in treq[c].requested :
          LET due == Granted(With(id, always[c]), always[c].rules, r)
          IN due # {} => \E s \in treq[c].access : s.name = r.name /\ due \subseteq s.actions

\* "Authenticated clients with no repository scopes (docker login) get an
\* empty-access token", and nobody else gets an empty one (tokenhttp.go:55).
EmptyTokenOnlyForLogin ==
  \A c \in Clients :
    treq[c].status = "token" /\ treq[c].access = {}
      => treq[c].requested = {} /\ treq[c].id.user \in ever[c].logins
=============================================================================
