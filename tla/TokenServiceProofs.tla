------------------------- MODULE TokenServiceProofs -------------------------
(***************************************************************************)
(* Theorems about the token endpoint, for every number of requests and of  *)
(* writers beside them, and for every size of the tables.                  *)
(***************************************************************************)
EXTENDS TokenService, StoreProofs

-----------------------------------------------------------------------------
(***************************************************************************)
(* What the policy computes.                                               *)
(***************************************************************************)

\* More rules, or more groups, never take an action away.
LEMMA GrantedMonotone ==
  ASSUME NEW id, NEW more, more.anonymous = id.anonymous, more.user = id.user,
         id.groups \subseteq more.groups,
         NEW R, NEW S, R \subseteq S, NEW scope
  PROVE  Granted(id, R, scope) \subseteq Granted(more, S, scope)
<1>1. ASSUME NEW rule \in R, Applies(id, rule, scope.name)
      PROVE  rule \in S /\ Applies(more, rule, scope.name)
  BY <1>1 DEF Applies, subjectMatches
<1>2. grantedPush(id, R, scope.name) => grantedPush(more, S, scope.name)
  BY <1>1 DEF grantedPush
<1>3. grantedPull(id, R, scope.name) => grantedPull(more, S, scope.name)
  BY <1>1, <1>2 DEF grantedPull
<1> QED BY <1>2, <1>3 DEF Granted, grantedActions

\* A granted scope is a requested repository with the actions granted for it.
LEMMA EvaluateScope ==
  ASSUME NEW id, NEW R, NEW requested, NEW s \in Evaluate(id, R, requested)
  PROVE  \E r \in requested : /\ r.type = "repository"
                              /\ s = [type |-> r.type, name |-> r.name,
                                      actions |-> Granted(id, R, r)]
                              /\ Granted(id, R, r) # {}
BY DEF Evaluate

-----------------------------------------------------------------------------
(***************************************************************************)
(* Typing.                                                                 *)
(***************************************************************************)

LEMMA FactsTyped == ASSUME StoreTypeOK, NEW c PROVE FactsNow(c) \in Facts
<1>1. {u \in UserIds : LogsIn(u, c)} \in SUBSET UserIds
  OBVIOUS
<1>2. members \in SUBSET (GroupIds \X UserIds)
  BY DEF StoreTypeOK
<1>3. ListACLRules \in SUBSET RuleRow
  BY DEF ListACLRules, IsRule, StoreTypeOK
<1> QED BY <1>1, <1>2, <1>3 DEF FactsNow, Facts

\* An evaluated request grants scopes.
LEMMA EvaluateTyped ==
  ASSUME NEW id, NEW R, NEW requested \in SUBSET Scope
  PROVE  Evaluate(id, R, requested) \in SUBSET Scope
<1> SUFFICES ASSUME NEW s \in Evaluate(id, R, requested) PROVE s \in Scope
  OBVIOUS
<1>1. PICK r \in requested : s = [type |-> r.type, name |-> r.name,
                                  actions |-> Granted(id, R, r)]
  BY EvaluateScope
<1>2. Granted(id, R, r) \subseteq {"pull", "push", "other"}
  BY DEF Granted, grantedActions
<1> QED BY <1>1, <1>2 DEF Scope

\* What a step of one request does to it: the next state of the request is a
\* request, and one that waits for its tokens knows whose and which.
TypedRequest(r) ==
  /\ r \in TokenRequest
  /\ r.pc \in {"user", "tokens"} => r.cred # NULL
  /\ r.pc = "tokens" => r.cred.secret \in APITokens /\ r.id.user \in UserIds

LEMMA NoRequestTyped == TypedRequest(NoRequest)
BY DEF TypedRequest, NoRequest, TokenRequest, Identity, Anonymous

LEMMA StepTyped ==
  ASSUME TypeOK, NEW c \in Clients, Step(c)
  PROVE  /\ UNCHANGED tables
         /\ \E r : TypedRequest(r) /\ treq' = [treq EXCEPT ![c] = r]
<1> DEFINE old == treq[c]
<1> old \in TokenRequest
  BY DEF TypeOK
<1>1. ASSUME NEW pc \in {"groups", "rules"}, NEW id \in Identity
      PROVE  TypedRequest([old EXCEPT !.pc = pc, !.id = id])
  BY <1>1 DEF TypedRequest, TokenRequest
<1>2. ASSUME NEW id \in Identity, NEW access \in SUBSET Scope, NEW fault \in BOOLEAN,
             NEW status \in {"token", "unauthorized", "error"}
      PROVE  TypedRequest([old EXCEPT !.pc = "done", !.id = id, !.status = status,
                                      !.access = access, !.fault = fault])
  BY <1>2 DEF TypedRequest, TokenRequest
<1>3. Anonymous \in Identity /\ \A u \in UserIds : User(u) \in Identity
  BY DEF Anonymous, User, Identity
<1>4. ASSUME unauthorized(c)
      PROVE  \E r : TypedRequest(r) /\ treq' = [treq EXCEPT ![c] = r]
  BY <1>2, <1>3, <1>4 DEF unauthorized, answer
<1>5. ASSUME NEW u \in UserIds, proceed(c, "groups", User(u))
      PROVE  \E r : TypedRequest(r) /\ treq' = [treq EXCEPT ![c] = r]
  BY <1>1, <1>3, <1>5 DEF proceed
<1>6. CASE Start(c)
  <2>1. PICK requested \in Requests :
          \/ treq' = [treq EXCEPT ![c] = [NoRequest EXCEPT !.pc = "rules",
                                                           !.requested = requested]]
          \/ \E cred \in Credentials :
               treq' = [treq EXCEPT ![c] = [NoRequest EXCEPT !.pc = "user", !.cred = cred,
                                                             !.requested = requested]]
    BY <1>6 DEF Start
  <2>2. requested \in SUBSET Scope
    BY TokenServiceAssumption
  <2>3. TypedRequest([NoRequest EXCEPT !.pc = "rules", !.requested = requested])
    BY <2>2, NoRequestTyped DEF TypedRequest, TokenRequest
  <2>4. ASSUME NEW cred \in Credentials
        PROVE  TypedRequest([NoRequest EXCEPT !.pc = "user", !.cred = cred,
                                              !.requested = requested])
    BY <2>2, NoRequestTyped, CredentialsAssumption DEF TypedRequest, TokenRequest
  <2> QED BY <1>6, <2>1, <2>3, <2>4 DEF Start
<1>7. CASE GetUserByName(c)
  <2>1. CASE unauthorized(c)
    BY <1>4, <1>7, <2>1 DEF GetUserByName
  <2>2. CASE \E u \in UserIds : proceed(c, "groups", User(u))
    BY <1>5, <1>7, <2>2 DEF GetUserByName
  <2>3. ASSUME NEW u \in UserIds, IsUser(u), users[u].username = old.cred.username,
               old.cred.secret \in APITokens, proceed(c, "tokens", User(u))
        PROVE  \E r : TypedRequest(r) /\ treq' = [treq EXCEPT ![c] = r]
    <3> DEFINE r == [old EXCEPT !.pc = "tokens", !.id = User(u)]
    <3>1. treq' = [treq EXCEPT ![c] = r]
      BY <2>3 DEF proceed
    <3>2. old.cred # NULL
      BY <1>7 DEF GetUserByName, at, TypeOK
    <3>3. TypedRequest(r)
      BY <1>3, <2>3, <3>2 DEF TypedRequest, TokenRequest, User
    <3> QED BY <3>1, <3>3
  <2> QED BY <1>7, <2>1, <2>2, <2>3 DEF GetUserByName, GetUserByUsername
<1>8. CASE authenticateAPIToken(c)
  <2>1. old.id.user \in UserIds
    BY <1>8 DEF authenticateAPIToken, at, TypeOK
  <2> QED BY <1>4, <1>5, <1>8, <2>1 DEF authenticateAPIToken
<1>9. CASE ListGroups(c)
  <2>1. [old.id EXCEPT !.groups = ListGroupIDsForUser(old.id.user)] \in Identity
    BY DEF TokenRequest, Identity, ListGroupIDsForUser
  <2> QED BY <1>1, <1>9, <2>1 DEF ListGroups, proceed
<1>10. CASE EvaluateRules(c)
  <2>1. old.id \in Identity /\ Evaluate(old.id, ListACLRules, old.requested) \in SUBSET Scope
    BY EvaluateTyped DEF TokenRequest
  <2> QED BY <1>2, <1>10, <2>1 DEF EvaluateRules, answer
<1>11. CASE StoreError(c)
  BY <1>2, <1>3, <1>11 DEF StoreError, answer
<1>12. CASE End(c)
  BY <1>12, NoRequestTyped DEF End
<1> QED BY <1>6, <1>7, <1>8, <1>9, <1>10, <1>11, <1>12 DEF Step

LEMMA HistoryTyped ==
  ASSUME TypeOK, StoreTypeOK', Observe
  PROVE  ever' \in [Clients -> Facts] /\ always' \in [Clients -> Facts]
<1> SUFFICES ASSUME NEW c \in Clients
             PROVE  /\ EitherFacts(ever[c], FactsNow(treq[c].cred)') \in Facts
                    /\ CommonFacts(always[c], FactsNow(treq[c].cred)') \in Facts
                    /\ FactsNow(treq[c].cred)' \in Facts
  BY DEF Observe, TypeOK
<1>1. FactsNow(treq[c].cred)' \in Facts
  <2>1. {u \in UserIds : LogsIn(u, treq[c].cred)}' \in SUBSET UserIds
    OBVIOUS
  <2>2. members' \in SUBSET (GroupIds \X UserIds)
    BY DEF StoreTypeOK
  <2>3. ListACLRules' \in SUBSET RuleRow
    BY DEF ListACLRules, IsRule, StoreTypeOK
  <2> QED BY <2>1, <2>2, <2>3 DEF FactsNow, Facts
<1>2. ever[c] \in Facts /\ always[c] \in Facts
  BY DEF TypeOK
<1> QED BY <1>1, <1>2 DEF EitherFacts, CommonFacts, Facts

LEMMA TypeStep == ASSUME TypeOK, [Next]_vars PROVE TypeOK'
<1>1. CASE UNCHANGED vars
  BY <1>1 DEF vars, TypeOK, StoreTypeOK
<1>2. CASE Administrate /\ Observe
  <2>1. StoreTypeOK'
    BY <1>2, WritesTyped, StoreAssumption DEF Administrate, TypeOK
  <2> QED BY <1>2, <2>1, HistoryTyped DEF Administrate, TypeOK
<1>3. ASSUME NEW c \in Clients, Step(c), Observe PROVE TypeOK'
  <2>1. StoreTypeOK'
    BY <1>3, StepTyped DEF tables, TypeOK, StoreTypeOK
  <2>2. PICK r : TypedRequest(r) /\ treq' = [treq EXCEPT ![c] = r]
    BY <1>3, StepTyped
  <2> QED BY <1>3, <2>1, <2>2, HistoryTyped DEF TypedRequest, TypeOK
<1> QED BY <1>1, <1>2, <1>3 DEF Next

\* The tables, the requests and their histories keep their types.
THEOREM TypeCorrect == Spec => []TypeOK
<1>1. Init => TypeOK
  <2> SUFFICES ASSUME Init PROVE TypeOK
    OBVIOUS
  <2>1. StoreTypeOK
    BY DEF Init, EmptyDatabase, StoreTypeOK
  <2>2. FactsNow(NULL) \in Facts
    BY <2>1, FactsTyped
  <2> QED BY <2>1, <2>2, NoRequestTyped DEF Init, TypeOK, TypedRequest, NoRequest
<1> QED BY <1>1, TypeStep, PTL DEF Spec

-----------------------------------------------------------------------------
(***************************************************************************)
(* The history variable "ever".                                            *)
(***************************************************************************)
Within(f, g) == /\ f.logins \subseteq g.logins
                /\ f.members \subseteq g.members
                /\ f.rules \subseteq g.rules

\* While a request runs, "ever" gains what holds now and forgets nothing.
LEMMA EverCollects ==
  ASSUME TypeOK, Observe, NEW c \in Clients, ~at(c, "idle"), ~at(c, "idle")'
  PROVE  /\ Within(ever[c], ever'[c])
         /\ Running(c) => Within(FactsNow(treq[c].cred)', ever'[c])
<1>1. ever'[c] = IF Running(c) THEN EitherFacts(ever[c], FactsNow(treq[c].cred)') ELSE ever[c]
  BY DEF Observe
<1> QED BY <1>1 DEF Within, EitherFacts

\* A request's own step reads the tables and leaves them alone.
LEMMA EverReads ==
  ASSUME TypeOK, Observe, NEW c \in Clients, UNCHANGED tables, Running(c),
         treq'[c].cred = treq[c].cred, ~at(c, "idle")'
  PROVE  Within(FactsNow(treq[c].cred), ever'[c])
<1>1. FactsNow(treq[c].cred)' = FactsNow(treq[c].cred)
  BY DEF FactsNow, LogsIn, IsUser, ListAPITokensByUser, IsToken, ListACLRules, IsRule, tables
<1>2. ~at(c, "idle")
  BY DEF Running, at
<1> QED BY <1>1, <1>2, EverCollects

LEMMA EverMono ==
  ASSUME TypeOK, [Next]_vars, NEW c \in Clients, treq'[c] = treq[c], ~at(c, "idle")
  PROVE  Within(ever[c], ever'[c])
<1>1. CASE UNCHANGED vars
  BY <1>1 DEF vars, Within
<1>2. CASE Observe
  BY <1>2, EverCollects DEF at
<1> QED BY <1>1, <1>2 DEF Next

\* A step leaves every other request as it is.
LEMMA OneRequestMoves ==
  ASSUME TypeOK, [Next]_vars, NEW c \in Clients
  PROVE  treq'[c] = treq[c] \/ (Step(c) /\ Observe /\ UNCHANGED tables)
<1>1. ASSUME NEW d \in Clients, Step(d), d # c PROVE treq'[c] = treq[c]
  BY <1>1, StepTyped DEF TypeOK
<1>2. ASSUME Step(c) PROVE UNCHANGED tables
  BY <1>2, StepTyped
<1> QED BY <1>1, <1>2 DEF Next, Administrate, vars

LEMMA TokensStep ==
  ASSUME TypeOK, TokenSecrets, [Next]_vars
  PROVE  TokenSecrets' /\ TokensOnlyDie
<1>1. CASE UNCHANGED tables
  BY <1>1 DEF tables, TokenSecrets, TokensOnlyDie, IsToken
<1>2. CASE Write(RuleInputs)
  BY <1>2, TokenStep, StoreAssumption DEF TypeOK
<1> QED
  BY <1>1, <1>2, StepTyped DEF Next, Administrate, vars, tables

-----------------------------------------------------------------------------
(***************************************************************************)
(* Authentication.  Between the two reads of a login by token, the         *)
(* invariant remembers that the user was active at the first, so that the  *)
(* token, if it is alive at the second and was its user's, made the login  *)
(* possible then: a token never comes back to life or changes owner.       *)
(***************************************************************************)
Authenticated(c) ==
  treq[c].pc \in {"groups", "rules", "done"} /\ ~treq[c].id.anonymous
    => treq[c].id.user \in ever[c].logins

Issued(c) ==
  treq[c].pc \in {"user", "tokens"} /\ treq[c].cred.secret \in APITokens
    => IsToken(treq[c].cred.secret[1])

Vouched(c) ==
  treq[c].pc = "tokens" =>
    LET t == treq[c].cred.secret[1]
        u == treq[c].id.user
    IN treq[c].cred.secret[2] = t /\ tokens[t].user = u /\ tokens[t].active
         => u \in ever[c].logins

AuthInv == \A c \in Clients : Authenticated(c) /\ Issued(c) /\ Vouched(c)

LEMMA AuthStep == ASSUME TypeOK, TokenSecrets, AuthInv, [Next]_vars PROVE AuthInv'
<1> SUFFICES ASSUME NEW c \in Clients
             PROVE  (Authenticated(c) /\ Issued(c) /\ Vouched(c))'
  BY DEF AuthInv
<1> DEFINE old == treq[c]
           new == treq'[c]
<1> Authenticated(c) /\ Issued(c) /\ Vouched(c)
  BY DEF AuthInv
<1> old \in TokenRequest
  BY DEF TypeOK
<1>1. CASE new = old
  <2>1. CASE at(c, "idle")
    BY <1>1, <2>1 DEF at, Authenticated, Issued, Vouched
  <2>2. CASE ~at(c, "idle")
    <3>1. Within(ever[c], ever'[c])
      BY <1>1, <2>2, EverMono
    <3>2. TokensOnlyDie
      BY TokensStep
    <3>3. ASSUME old.cred.secret \in APITokens PROVE old.cred.secret[1] \in TokenIds
      BY <3>3 DEF APITokens
    <3>4. Authenticated(c)'
      BY <1>1, <3>1 DEF Authenticated, Within
    <3>5. Issued(c)'
      BY <1>1, <3>2, <3>3 DEF Issued, TokensOnlyDie
    <3>6. Vouched(c)'
      <4>1. CASE old.pc = "tokens"
        <5>1. old.cred.secret \in APITokens
          BY <4>1 DEF TypeOK
        <5> QED BY <1>1, <3>1, <3>2, <3>3, <4>1, <5>1 DEF Issued, Vouched, TokensOnlyDie, Within
      <4> QED BY <1>1, <4>1 DEF Vouched
    <3> QED BY <3>4, <3>5, <3>6
  <2> QED BY <2>1, <2>2
<1>2. CASE Step(c) /\ Observe /\ UNCHANGED tables
  <2> USE <1>2
  <2> UNCHANGED tokens
    BY DEF tables
  <2>1. ASSUME unauthorized(c) \/ StoreError(c) \/ End(c)
        PROVE  (Authenticated(c) /\ Issued(c) /\ Vouched(c))'
    <3>1. new.id = Anonymous /\ new.pc \notin {"user", "tokens"}
      <4>1. ASSUME NEW status, NEW fault, answer(c, Anonymous, status, {}, fault)
            PROVE  new.id = Anonymous /\ new.pc = "done"
        BY <4>1 DEF answer, TypeOK, TokenRequest
      <4>2. CASE unauthorized(c) \/ StoreError(c)
        BY <4>1, <4>2 DEF unauthorized, StoreError
      <4>3. CASE End(c)
        BY <4>3 DEF End, NoRequest, TypeOK
      <4> QED BY <2>1, <4>2, <4>3
    <3> QED BY <3>1 DEF Authenticated, Issued, Vouched, Anonymous
  <2>2. ASSUME NEW u \in UserIds, proceed(c, "groups", User(u)), u \in ever'[c].logins
        PROVE  (Authenticated(c) /\ Issued(c) /\ Vouched(c))'
    <3>1. new.id = User(u) /\ new.pc = "groups"
      BY <2>2 DEF proceed, TypeOK, TokenRequest
    <3> QED BY <2>2, <3>1 DEF Authenticated, Issued, Vouched, User
  <2>3. CASE Start(c)
    <3> DEFINE Shown(cred) ==
          cred.secret \in APITokens =>
            \E t, s \in TokenIds : cred.secret = <<t, s>> /\ IsToken(t) /\ IsToken(s)
    <3>1. PICK requested \in Requests :
            \/ treq' = [treq EXCEPT ![c] =
                          [NoRequest EXCEPT !.pc = "rules", !.requested = requested]]
            \/ \E cred \in Credentials :
                 /\ Shown(cred)
                 /\ treq' = [treq EXCEPT ![c] = [NoRequest EXCEPT !.pc = "user", !.cred = cred,
                                                                  !.requested = requested]]
      BY <2>3 DEF Start
    <3>2. ASSUME NEW row, treq' = [treq EXCEPT ![c] = row] PROVE new = row
      BY <3>2 DEF TypeOK
    <3>3. CASE treq' = [treq EXCEPT ![c] =
                          [NoRequest EXCEPT !.pc = "rules", !.requested = requested]]
      <4>1. new.pc = "rules" /\ new.id = Anonymous
        BY <3>2, <3>3 DEF NoRequest
      <4> QED BY <4>1 DEF Authenticated, Issued, Vouched, Anonymous
    <3>4. ASSUME NEW cred \in Credentials, Shown(cred),
                 treq' = [treq EXCEPT ![c] = [NoRequest EXCEPT !.pc = "user", !.cred = cred,
                                                              !.requested = requested]]
          PROVE  (Authenticated(c) /\ Issued(c) /\ Vouched(c))'
      <4>1. new.pc = "user" /\ new.cred = cred
        BY <3>2, <3>4 DEF NoRequest
      <4> QED BY <3>4, <4>1 DEF Authenticated, Issued, Vouched, IsToken
    <3> QED BY <3>1, <3>3, <3>4
  <2>4. CASE GetUserByName(c)
    <3>1. Running(c) /\ old.cred # NULL
      BY <2>4 DEF GetUserByName, at, Running, TypeOK
    <3>2. ASSUME new.cred = old.cred, ~at(c, "idle")',
                 NEW u \in UserIds, LogsIn(u, old.cred)
          PROVE  u \in ever'[c].logins
      BY <3>1, <3>2, EverReads DEF Within, FactsNow
    <3>3. ASSUME NEW u \in UserIds, IsUser(u), users[u].username = old.cred.username,
                 users[u].active, CheckPassword(users[u].hash, old.cred.secret),
                 proceed(c, "groups", User(u))
          PROVE  (Authenticated(c) /\ Issued(c) /\ Vouched(c))'
      <4>1. LogsIn(u, old.cred)
        BY <3>1, <3>3 DEF LogsIn
      <4>2. new.cred = old.cred /\ new.pc = "groups"
        BY <3>3 DEF proceed, TypeOK, TokenRequest
      <4> QED BY <2>2, <3>2, <3>3, <4>1, <4>2 DEF at
    <3>4. ASSUME NEW u \in UserIds, IsUser(u), users[u].username = old.cred.username,
                 users[u].active, old.cred.secret \in APITokens,
                 proceed(c, "tokens", User(u))
          PROVE  (Authenticated(c) /\ Issued(c) /\ Vouched(c))'
      <4>1. new.cred = old.cred /\ new.pc = "tokens" /\ new.id = User(u)
        BY <3>4 DEF proceed, TypeOK, TokenRequest
      <4>2. PICK t \in TokenIds, s \in TokenIds : old.cred.secret = <<t, s>>
        BY <3>4 DEF APITokens
      <4>3. IsToken(t)
        BY <2>4, <3>4, <4>2 DEF Issued, GetUserByName, at
      <4>4. ASSUME s = t, tokens[t].user = u, tokens[t].active PROVE LogsIn(u, old.cred)
        BY <3>1, <3>4, <4>2, <4>3, <4>4 DEF LogsIn, ListAPITokensByUser
      <4>5. Vouched(c)'
        BY <3>2, <4>1, <4>2, <4>4 DEF Vouched, User, at
      <4> QED BY <4>1, <4>2, <4>3, <4>5 DEF Authenticated, Issued, IsToken
    <3> QED BY <2>1, <2>4, <3>3, <3>4 DEF GetUserByName, GetUserByUsername
  <2>5. CASE authenticateAPIToken(c)
    <3>1. old.pc = "tokens" /\ old.id.user \in UserIds
      BY <2>5 DEF authenticateAPIToken, at, TypeOK
    <3>2. PICK t \in TokenIds, s \in TokenIds : old.cred.secret = <<t, s>>
      BY <3>1 DEF APITokens, TypeOK
    <3>3. ASSUME t \in ListAPITokensByUser(old.id.user), tokens[t].active,
                 CheckPassword(tokens[t].hash, s), proceed(c, "groups", User(old.id.user))
          PROVE  (Authenticated(c) /\ Issued(c) /\ Vouched(c))'
      <4>1. tokens[t].user = old.id.user /\ s = t
        <5>1. IsToken(t) /\ tokens[t].user = old.id.user
          BY <3>3 DEF ListAPITokensByUser
        <5>2. tokens[t].hash = [argon2id |-> t]
          BY <5>1 DEF TokenSecrets, HashPassword
        <5> QED BY <3>3, <5>1, <5>2 DEF CheckPassword
      <4>2. old.id.user \in ever[c].logins
        BY <3>1, <3>2, <3>3, <4>1 DEF Vouched
      <4>3. new.pc = "groups"
        BY <3>3 DEF proceed, TypeOK, TokenRequest
      <4>4. Within(ever[c], ever'[c])
        BY <3>1, <4>3, EverCollects DEF at
      <4> QED BY <2>2, <3>1, <3>3, <4>2, <4>4 DEF Within
    <3> QED BY <2>1, <2>5, <3>2, <3>3 DEF authenticateAPIToken
  <2>6. CASE ListGroups(c) \/ EvaluateRules(c)
    <3>1. /\ new.id.user = old.id.user /\ new.id.anonymous = old.id.anonymous
          /\ old.pc \in {"groups", "rules"} /\ new.pc \in {"rules", "done"}
      <4>1. CASE ListGroups(c)
        BY <4>1 DEF ListGroups, proceed, at, TypeOK, TokenRequest, Identity
      <4>2. ASSUME NEW status, NEW access, answer(c, old.id, status, access, FALSE)
            PROVE  new.id = old.id /\ new.pc = "done"
        BY <4>2 DEF answer, TypeOK, TokenRequest
      <4>3. CASE EvaluateRules(c)
        BY <4>2, <4>3 DEF EvaluateRules, at
      <4> QED BY <2>6, <4>1, <4>3
    <3>2. Within(ever[c], ever'[c])
      BY <3>1, EverCollects DEF at
    <3> QED BY <3>1, <3>2 DEF Authenticated, Issued, Vouched, Within
  <2> QED BY <2>1, <2>3, <2>4, <2>5, <2>6 DEF Step
<1> QED BY <1>1, <1>2, OneRequestMoves

LEMMA SecretsInvariant == Spec => []TokenSecrets
<1>1. Init => TokenSecrets
  BY DEF Init, EmptyDatabase, TokenSecrets, IsToken
<1>2. TypeOK /\ TokenSecrets /\ [Next]_vars => TokenSecrets'
  BY TokensStep
<1> QED BY <1>1, <1>2, TypeCorrect, PTL DEF Spec

LEMMA AuthInvariant == Spec => []AuthInv
<1>1. Init => AuthInv
  BY DEF Init, AuthInv, Authenticated, Issued, Vouched, NoRequest
<1> QED BY <1>1, AuthStep, TypeCorrect, SecretsInvariant, PTL DEF Spec

\* Whoever is authenticated could log in at one single moment of the request.
THEOREM AuthenticationSound == Spec => []AuthenticatedByLogin
<1>1. AuthInv => AuthenticatedByLogin
  BY DEF AuthInv, Authenticated, AuthenticatedByLogin
<1> QED BY <1>1, AuthInvariant, PTL

-----------------------------------------------------------------------------
(***************************************************************************)
(* Authorization.  The groups a request has read are memberships of its    *)
(* time, the rules it is evaluated by are rules of its time, and more      *)
(* rules or groups would only have granted more (GrantedMonotone).         *)
(***************************************************************************)
Justified(c) ==
  \A s \in treq[c].access :
    \E r \in treq[c].requested :
      /\ r.name = s.name
      /\ s.actions \subseteq Granted(With(treq[c].id, ever[c]), ever[c].rules, r)

GroupsSeen(c) ==
  \A g \in treq[c].id.groups : <<g, treq[c].id.user>> \in ever[c].members

NothingYet(c) ==
  /\ treq[c].pc \in {"idle", "user", "tokens", "groups"} => treq[c].id.groups = {}
  /\ treq[c].pc # "done" => treq[c].access = {}

GrantInv == \A c \in Clients : Justified(c) /\ GroupsSeen(c) /\ NothingYet(c)

\* An identity in its groups is granted no more than in all it was ever seen in.
LEMMA GrantedWithin ==
  ASSUME NEW id \in Identity, NEW R, NEW g, NEW r,
         \A x \in id.groups : <<x, id.user>> \in g.members,
         R \subseteq g.rules
  PROVE  Granted(id, R, r) \subseteq Granted(With(id, g), g.rules, r)
<1>1. /\ With(id, g).anonymous = id.anonymous /\ With(id, g).user = id.user
      /\ id.groups \subseteq With(id, g).groups
  BY DEF With, Identity
<1> QED BY <1>1, GrantedMonotone

LEMMA GrantStep == ASSUME TypeOK, GrantInv, [Next]_vars PROVE GrantInv'
<1> SUFFICES ASSUME NEW c \in Clients
             PROVE  (Justified(c) /\ GroupsSeen(c) /\ NothingYet(c))'
  BY DEF GrantInv
<1> DEFINE old == treq[c]
           new == treq'[c]
<1> Justified(c) /\ GroupsSeen(c) /\ NothingYet(c)
  BY DEF GrantInv
<1> old \in TokenRequest /\ old.id \in Identity
  BY DEF TypeOK, TokenRequest
<1>1. ASSUME new.access = {}, new.id.groups = {}
      PROVE  (Justified(c) /\ GroupsSeen(c) /\ NothingYet(c))'
  BY <1>1 DEF Justified, GroupsSeen, NothingYet
<1>2. CASE new = old
  <2>1. CASE at(c, "idle")
    BY <1>1, <1>2, <2>1 DEF at, NothingYet
  <2>2. CASE ~at(c, "idle")
    <3>1. Within(ever[c], ever'[c])
      BY <1>2, <2>2, EverMono
    <3>2. ASSUME NEW r
          PROVE  Granted(With(old.id, ever[c]), ever[c].rules, r)
                   \subseteq Granted(With(old.id, ever'[c]), ever'[c].rules, r)
      <4>1. With(old.id, ever[c]) \in Identity
        BY DEF With, Identity
      <4>2. /\ With(With(old.id, ever[c]), ever'[c]) = With(old.id, ever'[c])
            /\ \A x \in With(old.id, ever[c]).groups :
                 <<x, With(old.id, ever[c]).user>> \in ever'[c].members
        BY <3>1 DEF With, Identity, Within
      <4> QED BY <3>1, <4>1, <4>2, GrantedWithin DEF Within
    <3>3. Justified(c)'
      <4> SUFFICES ASSUME NEW s \in old.access
                   PROVE  \E r \in old.requested :
                            /\ r.name = s.name
                            /\ s.actions \subseteq
                                 Granted(With(old.id, ever'[c]), ever'[c].rules, r)
        BY <1>2 DEF Justified, With
      <4> QED BY <3>2 DEF Justified
    <3> QED BY <1>2, <3>1, <3>3 DEF GroupsSeen, NothingYet, Within
  <2> QED BY <2>1, <2>2
<1>3. CASE Step(c) /\ Observe /\ UNCHANGED tables
  <2>1. ASSUME NEW status, NEW fault, answer(c, Anonymous, status, {}, fault)
        PROVE  new.access = {} /\ new.id.groups = {}
    BY <2>1 DEF answer, Anonymous, TypeOK, TokenRequest
  <2>2. ASSUME NEW u, NEW pc, pc # "done", proceed(c, pc, User(u)), old.access = {}
        PROVE  new.access = {} /\ new.id.groups = {}
    BY <2>2 DEF proceed, User, TypeOK, TokenRequest
  <2>3. CASE Start(c)
    <3>1. \/ \E q : new = [NoRequest EXCEPT !.pc = "rules", !.requested = q]
          \/ \E q, cred : new = [NoRequest EXCEPT !.pc = "user", !.cred = cred,
                                                  !.requested = q]
      BY <2>3 DEF Start, TypeOK
    <3>2. new.access = {} /\ new.id = Anonymous
      BY <3>1 DEF NoRequest
    <3> QED BY <1>1, <3>2 DEF Anonymous
  <2>4. CASE End(c)
    BY <1>1, <2>4 DEF End, NoRequest, Anonymous, TypeOK
  <2>5. CASE GetUserByName(c)
    BY <1>1, <2>1, <2>2, <2>5 DEF GetUserByName, unauthorized, at, NothingYet
  <2>6. CASE authenticateAPIToken(c)
    BY <1>1, <2>1, <2>2, <2>6 DEF authenticateAPIToken, unauthorized, at, NothingYet
  <2>7. CASE StoreError(c)
    BY <1>1, <2>1, <2>7 DEF StoreError
  <2>8. CASE ListGroups(c)
    <3>1. /\ old.pc = "groups" /\ new.pc = "rules" /\ new.cred = old.cred
          /\ new.access = {} /\ new.id.user = old.id.user
          /\ new.id.groups = ListGroupIDsForUser(old.id.user)
      BY <2>8 DEF ListGroups, proceed, at, NothingYet, TypeOK, TokenRequest, Identity
    <3>2. members \subseteq ever'[c].members
      BY <1>3, <3>1, EverReads DEF Within, FactsNow, Running, at
    <3> QED BY <3>1, <3>2 DEF Justified, GroupsSeen, NothingYet, ListGroupIDsForUser
  <2>9. CASE EvaluateRules(c)
    <3> DEFINE access == Evaluate(old.id, ListACLRules, old.requested)
    <3>1. /\ old.pc = "rules" /\ new.pc = "done" /\ new.cred = old.cred
          /\ new.id = old.id /\ new.requested = old.requested
          /\ new.access = {} \/ new.access = access
      <4>1. ASSUME NEW status, NEW acc, answer(c, old.id, status, acc, FALSE)
            PROVE  /\ new.pc = "done" /\ new.cred = old.cred /\ new.id = old.id
                   /\ new.requested = old.requested /\ new.access = acc
        BY <4>1 DEF answer, TypeOK, TokenRequest
      <4> QED BY <2>9, <4>1 DEF EvaluateRules, at
    <3>2. ListACLRules \subseteq ever'[c].rules
      BY <1>3, <3>1, EverReads DEF Within, FactsNow, Running, at
    <3>3. \A x \in old.id.groups : <<x, old.id.user>> \in ever'[c].members
      BY <1>3, <3>1, EverCollects DEF Within, GroupsSeen, at
    <3>4. Justified(c)'
      <4> SUFFICES ASSUME NEW s \in new.access
                   PROVE  \E r \in old.requested :
                            /\ r.name = s.name
                            /\ s.actions \subseteq
                                 Granted(With(old.id, ever'[c]), ever'[c].rules, r)
        BY <3>1 DEF Justified, With
      <4>1. s \in access
        BY <3>1
      <4>2. PICK r \in old.requested : s = [type |-> r.type, name |-> r.name,
                                            actions |-> Granted(old.id, ListACLRules, r)]
        BY <4>1, EvaluateScope
      <4>3. Granted(old.id, ListACLRules, r)
              \subseteq Granted(With(old.id, ever'[c]), ever'[c].rules, r)
        BY <3>2, <3>3, GrantedWithin
      <4> QED BY <4>2, <4>3
    <3> QED BY <3>1, <3>3, <3>4 DEF GroupsSeen, NothingYet
  <2> QED BY <1>3, <2>3, <2>4, <2>5, <2>6, <2>7, <2>8, <2>9 DEF Step
<1> QED BY <1>2, <1>3, OneRequestMoves

\* No token grants what the rules and memberships of its request do not explain.
THEOREM GrantsSound == Spec => []GrantsJustified
<1>1. Init => GrantInv
  BY DEF Init, GrantInv, Justified, GroupsSeen, NothingYet, NoRequest, Anonymous
<1>2. TypeOK /\ GrantInv /\ [Next]_vars => GrantInv'
  BY GrantStep
<1>3. GrantInv => GrantsJustified
  BY DEF GrantInv, Justified, GrantsJustified
<1> QED BY <1>1, <1>2, <1>3, TypeCorrect, PTL DEF Spec
-----------------------------------------------------------------------------
(***************************************************************************)
(* Completeness.  The history variable "always" only loses: who is still   *)
(* in it could log in when the user was read and when the tokens were, so  *)
(* it is the user that the request runs as; the groups that were read are  *)
(* at least those it was in all the time, the rules at least those that    *)
(* were there all the time, and more of them only grant more.              *)
(***************************************************************************)
LEMMA AlwaysShrinks ==
  ASSUME TypeOK, Observe, NEW c \in Clients, ~at(c, "idle"), ~at(c, "idle")'
  PROVE  /\ Within(always'[c], always[c])
         /\ Running(c) => Within(always'[c], FactsNow(treq[c].cred)')
         /\ ~Running(c) => always'[c] = always[c]
<1>1. always'[c] =
        IF Running(c) THEN CommonFacts(always[c], FactsNow(treq[c].cred)') ELSE always[c]
  BY DEF Observe
<1> QED BY <1>1 DEF Within, CommonFacts

\* A request's own step reads what "always" cannot exceed.
LEMMA AlwaysReads ==
  ASSUME TypeOK, Observe, NEW c \in Clients, UNCHANGED tables, Running(c),
         treq'[c].cred = treq[c].cred, ~at(c, "idle")'
  PROVE  /\ Within(always'[c], always[c])
         /\ Within(always'[c], FactsNow(treq[c].cred))
<1>1. FactsNow(treq[c].cred)' = FactsNow(treq[c].cred)
  BY DEF FactsNow, LogsIn, IsUser, ListAPITokensByUser, IsToken, ListACLRules, IsRule, tables
<1>2. ~at(c, "idle")
  BY DEF Running, at
<1> QED BY <1>1, <1>2, AlwaysShrinks

LEMMA AlwaysMono ==
  ASSUME TypeOK, [Next]_vars, NEW c \in Clients, treq'[c] = treq[c], ~at(c, "idle")
  PROVE  /\ Within(always'[c], always[c])
         /\ ~Running(c) => always'[c] = always[c]
<1>1. CASE UNCHANGED vars
  BY <1>1 DEF vars, Within
<1>2. CASE Observe
  BY <1>2, AlwaysShrinks DEF at
<1> QED BY <1>1, <1>2 DEF Next
\* Without credentials nobody logs in and the request runs as nobody.
NoCredentials(c) ==
  treq[c].cred = NULL =>
    /\ always[c].logins = {}
    /\ treq[c].pc \notin {"user", "tokens", "groups"}
    /\ treq[c].pc = "rules" => treq[c].id = Anonymous

\* Who could log in all the time is who the request runs as.
RunsAs(c) ==
  treq[c].pc \in {"tokens", "groups", "rules"} =>
    \A u \in always[c].logins : ~treq[c].id.anonymous /\ treq[c].id.user = u

GroupsRead(c) ==
  treq[c].pc = "rules" =>
    \A g \in GroupIds : <<g, treq[c].id.user>> \in always[c].members => g \in treq[c].id.groups

\* The scopes that the identity id was entitled to all the time are granted.
Served(c, id) ==
  \A r \in treq[c].requested :
    LET due == Granted(With(id, always[c]), always[c].rules, r)
    IN due # {} => \E s \in treq[c].access : s.name = r.name /\ due \subseteq s.actions

Complete(c) ==
  treq[c].pc = "done" /\ ~treq[c].fault =>
    /\ \A u \in always[c].logins : Served(c, User(u))
    /\ treq[c].cred = NULL => Served(c, Anonymous)

CompleteFor(c) == NoCredentials(c) /\ RunsAs(c) /\ GroupsRead(c) /\ Complete(c)
CompleteInv == \A c \in Clients : CompleteFor(c)

LEMMA CompleteStays ==
  ASSUME TypeOK, CompleteInv, [Next]_vars, NEW c \in Clients, treq'[c] = treq[c]
  PROVE  CompleteFor(c)'
<1> CompleteFor(c)
  BY DEF CompleteInv
<1> treq[c] \in TokenRequest
  BY DEF TypeOK
<1>1. CASE at(c, "idle")
  <2>1. CASE UNCHANGED vars
    <3>1. always'[c] = always[c]
      BY <2>1 DEF vars
    <3> QED
      BY <1>1, <3>1 DEF at, CompleteFor, NoCredentials, RunsAs, GroupsRead, Complete
  <2>2. CASE Observe
    <3>1. always'[c] = FactsNow(treq[c].cred)'
      BY <1>1, <2>2 DEF Observe, at
    <3>2. treq[c].cred = NULL => always'[c].logins = {}
      BY <3>1 DEF FactsNow, LogsIn
    <3> QED
      BY <1>1, <3>2 DEF at, CompleteFor, NoCredentials, RunsAs, GroupsRead, Complete
  <2> QED BY <2>1, <2>2 DEF Next
<1>2. CASE ~at(c, "idle")
  <2>1. /\ Within(always'[c], always[c])
        /\ ~Running(c) => always'[c] = always[c]
    BY <1>2, AlwaysMono
  <2>2. NoCredentials(c)' /\ RunsAs(c)' /\ GroupsRead(c)'
    BY <2>1 DEF Within, CompleteFor, NoCredentials, RunsAs, GroupsRead
  <2>3. ASSUME at(c, "done") PROVE Complete(c)'
    <3>1. always'[c] = always[c]
      BY <2>1, <2>3 DEF Running, at
    <3>2. \A id : Served(c, id) => Served(c, id)'
      BY <3>1 DEF Served, With
    <3> QED BY <3>1, <3>2 DEF CompleteFor, Complete
  <2> QED BY <2>2, <2>3 DEF CompleteFor, Complete, at
<1> QED BY <1>1, <1>2

\* No password, and no secret half of a token, reads prt_<id>_<secret> itself.
\* (A user whose password did would be refused if its password were changed to
\* the string of a token of its own, and that token revoked, between the reads.)
PlainSecrets == APITokens \cap Secrets = {}

\* Who can log in now has the username; and either the password or the token.
LEMMA LoginNeeds ==
  ASSUME TypeOK, NEW u \in UserIds, NEW cred, LogsIn(u, cred)
  PROVE  /\ u \in {v \in GetUserByUsername(cred.username) : users[v].active}
         /\ \/ CheckPassword(users[u].hash, cred.secret)
            \/ /\ cred.secret \in APITokens
               /\ \E t \in ListAPITokensByUser(u) :
                     tokens[t].active /\ cred.secret = <<t, t>>
<1>1. \A t \in ListAPITokensByUser(u) : t \in TokenIds
  BY DEF ListAPITokensByUser
<1> QED BY <1>1 DEF LogsIn, GetUserByUsername, APITokens

\* A request that is refused by authentication owes nothing to anybody.
LEMMA RefusedOwesNothing ==
  ASSUME TypeOK, NEW c \in Clients, unauthorized(c), always'[c].logins = {},
         treq[c].cred # NULL
  PROVE  CompleteFor(c)'
<1>1. treq'[c].pc = "done" /\ treq'[c].cred = treq[c].cred
  BY DEF unauthorized, answer, TypeOK, TokenRequest
<1> QED BY <1>1 DEF CompleteFor, NoCredentials, RunsAs, GroupsRead, Complete

LEMMA AuthenticateComplete ==
  ASSUME TypeOK, TokenSecrets, UniqueNames, PlainSecrets, CompleteInv,
         NEW c \in Clients, Observe, GetUserByName(c) \/ authenticateAPIToken(c)
  PROVE  CompleteFor(c)'
<1> DEFINE old  == treq[c]
           new  == treq'[c]
           cred == old.cred
           due  == always'[c].logins
<1> old \in TokenRequest /\ CompleteFor(c)
  BY DEF TypeOK, CompleteInv
<1>1. old.pc \in {"user", "tokens"} /\ cred # NULL /\ UNCHANGED tables
  BY DEF GetUserByName, authenticateAPIToken, at, TypeOK
<1>2. ASSUME unauthorized(c) PROVE new.pc = "done" /\ new.cred = cred
  BY <1>2 DEF unauthorized, answer, TypeOK, TokenRequest
<1>3. ASSUME NEW u, NEW pc, proceed(c, pc, User(u))
      PROVE  new.pc = pc /\ new.cred = cred /\ new.id = User(u)
  BY <1>3 DEF proceed, TypeOK, TokenRequest
<1>4. unauthorized(c) \/ \E u \in UserIds : \E pc \in {"tokens", "groups"} :
                            proceed(c, pc, User(u))
  BY DEF GetUserByName, authenticateAPIToken, GetUserByUsername, at, TypeOK
<1>5. new.cred = cred /\ ~at(c, "idle")'
  BY <1>2, <1>3, <1>4 DEF at
<1>6. /\ due \subseteq always[c].logins
      /\ \A v \in due : v \in UserIds /\ LogsIn(v, cred)
  BY <1>1, <1>5, AlwaysReads DEF Within, FactsNow, Running
<1>7. ASSUME unauthorized(c), due = {} PROVE CompleteFor(c)'
  BY <1>1, <1>7, RefusedOwesNothing
<1>8. ASSUME NEW u, NEW pc \in {"tokens", "groups"}, proceed(c, pc, User(u)),
             \A v \in due : v = u
      PROVE  CompleteFor(c)'
  BY <1>1, <1>3, <1>8
  DEF CompleteFor, NoCredentials, RunsAs, GroupsRead, Complete, User
<1>9. CASE GetUserByName(c)
  <2> DEFINE found == {v \in GetUserByUsername(cred.username) : users[v].active}
  <2>1. due \subseteq found
    BY <1>6, LoginNeeds
  <2>2. \A u, v \in found : u = v
    BY DEF UniqueNames, GetUserByUsername
  <2>3. ASSUME NEW u \in found, ~CheckPassword(users[u].hash, cred.secret),
               cred.secret \notin APITokens
        PROVE  due = {}
    BY <1>6, <2>1, <2>2, <2>3, LoginNeeds
  <2>4. CASE found = {} /\ unauthorized(c)
    BY <1>7, <2>1, <2>4
  <2>5. ASSUME NEW u \in found,
               \/ proceed(c, "groups", User(u)) \/ proceed(c, "tokens", User(u))
        PROVE  CompleteFor(c)'
    BY <1>8, <2>1, <2>2, <2>5
  <2> QED BY <1>7, <1>9, <2>3, <2>4, <2>5 DEF GetUserByName
<1>10. CASE authenticateAPIToken(c)
  <2> DEFINE u == old.id.user
  <2>1. \A v \in due : v = u
    BY <1>6, <1>10 DEF authenticateAPIToken, at, CompleteFor, RunsAs
  <2>2. cred.secret \in APITokens
    BY <1>10 DEF authenticateAPIToken, at, TypeOK
  <2>3. ASSUME NEW v \in due
        PROVE  \E t \in ListAPITokensByUser(v) : tokens[t].active /\ cred.secret = <<t, t>>
    <3>1. LogsIn(v, cred) /\ v \in UserIds
      BY <1>6
    <3>2. users[v].hash \in Hashes
      BY <3>1 DEF LogsIn, IsUser, TypeOK, StoreTypeOK, UserRow
    <3>3. ~CheckPassword(users[v].hash, cred.secret)
      BY <2>2, <3>2 DEF CheckPassword, Hashes, PlainSecrets
    <3> QED BY <3>1, <3>3, LoginNeeds
  <2>4. ASSUME NEW v \in due
        PROVE  LET id == cred.secret[1]
               IN /\ id \in ListAPITokensByUser(u) /\ tokens[id].active
                  /\ CheckPassword(tokens[id].hash, cred.secret[2])
    <3>1. PICK t \in ListAPITokensByUser(u) : tokens[t].active /\ cred.secret = <<t, t>>
      BY <2>1, <2>3
    <3>2. tokens[t].hash = [argon2id |-> t]
      BY <3>1 DEF ListAPITokensByUser, TokenSecrets, HashPassword
    <3>3. CheckPassword(tokens[t].hash, t)
      BY <3>2 DEF CheckPassword
    <3> QED BY <3>1, <3>3
  <2>5. CASE proceed(c, "groups", User(u))
    BY <1>8, <2>1, <2>5
  <2>6. CASE unauthorized(c) /\ due = {}
    BY <1>7, <2>6
  <2> QED BY <1>10, <2>4, <2>5, <2>6 DEF authenticateAPIToken
<1> QED BY <1>9, <1>10
LEMMA EvaluateComplete ==
  ASSUME TypeOK, CompleteInv, NEW c \in Clients, Observe, EvaluateRules(c)
  PROVE  CompleteFor(c)'
<1> DEFINE old == treq[c]
           new == treq'[c]
           access == Evaluate(old.id, ListACLRules, old.requested)
<1> old \in TokenRequest /\ CompleteFor(c)
  BY DEF TypeOK, CompleteInv
<1>1. /\ new.pc = "done" /\ new.cred = old.cred /\ new.requested = old.requested
      /\ new.id = old.id \/ new.id = Anonymous
      /\ \/ new.access = access
         \/ new.access = {} /\ access = {}
  <2>1. ASSUME NEW id, NEW status, NEW acc, NEW fault, answer(c, id, status, acc, fault)
        PROVE  /\ new.pc = "done" /\ new.cred = old.cred /\ new.requested = old.requested
               /\ new.id = id /\ new.access = acc
    BY <2>1 DEF answer, TypeOK, TokenRequest
  <2> QED BY <2>1 DEF EvaluateRules
<1>2. old.pc = "rules" /\ UNCHANGED tables
  BY DEF EvaluateRules, at
<1>3. /\ Within(always'[c], always[c])
      /\ always'[c].rules \subseteq ListACLRules
  BY <1>1, <1>2, AlwaysReads DEF Within, FactsNow, Running, at
<1>4. ASSUME NEW id \in Identity,
             With(id, always'[c]).anonymous = old.id.anonymous,
             With(id, always'[c]).user = old.id.user,
             With(id, always'[c]).groups \subseteq old.id.groups
      PROVE  Served(c, id)'
  <2>1. SUFFICES ASSUME NEW r \in old.requested,
                        Granted(With(id, always'[c]), always'[c].rules, r) # {}
                 PROVE  \E s \in access :
                          /\ s.name = r.name
                          /\ Granted(With(id, always'[c]), always'[c].rules, r) \subseteq s.actions
    BY <1>1 DEF Served, With
  <2>2. Granted(With(id, always'[c]), always'[c].rules, r)
          \subseteq Granted(old.id, ListACLRules, r)
    BY <1>3, <1>4, GrantedMonotone
  <2>3. r.type = "repository"
    BY DEF TokenRequest, Scope
  <2> DEFINE s == [type |-> r.type, name |-> r.name, actions |-> Granted(old.id, ListACLRules, r)]
  <2>4. s \in access
    BY <2>1, <2>2, <2>3 DEF Evaluate
  <2> QED BY <2>2, <2>4
<1>5. ASSUME NEW u \in always'[c].logins PROVE Served(c, User(u))'
  <2>1. u \in always[c].logins /\ u \in UserIds
    BY <1>3, <1>5 DEF Within, TypeOK, Facts
  <2>2. ~old.id.anonymous /\ old.id.user = u
    BY <1>2, <2>1 DEF CompleteFor, RunsAs
  <2>3. \A g \in GroupIds : <<g, u>> \in always'[c].members => g \in old.id.groups
    BY <1>2, <1>3, <2>2 DEF CompleteFor, GroupsRead, Within
  <2>4. User(u) \in Identity /\ old.id.anonymous = FALSE
    BY <2>1, <2>2 DEF User, Identity, TokenRequest
  <2>5. /\ With(User(u), always'[c]).anonymous = FALSE
        /\ With(User(u), always'[c]).user = u
        /\ With(User(u), always'[c]).groups = {g \in GroupIds : <<g, u>> \in always'[c].members}
    BY DEF User, With
  <2> QED BY <1>4, <2>2, <2>3, <2>4, <2>5
<1>6. ASSUME old.cred = NULL PROVE Served(c, Anonymous)'
  <2>1. old.id = Anonymous
    BY <1>2, <1>6 DEF CompleteFor, NoCredentials
  <2>2. \A g \in GroupIds : <<g, NULL>> \notin always'[c].members
    BY <1>3, StoreAssumption DEF Within, TypeOK, Facts
  <2>3. /\ Anonymous \in Identity
        /\ With(Anonymous, always'[c]).anonymous = Anonymous.anonymous
        /\ With(Anonymous, always'[c]).user = NULL
        /\ With(Anonymous, always'[c]).groups
             = {g \in GroupIds : <<g, NULL>> \in always'[c].members}
    BY DEF Anonymous, Identity, With
  <2>4. With(Anonymous, always'[c]).groups = {}
    BY <2>2, <2>3
  <2>5. /\ old.id.anonymous = Anonymous.anonymous
        /\ old.id.user = NULL /\ old.id.groups = {}
    BY <2>1 DEF Anonymous
  <2> QED BY <1>4, <2>3, <2>4, <2>5
<1> QED
  BY <1>1, <1>3, <1>5, <1>6
  DEF CompleteFor, NoCredentials, RunsAs, GroupsRead, Complete, Within
LEMMA CompleteStep ==
  ASSUME TypeOK, TokenSecrets, UniqueNames, PlainSecrets, CompleteInv, [Next]_vars
  PROVE  CompleteInv'
<1> SUFFICES ASSUME NEW c \in Clients PROVE CompleteFor(c)'
  BY DEF CompleteInv
<1> DEFINE old == treq[c]
           new == treq'[c]
<1> old \in TokenRequest /\ CompleteFor(c)
  BY DEF TypeOK, CompleteInv
<1>1. CASE new = old
  BY <1>1, CompleteStays
<1>2. CASE Step(c) /\ Observe /\ UNCHANGED tables
  <2>1. CASE Start(c) \/ End(c)
    <3>1. /\ at(c, "idle") \/ at(c, "idle")'
          /\ \/ new.pc = "user" /\ new.cred # NULL
             \/ new.pc \in {"idle", "rules"} /\ new.cred = NULL /\ new.id = Anonymous
      <4>1. CASE Start(c)
        <5>1. \/ \E q : new = [NoRequest EXCEPT !.pc = "rules", !.requested = q]
              \/ \E q : \E cred \in Credentials :
                    new = [NoRequest EXCEPT !.pc = "user", !.cred = cred, !.requested = q]
          BY <4>1 DEF Start, TypeOK
        <5> QED BY <4>1, <5>1, CredentialsAssumption DEF Start, NoRequest
      <4>2. CASE End(c)
        BY <4>2 DEF End, NoRequest, at, TypeOK
      <4> QED BY <2>1, <4>1, <4>2
    <3>2. always'[c] = FactsNow(treq[c].cred)'
      BY <1>2, <3>1 DEF Observe
    <3>3. new.cred = NULL => always'[c].logins = {}
      BY <3>2 DEF FactsNow, LogsIn
    <3>4. new.id = Anonymous => new.id.user = NULL /\ new.id.groups = {}
      BY DEF Anonymous
    <3>5. ASSUME new.id = Anonymous
          PROVE  \A g \in GroupIds : <<g, new.id.user>> \notin always'[c].members
      <4>1. always'[c] \in Facts
        BY TypeStep DEF TypeOK
      <4> QED BY <3>4, <3>5, <4>1, StoreAssumption DEF Facts
    <3> QED
      BY <3>1, <3>3, <3>5 DEF CompleteFor, NoCredentials, RunsAs, GroupsRead, Complete
  <2>2. CASE GetUserByName(c) \/ authenticateAPIToken(c)
    BY <1>2, <2>2, AuthenticateComplete
  <2>3. CASE ListGroups(c)
    <3>1. /\ old.pc = "groups" /\ new.pc = "rules" /\ new.cred = old.cred
          /\ new.id.anonymous = old.id.anonymous /\ new.id.user = old.id.user
          /\ new.id.groups = ListGroupIDsForUser(old.id.user)
      BY <2>3 DEF ListGroups, proceed, at, TypeOK, TokenRequest, Identity
    <3>2. Within(always'[c], always[c]) /\ always'[c].members \subseteq members
      BY <1>2, <3>1, AlwaysReads DEF Within, FactsNow, Running, at
    <3> QED
      BY <3>1, <3>2
      DEF CompleteFor, NoCredentials, RunsAs, GroupsRead, Complete, ListGroupIDsForUser, Within
  <2>4. CASE EvaluateRules(c)
    BY <1>2, <2>4, EvaluateComplete
  <2>5. CASE StoreError(c)
    <3>1. new.pc = "done" /\ new.fault /\ new.cred = old.cred /\ Running(c)
      BY <2>5 DEF StoreError, answer, TypeOK, TokenRequest
    <3>2. Within(always'[c], always[c])
      BY <1>2, <3>1, AlwaysReads DEF at
    <3> QED
      BY <3>1, <3>2 DEF CompleteFor, NoCredentials, RunsAs, GroupsRead, Complete, Within
  <2> QED BY <1>2, <2>1, <2>2, <2>3, <2>4, <2>5 DEF Step
<1> QED BY <1>1, <1>2, OneRequestMoves

LEMMA NamesInvariant == Spec => []UniqueNames
<1>1. Init => UniqueNames
  BY DEF Init, EmptyDatabase, UniqueNames, IsUser
<1>2. TypeOK /\ UniqueNames /\ [Next]_vars => UniqueNames'
  <2>1. UniqueNames /\ UNCHANGED tables => UniqueNames'
    BY DEF tables, UniqueNames, IsUser
  <2>2. TypeOK /\ UniqueNames /\ Write(RuleInputs) => UniqueNames'
    BY NamesStep, StoreAssumption DEF TypeOK
  <2> QED BY <2>1, <2>2, StepTyped DEF Next, Administrate, vars, tables
<1> QED BY <1>1, <1>2, TypeCorrect, PTL DEF Spec

\* A client is not refused what it was entitled to all through its request.
THEOREM GrantsAreComplete == ASSUME PlainSecrets PROVE Spec => []GrantsComplete
<1>1. Init => CompleteInv
  <2>1. FactsNow(NULL).logins = {}
    BY DEF FactsNow, LogsIn
  <2> QED
    BY <2>1
    DEF Init, CompleteInv, CompleteFor, NoCredentials, RunsAs, GroupsRead, Complete, NoRequest
<1>2. /\ TypeOK /\ TokenSecrets /\ UniqueNames /\ CompleteInv /\ [Next]_vars
      => CompleteInv'
  BY CompleteStep
<1>3. CompleteInv => GrantsComplete
  BY DEF CompleteInv, CompleteFor, Complete, Served, GrantsComplete
<1> QED
  BY <1>1, <1>2, <1>3, TypeCorrect, SecretsInvariant, NamesInvariant, PTL DEF Spec

-----------------------------------------------------------------------------
\* Only the last step of a request answers with a token, and with an empty one
\* only when an authenticated client asked for nothing.
EmptyForLogin(c) ==
  /\ treq[c].pc # "done" => treq[c].status = "none"
  /\ treq[c].status = "token" /\ treq[c].access = {}
       => treq[c].requested = {} /\ ~treq[c].id.anonymous

LEMMA EmptyStep ==
  ASSUME TypeOK, [Next]_vars, \A c \in Clients : EmptyForLogin(c)
  PROVE  (\A c \in Clients : EmptyForLogin(c))'
<1> SUFFICES ASSUME NEW c \in Clients PROVE EmptyForLogin(c)'
  OBVIOUS
<1> DEFINE old == treq[c]
           new == treq'[c]
<1> old \in TokenRequest /\ EmptyForLogin(c)
  BY DEF TypeOK
<1>1. CASE new = old
  BY <1>1 DEF EmptyForLogin
<1>2. CASE Step(c)
  <2>1. ASSUME NEW pc, NEW id, pc # "done", old.pc # "done", proceed(c, pc, id)
        PROVE  EmptyForLogin(c)'
    <3>1. new.pc = pc /\ new.status = old.status
      BY <2>1 DEF proceed, TypeOK, TokenRequest
    <3> QED BY <2>1, <3>1 DEF EmptyForLogin
  <2>2. ASSUME NEW id, NEW status, NEW access, NEW fault, answer(c, id, status, access, fault),
               status = "token" /\ access = {} => old.requested = {} /\ ~id.anonymous
        PROVE  EmptyForLogin(c)'
    <3>1. /\ new.pc = "done" /\ new.status = status /\ new.access = access
          /\ new.id = id /\ new.requested = old.requested
      BY <2>2 DEF answer, TypeOK, TokenRequest
    <3> QED BY <2>2, <3>1 DEF EmptyForLogin
  <2>3. CASE Start(c) \/ End(c)
    <3>1. \/ \E q : new = [NoRequest EXCEPT !.pc = "rules", !.requested = q]
          \/ \E q, cred : new = [NoRequest EXCEPT !.pc = "user", !.cred = cred,
                                                  !.requested = q]
          \/ new = NoRequest
      BY <2>3 DEF Start, End, TypeOK
    <3>2. new = NoRequest => new.status = "none"
      BY DEF NoRequest
    <3>3. new # NoRequest => new.status = "none"
      BY <3>1 DEF NoRequest
    <3> QED BY <3>2, <3>3 DEF EmptyForLogin
  <2>4. CASE GetUserByName(c)
    BY <2>1, <2>2, <2>4 DEF GetUserByName, unauthorized, at
  <2>5. CASE authenticateAPIToken(c)
    BY <2>1, <2>2, <2>5 DEF authenticateAPIToken, unauthorized, at
  <2>6. CASE ListGroups(c)
    BY <2>1, <2>6 DEF ListGroups, at
  <2>7. CASE EvaluateRules(c)
    BY <2>2, <2>7 DEF EvaluateRules
  <2>8. CASE StoreError(c)
    BY <2>2, <2>8 DEF StoreError
  <2> QED BY <1>2, <2>3, <2>4, <2>5, <2>6, <2>7, <2>8 DEF Step
<1> QED BY <1>1, <1>2, OneRequestMoves

\* An empty token is the answer to docker login: to a client that asked for no
\* scope and could log in at some moment of its request.
THEOREM EmptyTokens == Spec => []EmptyTokenOnlyForLogin
<1>1. Init => \A c \in Clients : EmptyForLogin(c)
  BY DEF Init, EmptyForLogin, NoRequest
<1>2. /\ TypeOK /\ [Next]_vars /\ (\A c \in Clients : EmptyForLogin(c))
      => (\A c \in Clients : EmptyForLogin(c))'
  BY EmptyStep
<1>3. TypeOK /\ AuthInv /\ (\A c \in Clients : EmptyForLogin(c)) => EmptyTokenOnlyForLogin
  BY DEF TypeOK, TokenRequest, AuthInv, Authenticated, EmptyForLogin, EmptyTokenOnlyForLogin
<1> QED BY <1>1, <1>2, <1>3, TypeCorrect, AuthInvariant, PTL DEF Spec
=============================================================================
