# private-registry: TLA+ models, checks and proofs

This directory holds a formal model of the auth service in this repository: the
program of `cmd/server` that authenticates users, decides what they may do with a
Docker registry, signs registry tokens, and lets administrators manage all of it;
and of the two tools that work on its database, `cmd/demoseed` and
`cmd/migrate-sqlite-to-mysql`.
TLC model-checks the modules on small instances; TLAPS proves theorems about them
for every value of their constants.

## The system

| Part | State | Operations | Meets |
|---|---|---|---|
| Store (`internal/store`, sqlite and mysql) | tables users, api_tokens, groups, group_members, acl_rules | one SQL statement per method; no method opens a transaction | everything below |
| Administration handlers (`internal/web`) | none between requests | create, disable, enable, toggle-admin, reset-password; create and revoke tokens; groups and members; ACL rules | the store, several calls per request |
| Access control (`internal/acl`) | none | `Evaluate(identity, rules, scopes)` | the token endpoint |
| Token endpoint (`internal/auth`: tokenhttp, credentials, password) | none | `GET /token`: authenticate, list groups, list rules, evaluate, sign | the store, up to four reads per request |
| Startup (`cmd/server`, `internal/bootstrap`, `internal/auth/keys.go`) | the key and certificate files; the issuer in memory | `EnsureAdmin`, `LoadOrCreateKeys`, serve | the store, the volume, the registry that reads the certificate |
| Rate limiter (`internal/web/ratelimit.go`) | a map from address to recent times, under a mutex | `allow` | before `POST /login` and `GET /token` |
| Sessions, login, CSRF (`session.go`, `csrf.go`, `login.go`, `server.go`) | none: signed cookies at the client | login, logout, `requireSession`, `requireAdmin`, `validateCSRF` | administration handlers |
| JWT issuer (`jwt.go`) | key, certificate, TTL | `Mint` | token endpoint, startup, the registry's clock |
| Migration (`cmd/migrate-sqlite-to-mysql`, `internal/store/migratecopy`) | two databases | refuse a mysql that has users; copy five tables in one mysql transaction | the service on sqlite, the service on mysql, other runs |
| Demo seed (`cmd/demoseed`) | the list of rules it read at first | look up or create users and their rules | the store, startup |
| Configuration, factory, HTML pages | none | read the environment; render | |

What makes the service hard to get right is that every request is its own
goroutine and every store call its own transaction: whatever a handler reads may
have changed when it writes. The other sources of trouble are crashes between the
steps of a first start, replicas that start together, a lock that is taken after
the clock is read, cookies and tokens that outlive what they were issued for, and
a migration that is killed or repeated.

What makes each part correct:

* **Store**: unique usernames; a revoked token never comes back; a token's owner
  and secret never change.
* **Administration**: an active admin always remains; the handlers only do what
  the store's interface allows, one statement at a time.
* **Access control**: exactly the policy (the matching rules decide, push brings
  pull, anonymous clients never push), whatever the order of rules and scopes.
* **Token endpoint**: who passes could log in; what is granted has a reason; what
  is due is not refused; empty tokens are for `docker login` only.
* **Startup**: one first admin; one signing key; the registry accepts what is
  signed; every start eventually serves.
* **Rate limiter**: no more than the limit in a window, and nobody is shut out.
* **Sessions**: whoever writes was an active admin during that very request; a form
  works in the login it was rendered for and in no other.
* **JWT issuer**: a token is good from the moment it is signed until its lifetime
  is over, through restarts, and for nobody much longer than they were entitled.
* **Migration**: one whole copy or none, whatever is killed, repeated or runs at
  once; exact when the service was stopped first.
* **Demo seed**: repeated after an abort it completes, and duplicates nothing.

## The modules

```
Store <--- AdminApi <--- Session <--- MCSession       Acl <--- AclLoop <-- MCAclLoop
  ^           ^  ^ \                                   ^          ^
  |           |  |  MCAdminApi                         |          +------- AclProofs
  |           |  +---- SessionProofs                   |
  |           +---- AdminApiProofs              (TokenService)
  +---- StoreProofs <--- (every proof module but AclProofs and RateLimiterProofs)
  +---- Startup <--- TokenLifetime <--- MCTokenLifetime
  |        ^ ^             ^----+
  |        | +------ Provision <+------ MCProvision
  |        |               ^----+------ StartupProofs
  |        +-- MCStartup
  +---- TokenService <----------------- MCTokenService
  |           ^------------------------ TokenServiceProofs
  +---- MigrateCopy <------------------ MCMigrateCopy
              ^------------------------ MigrateCopyProofs
            : implements AtomicCopy            RateLimiter <--- RateLimiterProofs
```

Arrows are EXTENDS. Three refinements are checked: `AdminApi` implements
`StoreSpec`, `Session` implements `AdminApi`, and `MigrateCopy` implements
`AtomicCopy` (INSTANCE with a substitution for its variables).

**Store** has a table as a total function from ids to rows or `NULL`, and one
action per statement that writes. An action is enabled exactly when the statement
succeeds; callers put their error path in an action of their own, and it writes
nothing. Usernames are compared without case, as both schemas do. A salted hash is
the string it accepts; a token's secret is the token's id, since 32 random bytes
are nobody else's. `ForeignKeys` tells mysql, which enforces references, from
sqlite, where they are off. Not represented: token names, timestamps, and
`expires_at`, which no handler sets. `StoreSpec` is the abstract specification of
the store: any client, one statement at a time.

**AdminApi** runs the POST handlers for a set of request slots. `RequireAdmin` is
the middleware. A handler with one write is one action after it: it parses its
form, writes, and answers. `/disable` and `/toggle-admin` are split at each store
call: read the row, `guardGetUserByID`, `guardCountActiveAdmins`, `SetUserField`.
`Fail` is every way out that writes nothing. `raced` is a history variable: did
the set of active admins change since the request's guard began?

**Session** says who is behind those requests. It EXTENDS `AdminApi` and puts its
steps under a request that `withSession` has captured: the cookie it came with and
the cookie its form was rendered under. `requireAdmin` narrows `RequireAdmin` to
the user of the cookie, `Handle` puts `validateCSRF` before every POST handler, and
`ShowPage` is a GET page, which matters only for the token it carries. The server
has no state of its own here: `jar` and `page` are the browser's. A login is two
steps, since the flags it decides by were read before its cookie is set; what
`Authenticate` checks is `TokenService`'s. The history variable `entitled` says
whether a request's user was an active admin at some moment since it arrived.

**Acl** is the decision as a policy over sets; **AclLoop** is the code's own
loops over slices, with their flags and indices, and is checked against it.
`path.Match` is the constant relation `Matches`.

**TokenService** is `GET /token`, one action per store read, against a store that
does anything its interface allows in between (`Administrate`, not only what the
handlers do). The history variables `ever` and `always` collect what held at some
moment, or at every moment, of a request; the properties compare answers with them.

**Startup** is `main` up to `ListenAndServe`, for a set of replicas that share the
database and the volume: `CountUsers` and `CreateAdmin` are `EnsureAdmin`, the rest
is `LoadOrCreateKeys`, with `os.WriteFile` as two steps (create or truncate, then
write). `Crash` ends a process anywhere; `Start` is its supervisor. A registry
(external) reads the certificate once, whenever it starts.

**TokenLifetime** EXTENDS `Startup` with the tokens that are out. A client asks a
replica that serves; `Decide` and `Mint` are apart, so the decision may be stale when
it is signed; `Administrate` changes what the client is entitled to at any time.
Points in time are distances from now, which `Tick` moves; the registry
(external) judges `nbf` and `exp` by a clock that is `skew` ahead, and adds a leeway of
its own to both ends (`Grace`; in `registry:2` it is a minute). `lapse` is the
history: for how long has the client not been entitled?

**Provision** EXTENDS `Startup` with `cmd/demoseed`: one action for the list of
rules it reads first, and one for each look-up and each insert; `EndSeed` is its
end, and its abortion, anywhere. Only that it begins after the service was first
healthy is taken from `demo.sh`.

**MigrateCopy** is the migration tool, with the variables of `Store` as the sqlite
file and `mysql` as what is committed there. A run counts the users of mysql and
copies table after table; the rows of its open transaction are in `run[r].tx`, where
others wait for them but do not see them. A run may be refused a row (primary and
UNIQUE keys under the collation `Fold`, references), fail, be killed, or lose the
answer to its COMMIT; the transaction of a killed run stays open until mysql notices
(`Rollback`). Around it are the service on sqlite, which may or may not have been
stopped, and a service that starts on mysql. **AtomicCopy** is what `copy.go`
promises, in one step: a run adds one whole copy, each table as it was at one
moment of the run, or nothing.

**RateLimiter** keeps ages instead of times: `Tick` makes everything older. A
call reads the clock in `Arrive` and enters the lock in `allow`, so calls overtake
each other. The ages stop at `Horizon`, beyond which no call counts them.

Operators named `BUG_...` are not part of the model. Each is a definition as a
plausible mistake would have it, and stands before the one it is a variant of; a
property is worth its run only if some such variant violates it.

## What TLC checks

| Run | Instance | Shows |
|---|---|---|
| `AdminConcurrent` | 3 users, a token, a group, a rule, foreign keys on, 2 requests | `GuardHolds`, `LockoutOnlyByRace`, `LockoutIsPermanent`, `RevocationIsFinal`, `NoAnonymousPushRule`, `StoreSpec` |
| `AdminSerial` | 3 users, 1 request | `LastAdminKept` |
| `AdminRace` | 2 users, 2 requests | `LastAdminKept` is **violated** |
| `Sessions` | 2 users, a token, 1 browser, 2 requests in flight, 3 CSRF tokens | `WritesByAdmins`, `FormsStayInTheirLogin`, `ImplementsAdminApi` |
| `AclLoop` | every list of at most 2 rules and 2 scopes, a member and an anonymous client | `ComputesPolicy`, `OnlyAdds`, `PushImpliesPull` |
| `TokenCredentials` | 2 users, 2 tokens, 2 passwords, 1 request | `AuthenticatedByLogin` |
| `TokenGrants` | a user, a group, 2 rules out of 3 forms, 3 scope lists, 1 request | `GrantsJustified`, `GrantsComplete`, `EmptyTokenOnlyForLogin` |
| `StartupAlone` | 1 replica, 3 crashes, empty or provided files; TTL 3, leeway 1, grace 1, delay 2, skew -2, 0 or 1 | `OneSigningKey`, `RegistryAcceptsTokens`, `AccessLapses`, `TokensLast`, `RecoversUnlessTorn` |
| `StartupShared` | 2 replicas, provided files, 2 crashes; 2 demo users, any number of seedings | `SeedsOnce`, `OneBootstrapAdmin`, `LaterStartsServe` |
| `StartupCrash` | 1 replica, empty volume, 1 crash | `LaterStartsServe` is **violated** |
| `MigrateCopy` | 2 runs; 2 users, an admin or a small installation in the file, 1 more write | `ExactWhenStopped`, `RefusedForCause`, `MigratesAtomically`, `RunsEnd` |
| `RateLimiter` | 2 addresses, 2 requests, limit 2, window 3, lock wait 1 | `LimitKept`, `NotShutOut` |

The type invariant of every state machine is an invariant of one of its runs
(that of `Provision` adds nothing to `SeedsOnce` and is not checked).

Why the bounds are enough. The race for the last admin needs two requests and two
admins; a third user lets a request overtake without touching either. A request
for a token depends on other requests only through the store, and `Administrate`
already gives the store every change, so one client suffices; two tokens are
needed for a secret of one presented with the id of another. Two scopes are needed
for a flag to leak from one to the next, two rules for their order to matter. With
three crashes every pair of steps of a start can be interrupted and the
interrupted restart interrupted again; there is one key for every crash and one
more, so generation never runs out. Limit 2 is the least at which an overtaking
call makes a window too full.

A lifetime of 3, a leeway of 1 and a delay of 2 are all different, so that no two
of them can be mistaken for each other; the registry's clock may be behind by as much
as the leeway and the grace together, from where on a fresh token is refused.
Two demo users are needed for the loop of the seed to go on after a write, and a
third user id leaves room for the first admin. One browser suffices for
`Sessions`, since cookies and tokens meet only there: its two users log in by
turns while two requests of earlier logins are in flight; three CSRF tokens are
one for the cookie, one for the page and one for the next login (a request in
flight may hold a fourth, and then a new login waits: some behaviours are missed,
none is added). Two runs of the migration cover a repeat while the transaction of
the killed first is still open, and two at once; one write that comes after the
run began already separates the tables in time. (Two writes do not finish in
minutes.) User names and ids are symmetric in `AdminConcurrent` and `Sessions`,
which mention none; requests and CSRF tokens are too. Liveness runs use no
symmetry.

Deadlock is checked where the system always has a step; in `AdminConcurrent`,
`AdminRace` and `Sessions` the service may lock itself out for good, and the
programs of `AclLoop` and `MigrateCopy` end.

Fairness. `Startup` assumes weak fairness of each replica's `main`: a process that
can go on does, and what ended is started again, now and then. A Kubernetes
Deployment does that by itself; `docker-compose.yml` sets no `restart:`, so there it is
the operator who does. Crashes are bounded by `MaxCrashes`, so they cease. `RateLimiter` assumes that time
goes by and that a thread waiting for the mutex gets it. `TokenLifetime` and
`Provision` inherit the fairness of `Startup`, and nothing else: nobody has to ask
for a token, to seed, or to finish seeding. `MigrateCopy` assumes that a tool that
was started goes on unless mysql makes it wait, and that mysql ends the transaction
of a client that is gone (its connection is closed); that anyone starts the tool
or a service is not assumed, nor that mysql's lock-wait timeout strikes, so that
`RunsEnd` says that no run needs it. `AclLoop`, `AdminApi`, `Session` and `TokenService` assume nothing and promise only safety.

### Two disagreements between the code and what it says

* `users.go:266`: "guardLastActiveAdmin returns an error when the target is the
  only active admin". Two requests that take out one of two active admins each
  count two before either writes, and both write (`AdminRace`). The service has no
  active admin then, and gets none by any sequence of requests and restarts
  (`LockoutIsPermanent`): `requireAdmin` admits nobody, `EnsureAdmin` returns early
  while users exist. `LockoutOnlyByRace` and `AdminSerial` show that the
  interleaving is the only cause.
* `README.md:113`: "if the key file is missing at startup, auth generates [a key
  and a certificate] and writes both PEMs. Later starts reuse those files."
  A process that ends between the write of the key (`keys.go:46`) and the write of
  the certificate (`keys.go:49`), or inside either, leaves files that every later
  start fails on (`StartupCrash`). `RecoversUnlessTorn` shows that this is the only
  crash that a restart does not repair.

`LimitKept` is worth a remark of the same kind: with the clock read before the
lock, the limit holds for the window less the longest wait for the lock, and not
for one unit more (with `Window - MaxDelay + 1`, TLC finds a call that was overtaken
and does not see two admissions that the overtaker has already forgotten). No
document promises more.

And so for `MigratesAtomically`: each table is copied as it was at one moment, but
not all at the same one. With the service on sqlite still running, a copy may hold
a rule of a user that is not there, or be refused for a token whose user was
created after the users were read; `ExactWhenStopped` and `RefusedForCause` are about
the runs that began after the service was stopped.

## What TLAPS proves

All theorems hold for any sets of ids, any number of requests, replicas, runs and
threads, and either kind of database. They assume the named assumptions of the
modules, which TLC evaluates in the runs: there are finitely many user ids (so that
active admins can be counted), `NULL` is no id, row, request or cookie, the constants
have their types. Six facts are hypotheses of the theorems that need them, and of
no others:

| Hypothesis | Says | Why it holds, and what happens without it |
|---|---|---|
| `OneSlot` (`SerialKeepsAdmin`) | requests are served one at a time | it does not hold: this is the point of `AdminRace` |
| `OneKeyWriter` (`OneKeySigns` and what rests on it) | there is one replica, or the key is provided | `deployment-auth.yaml:7` runs one replica, and the compose README rules out more on sqlite; two replicas on an empty volume generate two keys |
| `PairsProvided` (`RegistryTrusts`, `TokensStayGood`) | files that are provided are a pair | a key with another's certificate is never trusted |
| `DemoIsNotAdmin` (`SeedingIsRepeatable`) | `ADMIN_USER` is none of the demo users | otherwise the demo user that is found is an administrator |
| `PlainSecrets` (`GrantsAreComplete`) | no password is itself of the form `prt_<id>_<secret>` | TLC finds the user whose password is the text of a token of its own, changed while that token is revoked, between the two reads |
| `SourceHasUser` (`MigrationIsAtomic`, `CopyIsExact`, `OrderIsSafe`) | the sqlite file has a user | a service that has served has one; from a file without a row, two runs both bring over nothing, and both say "ok" |

* `StoreProofs`: every statement keeps the tables in their types, users are never
  deleted, tokens keep owner and secret and only ever become inactive. These
  lemmas carry everything else. `UsernamesUnique`: no sequence of statements makes
  two users share a username.
* `AdminApiProofs`
  * `TypeCorrect`.
  * `AdminImplementsStore`: `Spec => StoreSpec`; every step of every interleaving
    writes by at most one statement of the store.
  * `GuardCorrect`: `[]GuardHolds`, which is inductive once the types are known: a
    request enters `set` from `guard`, with a target that is no active admin, or from
    `count`, with more than one active admin counted; and it stays there unraced only
    while the active admins do not change. That a demotion reaches `set` in no other
    way is `DemotionIsGuarded`.
  * `LockoutNeedsRace` and `LockoutPermanent`: the two action properties, from the
    invariant above and from a case split over `Next`.
  * `SerialKeepsAdmin`: with one slot, `[]LastAdminKept`. Here `raced` is always
    false while a request is at `set`, so the guard's knowledge reaches its write.
  * `AnonymousRulesSafe` and `RevocationFinal`: `[]NoAnonymousPushRule` and
    `RevocationIsFinal`, inductive as they stand once the types are known.
* `SessionProofs`
  * `SessionImplementsAdminApi`: `SessionSpec => Spec`, so that every theorem above
    holds with sessions too. A step that is none of `AdminApi` must leave `raced`
    alone although `Observe` runs with it; it does, because `raced` is only ever
    true inside the guarded section (`RacedInGuard`).
  * `SessionTypeCorrect`, by way of that refinement.
  * `OnlyAdminsWrite`: `WritesByAdmins`, from the invariant that a request past
    `requireAdmin` has an entitled user (`AdmittedWereAdmins`).
  * `FormsBelongToLogins`: `FormsStayInTheirLogin`. `validateCSRF` compares tokens,
    the property compares logins. The invariant is over all the cookies that are
    around, in jars, pages and requests: no two have one CSRF token
    (`TokensNameLogins`); and a request in its guarded section has passed
    `validateCSRF` with the call it still has (`GuardedFormsMatch`).
* `AclProofs`
  * `AnonymousNeverPushes`, `PushBringsPull`, `DenyByOmission`, about the policy for
    arbitrary rules.
  * `LoopComputesPolicy`: `[]ComputesPolicy`, for slices of any length. `LoopInv` says
    what the two flags mean in the middle of the inner loop (a rule before `j` has
    set them) and what `out` means in the middle of the outer one (it is the
    policy's answer for the scopes before `i`); `EvaluateOneMore` says that the
    policy answers scope by scope. `FilterGrantedIs` is what the slices of
    `grantedActions` come to.
  * `LoopTypeCorrect`, `LoopOnlyAdds` and `LoopPushImpliesPull`, from `LoopInv`.
* `TokenServiceProofs`
  * `TypeCorrect`.
  * `AuthenticationSound`: `[]AuthenticatedByLogin`. The user is read in one state
    and the token in a later one. The invariant says that at `tokens` the user was
    active under that name at some moment of the request; the argument is that a
    token that is active now and existed then was active then too, because tokens
    only ever die, and that a secret is shown before it is presented.
  * `GrantsSound`: `[]GrantsJustified`, from the invariant that the groups of the
    identity are among the memberships seen so far, and from `GrantedMonotone`
    (more rules or more groups never grant less).
  * `GrantsAreComplete`: `[]GrantsComplete`. What held at every moment of the request
    held at the moment of each read: the user is found active, by its password or
    else by its token; its lasting memberships are among the groups read, and the
    lasting rules among the rules read.
  * `EmptyTokens`: `[]EmptyTokenOnlyForLogin`.
* `StartupProofs`
  * `StartupTypeCorrect`, `LifetimeTypeCorrect`, `ProvisionTypeCorrect`.
  * `OneKeySigns`: `[]OneSigningKey`. `KeyInv` relates the files to every replica at
    each program point: what a replica holds is the key on disk, or disk has
    none and the replica is the one that writes it.
  * `RegistryTrusts`: `[]RegistryAcceptsTokens`. A certificate that can be read is that
    of the key beside it (`PairInv`), for while a replica is writing there is none
    to be read.
  * `LifetimeImplementsStartup`, so that both hold of the tokens that are out.
    `AccessEnds`, `[]AccessLapses`, bounds the history `lapse` by the ages of request
    and token and needs no hypothesis; `TokensStayGood`, `[]TokensLast`, adds that
    the key and the certificate of a token stay the ones on disk.
  * `OneAdminBootstrapped`: `[]OneBootstrapAdmin`, with any number of replicas that
    start together, crash and start again, and with the demo seed. The username is
    unique and all replicas have the same one, so the second insert fails; what the
    seed adds is no administrator.
  * `SeedingIsRepeatable`: `[]SeedsOnce`. The rules that a seeding knows are those in
    the table, whatever an aborted one left behind.
* `RateLimiterProofs`: `LimiterTypeCorrect` and `LimitIsKept`, `[]LimitKept`, for any
  limit, window and lock wait, and any number of clients and threads. The
  invariant has two parts: of the admissions younger than the window the log and the
  history agree (`SameRecent`), since no call forgets one of these; and the bound itself
  (`Bounded`), for a call that is let through has found fewer than the limit in the
  window of its own "now", which contains every period that the admission adds to. A
  period is compared by how many positions of the log lie in it; what the loop `Recent`
  and the ageing do to these counts is what most of the lemmas are about.
* `MigrateCopyProofs`
  * `MigrateTypeCorrect`.
  * `MigrationIsAtomic`: `Spec => MigratesAtomically`, the refinement of `AtomicCopy`.
    What keeps two copies apart is one user `u` of the file (`AnchorInv`): every
    transaction that has copied the users has `u`, so the second one waits for the
    first, and is refused `u` after the commit. That each table is one that the run
    has seen is `RunInv`.
  * `CopyIsExact`: `[]ExactWhenStopped`. With the service stopped, the rows copied so
    far are those of the file (`RunInv`), and before the copy mysql has at most
    administrators (`TargetInv`).
  * `OrderIsSafe`: `[]RefusedForCause`. The tables that a row refers to are behind its
    own in the order of copying, so that a reference is dangling in mysql only if it
    is in the file.

In each case the steps are first read off the actions as a few facts, point by point
(`ToolStep` and `WorldStep` of `MigrateCopyProofs`, `Quiet`, `LoadsKey`, ... of
`StartupProofs`), and the invariants are proved from these.

The loops over slices are recursive functions, whose values the provers know only
from their equation. Where the length is bounded by the code (two actions) they are
unrolled; where it is not (the log of the rate limiter) the induction runs over
sets: `NatSets` and `SeqSets` say that a set of numbers, or of sequences, that is
closed under one more is everything, from the well-foundedness of the naturals in
the library.

Out of the prover's reach, and checked by TLC only: liveness (`RecoversUnlessTorn`,
`LaterStartsServe`, `RunsEnd`, `NotShutOut`). Every other property
of a passing run is stated by a theorem.

## What is not modelled

* Cryptography: hashes, signatures and HMACs are what they accept, 32 random bytes
  are new. Nobody forges a cookie, so the seven days of its `Max-Age`, which the
  server does not check, are only `LoseCookie`.
* Encodings: of JWTs and key ids, of cookies and PEM files, the parsing of forms,
  scopes and `prt_` strings. Their results are.
* `path.Match` (a constant relation), HTML pages, which read and write nothing,
  logging, and configuration, which is read once and has no state.
* The registry beyond its reading of the certificate and its acceptance of a token.
* What a service on mysql writes during a migration after its first administrator.
* A statement of the store is atomic, as sqlite and mysql make it. That several are
  not is what the models are about.

## Plan

Modelled in this order: the store; the administration handlers with their guard;
the access decision; the token endpoint; startup; the rate limiter; the migration;
sessions; token lifetime; the demo seed. Every part that has behaviour of its own is
now in a module, and every safety property that TLC checks is proved.

What is left:

1. Corollaries across modules: that names stay unique under the handlers and under
   sessions, and that a lockout is permanent under sessions too, by the refinements.
2. The liveness properties stay with TLC.
