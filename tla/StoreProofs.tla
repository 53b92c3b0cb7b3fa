---------------------------- MODULE StoreProofs ----------------------------
(***************************************************************************)
(* What no writer of the store can do to its tables, in any number of      *)
(* statements: the facts that the services built on the store rely on.     *)
(***************************************************************************)
EXTENDS Store, TLAPS

\* A user is never deleted.
UsersKept == \A u \in UserIds : IsUser(u) => IsUser(u)'

LEMMA UserWritesTyped == ASSUME StoreTypeOK, WriteUser PROVE StoreTypeOK' /\ UsersKept
<1>1. PICK u \in UserIds :
        \/ \E name \in Usernames, p \in Passwords, admin \in BOOLEAN :
             CreateUser(u, name, HashPassword(p), admin)
        \/ \E b \in BOOLEAN : SetUserActive(u, b) \/ SetUserAdmin(u, b)
        \/ \E p \in Passwords : UpdatePasswordHash(u, HashPassword(p))
  BY DEF WriteUser
<1>2. \A p \in Passwords : HashPassword(p) \in Hashes
  BY DEF HashPassword, Hashes, Secrets
<1>3. ASSUME NEW row \in UserRow, users' = [users EXCEPT ![u] = row],
             UNCHANGED <<tokens, groups, members, rules>>
      PROVE  StoreTypeOK' /\ UsersKept
  BY <1>3, NullIsNoRow DEF StoreTypeOK, UsersKept, IsUser
<1>4. ASSUME IsUser(u) PROVE users[u] \in UserRow
  BY <1>4 DEF StoreTypeOK, IsUser
<1>5. ASSUME NEW name \in Usernames, NEW p \in Passwords, NEW admin \in BOOLEAN,
             CreateUser(u, name, HashPassword(p), admin)
      PROVE  StoreTypeOK' /\ UsersKept
  <2>1. [username |-> name, hash |-> HashPassword(p), active |-> TRUE, admin |-> admin]
          \in UserRow
    BY <1>2 DEF UserRow
  <2> QED BY <1>3, <1>5, <2>1 DEF CreateUser
<1>6. ASSUME NEW b \in BOOLEAN, SetUserActive(u, b) PROVE StoreTypeOK' /\ UsersKept
  <2>1. [users[u] EXCEPT !.active = b] \in UserRow
    BY <1>4, <1>6 DEF SetUserActive, updateUserField, UserRow
  <2> QED BY <1>3, <1>6, <2>1 DEF SetUserActive, updateUserField
<1>7. ASSUME NEW b \in BOOLEAN, SetUserAdmin(u, b) PROVE StoreTypeOK' /\ UsersKept
  <2>1. [users[u] EXCEPT !.admin = b] \in UserRow
    BY <1>4, <1>7 DEF SetUserAdmin, updateUserField, UserRow
  <2> QED BY <1>3, <1>7, <2>1 DEF SetUserAdmin, updateUserField
<1>8. ASSUME NEW p \in Passwords, UpdatePasswordHash(u, HashPassword(p))
      PROVE  StoreTypeOK' /\ UsersKept
  <2>1. [users[u] EXCEPT !.hash = HashPassword(p)] \in UserRow
    BY <1>2, <1>4, <1>8 DEF UpdatePasswordHash, updateUserField, UserRow
  <2> QED BY <1>3, <1>8, <2>1 DEF UpdatePasswordHash, updateUserField
<1> QED BY <1>1, <1>5, <1>6, <1>7, <1>8

LEMMA TokenWritesTyped == ASSUME StoreTypeOK, WriteToken PROVE StoreTypeOK'
<1>1. ASSUME NEW t \in TokenIds, NEW u \in UserIds, CreateAPIToken(t, u)
      PROVE  StoreTypeOK'
  <2>1. [user |-> u, hash |-> HashPassword(t), active |-> TRUE] \in TokenRow
    BY DEF TokenRow, HashPassword, Hashes, Secrets
  <2> QED BY <1>1, <2>1 DEF CreateAPIToken, StoreTypeOK
<1>2. ASSUME NEW t \in TokenIds, RevokeAPIToken(t) PROVE StoreTypeOK'
  <2>1. [tokens[t] EXCEPT !.active = FALSE] \in TokenRow
    BY <1>2 DEF RevokeAPIToken, IsToken, StoreTypeOK, TokenRow
  <2> QED BY <1>2, <2>1 DEF RevokeAPIToken, StoreTypeOK
<1> QED BY <1>1, <1>2 DEF WriteToken

LEMMA AccessWritesTyped ==
  ASSUME StoreTypeOK, NEW inputs \in SUBSET RuleRow, WriteGroup \/ WriteRule(inputs)
  PROVE  StoreTypeOK'
<1>1. CASE WriteGroup
  <2>1. ASSUME NEW g \in GroupIds, NEW name \in GroupNames, CreateGroup(g, name)
        PROVE  StoreTypeOK'
    BY <2>1 DEF CreateGroup, StoreTypeOK
  <2>2. ASSUME NEW g \in GroupIds, NEW u \in UserIds, AddMember(g, u) \/ RemoveMember(g, u)
        PROVE  StoreTypeOK'
    BY <2>2 DEF AddMember, RemoveMember, StoreTypeOK
  <2> QED BY <1>1, <2>1, <2>2 DEF WriteGroup
<1>2. CASE WriteRule(inputs)
  BY <1>2 DEF WriteRule, CreateACLRule, UpdateACLRule, DeleteACLRule, StoreTypeOK
<1> QED BY <1>1, <1>2

LEMMA WritesTyped ==
  ASSUME StoreTypeOK, NEW inputs \in SUBSET RuleRow, Write(inputs)
  PROVE  StoreTypeOK' /\ UsersKept
<1>1. WriteToken \/ WriteGroup \/ WriteRule(inputs) => UNCHANGED users
  BY DEF WriteToken, WriteGroup, WriteRule, CreateAPIToken, RevokeAPIToken, CreateGroup,
         AddMember, RemoveMember, CreateACLRule, UpdateACLRule, DeleteACLRule
<1>2. UNCHANGED users => UsersKept
  BY DEF UsersKept, IsUser
<1> QED BY <1>1, <1>2, UserWritesTyped, TokenWritesTyped, AccessWritesTyped DEF Write

-----------------------------------------------------------------------------
\* Every token accepts its own secret and no other.
TokenSecrets == \A t \in TokenIds : IsToken(t) => tokens[t].hash = HashPassword(t)

\* A token keeps its owner, and never comes back to life.
TokensOnlyDie ==
  \A t \in TokenIds :
    IsToken(t) => /\ IsToken(t)'
                  /\ tokens'[t].user = tokens[t].user
                  /\ tokens'[t].active => tokens[t].active

LEMMA TokenStep ==
  ASSUME StoreTypeOK, TokenSecrets, NEW inputs \in SUBSET RuleRow, Write(inputs)
  PROVE  TokenSecrets' /\ TokensOnlyDie
<1> USE DEF TokenSecrets, TokensOnlyDie, IsToken
<1>1. ASSUME NEW t \in TokenIds, NEW u \in UserIds, CreateAPIToken(t, u)
      PROVE  TokenSecrets' /\ TokensOnlyDie
  BY <1>1 DEF CreateAPIToken, StoreTypeOK
<1>2. ASSUME NEW t \in TokenIds, RevokeAPIToken(t)
      PROVE  TokenSecrets' /\ TokensOnlyDie
  <2> DEFINE row == [tokens[t] EXCEPT !.active = FALSE]
  <2>1. tokens[t] \in TokenRow
    BY <1>2 DEF RevokeAPIToken, StoreTypeOK
  <2>2. /\ row \in TokenRow /\ ~row.active
        /\ row.user = tokens[t].user /\ row.hash = tokens[t].hash
    BY <2>1 DEF TokenRow
  <2>3. row # NULL
    BY <2>2, NullIsNoRow
  <2>4. tokens' = [tokens EXCEPT ![t] = row]
    BY <1>2 DEF RevokeAPIToken
  <2> HIDE DEF row
  <2> QED BY <1>2, <2>2, <2>3, <2>4 DEF RevokeAPIToken, StoreTypeOK
<1>3. CASE UNCHANGED tokens
  BY <1>3
<1>4. CASE WriteToken
  BY <1>1, <1>2, <1>4 DEF WriteToken
<1>5. ASSUME WriteUser \/ WriteGroup \/ WriteRule(inputs) PROVE UNCHANGED tokens
  BY <1>5
  DEF WriteUser, WriteGroup, WriteRule, CreateUser, SetUserActive, SetUserAdmin,
      UpdatePasswordHash, updateUserField, CreateGroup, AddMember, RemoveMember,
      CreateACLRule, UpdateACLRule, DeleteACLRule
<1> QED BY <1>3, <1>4, <1>5 DEF Write

-----------------------------------------------------------------------------
\* No two users share a username.
UniqueNames ==
  \A u, v \in UserIds :
    IsUser(u) /\ IsUser(v) /\ users[u].username = users[v].username => u = v

LEMMA NamesStep ==
  ASSUME StoreTypeOK, UniqueNames, NEW inputs \in SUBSET RuleRow, Write(inputs)
  PROVE  UniqueNames'
<1>1. CASE UNCHANGED users
  BY <1>1 DEF UniqueNames, IsUser
<1>2. ASSUME NEW u \in UserIds, NEW row, updateUserField(u, row),
             row.username = users[u].username
      PROVE  UniqueNames'
  <2>1. \A v \in UserIds : /\ IsUser(v)' => IsUser(v)
                           /\ users'[v].username = users[v].username
    BY <1>2 DEF updateUserField, StoreTypeOK, IsUser
  <2> QED BY <2>1 DEF UniqueNames
<1>3. ASSUME NEW u \in UserIds, NEW name \in Usernames, NEW p \in Passwords,
             NEW admin \in BOOLEAN, CreateUser(u, name, HashPassword(p), admin)
      PROVE  UniqueNames'
  <2>1. /\ users'[u].username = name
        /\ \A v \in UserIds \ {u} : users'[v] = users[v]
        /\ \A v \in UserIds : IsUser(v) => users[v].username # name
    BY <1>3 DEF CreateUser, GetUserByUsername, StoreTypeOK
  <2> QED BY <2>1 DEF UniqueNames, IsUser
<1>4. CASE WriteUser
  <2>1. \A u \in UserIds : IsUser(u) => users[u] \in UserRow
    BY DEF StoreTypeOK, IsUser
  <2>2. ASSUME NEW u \in UserIds, NEW b \in BOOLEAN,
               SetUserActive(u, b) \/ SetUserAdmin(u, b)
        PROVE  UniqueNames'
    <3>1. users[u] \in UserRow
      BY <2>1, <2>2 DEF SetUserActive, SetUserAdmin, updateUserField
    <3>2. /\ [users[u] EXCEPT !.active = b].username = users[u].username
          /\ [users[u] EXCEPT !.admin = b].username = users[u].username
      BY <3>1 DEF UserRow
    <3> QED BY <1>2, <2>2, <3>2 DEF SetUserActive, SetUserAdmin
  <2>3. ASSUME NEW u \in UserIds, NEW h, UpdatePasswordHash(u, h)
        PROVE  UniqueNames'
    <3>1. users[u] \in UserRow
      BY <2>1, <2>3 DEF UpdatePasswordHash, updateUserField
    <3>2. [users[u] EXCEPT !.hash = h].username = users[u].username
      BY <3>1 DEF UserRow
    <3> QED BY <1>2, <2>3, <3>2 DEF UpdatePasswordHash
  <2> QED BY <1>3, <1>4, <2>2, <2>3 DEF WriteUser
<1>5. WriteToken \/ WriteGroup \/ WriteRule(inputs) => UNCHANGED users
  BY DEF WriteToken, WriteGroup, WriteRule, CreateAPIToken, RevokeAPIToken, CreateGroup,
         AddMember, RemoveMember, CreateACLRule, UpdateACLRule, DeleteACLRule
<1> QED BY <1>1, <1>4, <1>5 DEF Write

\* Whoever writes to the store, one statement after the other: its tables keep
\* their types, and no two users ever share a username (users.username is UNIQUE).
THEOREM UsernamesUnique == StoreSpec => [](StoreTypeOK /\ UniqueNames)
<1>1. EmptyDatabase => StoreTypeOK /\ UniqueNames
  BY DEF EmptyDatabase, StoreTypeOK, UniqueNames, IsUser
<1>2. StoreTypeOK /\ UniqueNames /\ [Write(RuleRow)]_tables
        => (StoreTypeOK /\ UniqueNames)'
  <2>1. StoreTypeOK /\ UniqueNames /\ UNCHANGED tables => (StoreTypeOK /\ UniqueNames)'
    BY DEF tables, StoreTypeOK, UniqueNames, IsUser
  <2> QED BY <2>1, WritesTyped, NamesStep
<1> QED BY <1>1, <1>2, PTL DEF StoreSpec
=============================================================================
