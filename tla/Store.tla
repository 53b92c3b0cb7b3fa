------------------------------- MODULE Store -------------------------------
(***************************************************************************)
(* The database behind the auth service (internal/store): five tables and  *)
(* one action per statement that writes.  The sqlite and the mysql store   *)
(* run the same statements; each statement is one atomic step and no       *)
(* method of the store opens a transaction, so everything that a handler   *)
(* does around a statement interleaves with the other handlers.            *)
(*                                                                         *)
(* A table is a total function from ids to rows; NULL marks an id that has *)
(* no row.  An action is enabled when the statement succeeds: a duplicate  *)
(* key, a missing row (sql.ErrNoRows) or a broken reference disables it,   *)
(* and its caller then takes its error path, which writes nothing.         *)
(***************************************************************************)
EXTENDS Naturals, FiniteSets

CONSTANTS
  UserIds, TokenIds, GroupIds, RuleIds,  \* what NewID draws from
  Usernames,    \* usernames up to case: the column is COLLATE NOCASE
  GroupNames,
  Passwords,    \* the passwords people choose
  Patterns,     \* repository patterns of ACL rules
  RuleInputs,   \* the rule forms that are posted (bounds TLC's runs)
  ForeignKeys,  \* TRUE for mysql, which enforces REFERENCES; sqlite does not
  NULL

Kinds   == {"user", "group", "anonymous", "other"}  \* "other": any string
Actions == {"pull", "push", "other"}                \* the form lets through

RuleRow == [kind    : Kinds,
            subject : UserIds \cup GroupIds \cup {NULL},
            pattern : Patterns,
            action  : Actions]

\* Ids are 16 random bytes: finitely many, and no two rows share one.
ASSUME StoreAssumption ==
  /\ IsFiniteSet(UserIds)
  /\ RuleInputs \subseteq RuleRow
  /\ ForeignKeys \in BOOLEAN
  /\ NULL \notin UserIds \cup TokenIds \cup GroupIds \cup RuleIds
                 \cup GroupNames \cup RuleRow

(***************************************************************************)
(* password.go.  A salted argon2id hash is represented by the one string   *)
(* it accepts.  The secret of an API token is 32 fresh random bytes, named *)
(* here by the id of its token.                                            *)
(***************************************************************************)
Secrets == Passwords \cup TokenIds
HashPassword(s)     == [argon2id |-> s]
CheckPassword(h, s) == h.argon2id = s
Hashes  == [argon2id : Secrets]

UserRow  == [username : Usernames, hash : Hashes, active : BOOLEAN, admin : BOOLEAN]
TokenRow == [user : UserIds, hash : Hashes, active : BOOLEAN]

ASSUME NullIsNoRow == NULL \notin UserRow \cup TokenRow

VARIABLES
  users,    \* id -> row: username, password hash, active, admin
  tokens,   \* id -> row: owner, secret hash, active
  groups,   \* id -> name
  members,  \* the (group, user) pairs of group_members
  rules     \* id -> row of acl_rules

tables == <<users, tokens, groups, members, rules>>

StoreTypeOK ==
  /\ users   \in [UserIds  -> UserRow \cup {NULL}]
  /\ tokens  \in [TokenIds -> TokenRow \cup {NULL}]
  /\ groups  \in [GroupIds -> GroupNames \cup {NULL}]
  /\ members \subseteq GroupIds \X UserIds
  /\ rules   \in [RuleIds  -> RuleRow \cup {NULL}]

\* The schema as migrate leaves it.
EmptyDatabase ==
  /\ users   = [u \in UserIds  |-> NULL]
  /\ tokens  = [t \in TokenIds |-> NULL]
  /\ groups  = [g \in GroupIds |-> NULL]
  /\ members = {}
  /\ rules   = [r \in RuleIds  |-> NULL]

(***************************************************************************)
(* What the statements read.                                               *)
(***************************************************************************)
IsUser(u)  == users[u] # NULL
IsGroup(g) == groups[g] # NULL
IsToken(t) == tokens[t] # NULL
IsRule(r)  == rules[r] # NULL

GetUserByUsername(name) == {u \in UserIds : IsUser(u) /\ users[u].username = name}
ListAPITokensByUser(u)  == {t \in TokenIds : IsToken(t) /\ tokens[t].user = u}
ListGroupIDsForUser(u)  == {g \in GroupIds : <<g, u>> \in members}
ListACLRules            == {rules[r] : r \in {x \in RuleIds : IsRule(x)}}

IsActiveAdmin(u)  == IsUser(u) /\ users[u].active /\ users[u].admin
ActiveAdmins      == {u \in UserIds : IsActiveAdmin(u)}
CountActiveAdmins == Cardinality(ActiveAdmins)
NoUsers           == \A u \in UserIds : ~IsUser(u)

\* NewID never draws an id that a row already has or refers to.
NewUserID(u) ==
  /\ ~IsUser(u)
  /\ ListAPITokensByUser(u) = {}
  /\ ListGroupIDsForUser(u) = {}
  /\ \A r \in RuleIds : IsRule(r) => rules[r].subject # u
NewGroupID(g) ==
  /\ ~IsGroup(g)
  /\ \A u \in UserIds : <<g, u>> \notin members
  /\ \A r \in RuleIds : IsRule(r) => rules[r].subject # g

(***************************************************************************)
(* The statements that write.                                              *)
(***************************************************************************)
BUG_CreateUser_Duplicate(id, username, hash, admin) ==   \* username is not UNIQUE
  /\ NewUserID(id)
  /\ users' = [users EXCEPT ![id] =
                 [username |-> username, hash |-> hash, active |-> TRUE, admin |-> admin]]
  /\ UNCHANGED <<tokens, groups, members, rules>>

CreateUser(id, username, hash, admin) ==
  /\ NewUserID(id)
  /\ GetUserByUsername(username) = {}
  /\ users' = [users EXCEPT ![id] =
                 [username |-> username, hash |-> hash, active |-> TRUE, admin |-> admin]]
  /\ UNCHANGED <<tokens, groups, members, rules>>

updateUserField(id, row) ==
  /\ IsUser(id)
  /\ users' = [users EXCEPT ![id] = row]
  /\ UNCHANGED <<tokens, groups, members, rules>>

SetUserActive(id, active)    == updateUserField(id, [users[id] EXCEPT !.active = active])
SetUserAdmin(id, admin)      == updateUserField(id, [users[id] EXCEPT !.admin = admin])
UpdatePasswordHash(id, hash) == updateUserField(id, [users[id] EXCEPT !.hash = hash])

CreateAPIToken(id, user) ==
  /\ ~IsToken(id)
  /\ ForeignKeys => IsUser(user)
  /\ tokens' = [tokens EXCEPT ![id] =
                  [user |-> user, hash |-> HashPassword(id), active |-> TRUE]]
  /\ UNCHANGED <<users, groups, members, rules>>

BUG_RevokeAPIToken_Toggle(id) ==   \* active = NOT active
  /\ IsToken(id)
  /\ tokens' = [tokens EXCEPT ![id] = [@ EXCEPT !.active = ~@]]
  /\ UNCHANGED <<users, groups, members, rules>>

RevokeAPIToken(id) ==
  /\ IsToken(id)
  /\ tokens' = [tokens EXCEPT ![id] = [@ EXCEPT !.active = FALSE]]
  /\ UNCHANGED <<users, groups, members, rules>>

CreateGroup(id, name) ==
  /\ NewGroupID(id)
  /\ \A g \in GroupIds : groups[g] # name
  /\ groups' = [groups EXCEPT ![id] = name]
  /\ UNCHANGED <<users, tokens, members, rules>>

AddMember(g, u) ==
  /\ <<g, u>> \notin members
  /\ ForeignKeys => IsGroup(g) /\ IsUser(u)
  /\ members' = members \cup {<<g, u>>}
  /\ UNCHANGED <<users, tokens, groups, rules>>

RemoveMember(g, u) ==
  /\ <<g, u>> \in members
  /\ members' = members \ {<<g, u>>}
  /\ UNCHANGED <<users, tokens, groups, rules>>

CreateACLRule(id, input) ==
  /\ ~IsRule(id)
  /\ rules' = [rules EXCEPT ![id] = input]
  /\ UNCHANGED <<users, tokens, groups, members>>

\* No handler calls it; it is part of the store's interface all the same.
UpdateACLRule(id, input) ==
  /\ IsRule(id)
  /\ rules' = [rules EXCEPT ![id] = input]
  /\ UNCHANGED <<users, tokens, groups, members>>

DeleteACLRule(id) ==
  /\ IsRule(id)
  /\ rules' = [rules EXCEPT ![id] = NULL]
  /\ UNCHANGED <<users, tokens, groups, members>>

(***************************************************************************)
(* What any client of the store may do to it, one statement at a time.     *)
(***************************************************************************)
WriteUser ==
  \E u \in UserIds :
    \/ \E name \in Usernames, p \in Passwords, admin \in BOOLEAN :
         CreateUser(u, name, HashPassword(p), admin)
    \/ \E b \in BOOLEAN : SetUserActive(u, b) \/ SetUserAdmin(u, b)
    \/ \E p \in Passwords : UpdatePasswordHash(u, HashPassword(p))

WriteToken ==
  \E t \in TokenIds :
    RevokeAPIToken(t) \/ \E u \in UserIds : CreateAPIToken(t, u)

WriteGroup ==
  \E g \in GroupIds :
    \/ \E name \in GroupNames : CreateGroup(g, name)
    \/ \E u \in UserIds : AddMember(g, u) \/ RemoveMember(g, u)

WriteRule(inputs) ==
  \E r \in RuleIds :
    \/ DeleteACLRule(r)
    \/ \E input \in inputs : CreateACLRule(r, input) \/ UpdateACLRule(r, input)

Write(inputs) == WriteUser \/ WriteToken \/ WriteGroup \/ WriteRule(inputs)

StoreSpec == EmptyDatabase /\ [][Write(RuleRow)]_tables
=============================================================================
