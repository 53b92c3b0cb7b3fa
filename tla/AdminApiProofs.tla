--------------------------- MODULE AdminApiProofs ---------------------------
(***************************************************************************)
(* Theorems about the administration handlers, for every number of users,  *)
(* tokens, groups, rules and requests in flight.                           *)
(***************************************************************************)
EXTENDS AdminApi, StoreProofs, FiniteSetTheorems

-----------------------------------------------------------------------------
(***************************************************************************)
(* Typing.                                                                 *)
(***************************************************************************)

\* A posted rule is a row of acl_rules.
LEMMA PostedRuleTyped == ASSUME NEW form \in RuleInputs PROVE PostedRule(form) \in RuleRow
<1>1. form \in RuleRow
  BY StoreAssumption
<1> QED BY <1>1 DEF PostedRule, RuleRow

\* A request only ever moves between the steps of the handlers.
LEMMA RequestTyped ==
  ASSUME TypeOK, NEW q \in Slots, Step(q)
  PROVE  /\ req' \in [Slots -> Request]
         /\ \A p \in Slots : InGuard(req'[p].pc) => req'[p].user \in UserIds
<1> USE DEF TypeOK, Request, PCs, InGuard
<1>1. Idle \in Request
  BY DEF Idle
<1>2. ASSUME respond(q)
      PROVE  /\ req' \in [Slots -> Request]
             /\ \A p \in Slots : InGuard(req'[p].pc) => req'[p].user \in UserIds
  BY <1>1, <1>2 DEF respond, Idle
<1>3. ASSUME NEW pc \in PCs, goto(q, pc), req[q].user \in UserIds \/ pc = "handler"
      PROVE  /\ req' \in [Slots -> Request]
             /\ \A p \in Slots : InGuard(req'[p].pc) => req'[p].user \in UserIds
  <2>1. [req[q] EXCEPT !.pc = pc] \in Request
    BY <1>3
  <2> QED BY <1>3, <2>1 DEF goto
<1>4. ASSUME NEW id \in UserIds, NEW pc \in PCs, NEW c \in {"active", "admin"},
             NEW v \in BOOLEAN, StartUpdate(q, pc, id, c, v)
      PROVE  /\ req' \in [Slots -> Request]
             /\ \A p \in Slots : InGuard(req'[p].pc) => req'[p].user \in UserIds
  <2>1. [pc |-> pc, user |-> id, column |-> c, value |-> v] \in Request
    BY <1>4
  <2> QED BY <1>4, <2>1 DEF StartUpdate
<1>5. CASE RequireAdmin(q)
  BY <1>3, <1>5 DEF RequireAdmin
<1>6. ASSUME NEW id \in UserIds, handleUserDisablePOST(q, id)
      PROVE  StartUpdate(q, "guard", id, "active", FALSE)
  BY <1>6 DEF handleUserDisablePOST
<1>7. ASSUME NEW id \in UserIds, handleUserToggleAdminPOST(q, id)
      PROVE  \E pc \in PCs, v \in BOOLEAN : StartUpdate(q, pc, id, "admin", v)
  <2>1. users[id].admin \in BOOLEAN
    BY <1>7 DEF handleUserToggleAdminPOST, IsUser, StoreTypeOK, UserRow
  <2> QED BY <1>7, <2>1 DEF handleUserToggleAdminPOST
<1>8. CASE guardGetUserByID(q)
  BY <1>3, <1>8 DEF guardGetUserByID, at
<1>9. CASE guardCountActiveAdmins(q)
  BY <1>3, <1>9 DEF guardCountActiveAdmins, at
<1>10. \/ respond(q) \/ RequireAdmin(q) \/ guardGetUserByID(q)
       \/ guardCountActiveAdmins(q)
       \/ \E id \in UserIds : handleUserDisablePOST(q, id)
       \/ \E id \in UserIds : handleUserToggleAdminPOST(q, id)
  <2> HIDE DEF TypeOK, Request, PCs, InGuard
  <2> QED
    BY DEF Step, Fail, SetUserField, handleUsersPOST, handleUserEnablePOST,
           handleUserResetPasswordPOST, handleAPITokensPOST, handleAPITokenRevokePOST,
           handleGroupsPOST, handleGroupAddMemberPOST, handleGroupRemoveMemberPOST,
           handleACLRulesPOST, handleACLRuleDeletePOST
<1>11. CASE \E id \in UserIds : handleUserDisablePOST(q, id)
  BY <1>4, <1>6, <1>11
<1>12. CASE \E id \in UserIds : handleUserToggleAdminPOST(q, id)
  BY <1>4, <1>7, <1>12
<1> QED BY <1>2, <1>5, <1>8, <1>9, <1>10, <1>11, <1>12

\* A step of one request is no step of another.
LEMMA StepIsLocal ==
  ASSUME req \in [Slots -> Request], NEW p \in Slots, NEW q \in Slots, p # q, Step(p)
  PROVE  req'[q] = req[q]
<1>1. ASSUME respond(p) \/ \E pc \in PCs : goto(p, pc) PROVE req'[q] = req[q]
  BY <1>1 DEF respond, goto
<1>2. ASSUME NEW pc, NEW id, NEW c, NEW v, StartUpdate(p, pc, id, c, v)
      PROVE  req'[q] = req[q]
  BY <1>2 DEF StartUpdate
<1> QED
  BY <1>1, <1>2
  DEF Step, PCs, RequireAdmin, Fail, handleUserDisablePOST, handleUserToggleAdminPOST,
      guardGetUserByID, guardCountActiveAdmins, SetUserField, handleUsersPOST,
      handleUserEnablePOST, handleUserResetPasswordPOST, handleAPITokensPOST,
      handleAPITokenRevokePOST, handleGroupsPOST, handleGroupAddMemberPOST,
      handleGroupRemoveMemberPOST, handleACLRulesPOST, handleACLRuleDeletePOST

\* Whatever a request does to the tables, it does in one statement of the store.
LEMMA StepWrites ==
  ASSUME TypeOK, NEW q \in Slots, Step(q)
  PROVE  Write(RuleRow) \/ UNCHANGED tables
<1>1. CASE SetUserField(q)
  <2>1. req[q].user \in UserIds /\ req[q].value \in BOOLEAN
    BY <1>1 DEF SetUserField, at, TypeOK, Request
  <2> QED BY <1>1, <2>1 DEF SetUserField, Write, WriteUser
<1>2. CASE \/ handleUsersPOST(q) \/ handleUserEnablePOST(q) \/ handleUserResetPasswordPOST(q)
  BY <1>2 DEF handleUsersPOST, handleUserEnablePOST, handleUserResetPasswordPOST,
              Write, WriteUser
<1>3. CASE handleAPITokensPOST(q) \/ handleAPITokenRevokePOST(q)
  BY <1>3 DEF handleAPITokensPOST, handleAPITokenRevokePOST, Write, WriteToken
<1>4. CASE \/ handleGroupsPOST(q) \/ handleGroupAddMemberPOST(q)
           \/ handleGroupRemoveMemberPOST(q)
  BY <1>4 DEF handleGroupsPOST, handleGroupAddMemberPOST, handleGroupRemoveMemberPOST,
              Write, WriteGroup
<1>5. CASE handleACLRulesPOST(q) \/ handleACLRuleDeletePOST(q)
  BY <1>5, PostedRuleTyped
  DEF handleACLRulesPOST, handleACLRuleDeletePOST, Write, WriteRule
<1>6. CASE \/ RequireAdmin(q) \/ Fail(q) \/ guardGetUserByID(q) \/ guardCountActiveAdmins(q)
           \/ \E id \in UserIds : handleUserDisablePOST(q, id)
           \/ \E id \in UserIds : handleUserToggleAdminPOST(q, id)
  BY <1>6 DEF RequireAdmin, Fail, handleUserDisablePOST, handleUserToggleAdminPOST,
              guardGetUserByID, guardCountActiveAdmins
<1> QED BY <1>1, <1>2, <1>3, <1>4, <1>5, <1>6 DEF Step

LEMMA NextWrites == ASSUME TypeOK, [Next]_vars PROVE [Write(RuleRow)]_tables
<1>1. EnsureAdmin => Write(RuleRow)
  BY DEF EnsureAdmin, Write, WriteUser
<1> QED BY <1>1, StepWrites DEF Next, vars, tables

LEMMA TypeStep == ASSUME TypeOK, [Next]_vars PROVE TypeOK' /\ UsersKept
<1>1. CASE UNCHANGED vars
  BY <1>1 DEF vars, TypeOK, StoreTypeOK, UsersKept, IsUser
<1>2. CASE Next
  <2>1. StoreTypeOK' /\ UsersKept
    <3>1. CASE UNCHANGED tables
      BY <3>1 DEF tables, TypeOK, StoreTypeOK, UsersKept, IsUser
    <3>2. CASE Write(RuleRow)
      BY <3>2, WritesTyped DEF TypeOK
    <3> QED BY <3>1, <3>2, NextWrites
  <2>2. raced' \in [Slots -> BOOLEAN]
    BY <1>2 DEF Next, Observe, TypeOK
  <2>3. CASE EnsureAdmin
    BY <2>1, <2>2, <2>3 DEF EnsureAdmin, TypeOK
  <2>4. ASSUME NEW q \in Slots, Step(q) PROVE TypeOK'
    BY <2>1, <2>2, <2>4, RequestTyped DEF TypeOK, InGuard
  <2> QED BY <1>2, <2>1, <2>3, <2>4 DEF Next
<1> QED BY <1>1, <1>2

\* The tables and the requests keep their types.
THEOREM TypeCorrect == Spec => []TypeOK
<1>1. Init => TypeOK
  BY DEF Init, EmptyDatabase, TypeOK, StoreTypeOK, Request, PCs, Idle
<1> QED BY <1>1, TypeStep, PTL DEF Spec

\* The administration service is a client of the store like any other: it
\* changes the tables by the store's statements alone, one at a time.
THEOREM AdminImplementsStore == Spec => StoreSpec
<1>1. Init => EmptyDatabase
  BY DEF Init
<1>2. TypeOK /\ [Next]_vars => [Write(RuleRow)]_tables
  BY NextWrites
<1> QED BY <1>1, <1>2, TypeCorrect, PTL DEF Spec, StoreSpec

-----------------------------------------------------------------------------
(***************************************************************************)
(* What a step may do to the active admins.                                *)
(***************************************************************************)

\* Only the guarded write can take an active admin away, and then only the one
\* it is about.
LEMMA GuardedWriteLosesOne ==
  ASSUME TypeOK, NEW q \in Slots, SetUserField(q)
  PROVE  /\ ActiveAdmins \ {req[q].user} \subseteq ActiveAdmins'
         /\ req[q].value => ActiveAdmins \subseteq ActiveAdmins'
<1> DEFINE id == req[q].user
<1>1. id \in UserIds /\ req[q].value \in BOOLEAN
  BY DEF SetUserField, at, TypeOK, Request
<1>2. users[id] \in UserRow
  BY <1>1 DEF SetUserField, SetUserActive, SetUserAdmin, updateUserField, IsUser, TypeOK,
              StoreTypeOK
<1>3. ASSUME NEW row \in UserRow, users' = [users EXCEPT ![id] = row],
             req[q].value => row.active = users[id].active \/ row.active,
             req[q].value => row.admin = users[id].admin \/ row.admin
      PROVE  /\ ActiveAdmins \ {id} \subseteq ActiveAdmins'
             /\ req[q].value => ActiveAdmins \subseteq ActiveAdmins'
  <2>1. row # NULL
    BY NullIsNoRow
  <2> QED BY <1>1, <1>3, <2>1 DEF ActiveAdmins, IsActiveAdmin, IsUser, TypeOK, StoreTypeOK
<1>4. CASE SetUserActive(id, req[q].value)
  <2> DEFINE row == [users[id] EXCEPT !.active = req[q].value]
  <2>1. row \in UserRow /\ row.active = req[q].value /\ row.admin = users[id].admin
    BY <1>1, <1>2 DEF UserRow
  <2> QED BY <1>3, <1>4, <2>1 DEF SetUserActive, updateUserField
<1>5. CASE SetUserAdmin(id, req[q].value)
  <2> DEFINE row == [users[id] EXCEPT !.admin = req[q].value]
  <2>1. row \in UserRow /\ row.admin = req[q].value /\ row.active = users[id].active
    BY <1>1, <1>2 DEF UserRow
  <2> QED BY <1>3, <1>5, <2>1 DEF SetUserAdmin, updateUserField
<1> QED BY <1>4, <1>5 DEF SetUserField

\* Creating, enabling or resetting a user never takes an admin away.
LEMMA UserWritesKeepAdmins ==
  ASSUME StoreTypeOK, NEW u \in UserIds
  PROVE  /\ \A name \in Usernames, h \in Hashes, admin \in BOOLEAN :
              CreateUser(u, name, h, admin) => ActiveAdmins \subseteq ActiveAdmins'
         /\ SetUserActive(u, TRUE) => ActiveAdmins \subseteq ActiveAdmins'
         /\ \A h \in Hashes : UpdatePasswordHash(u, h) => ActiveAdmins \subseteq ActiveAdmins'
<1> USE DEF ActiveAdmins, IsActiveAdmin, IsUser, StoreTypeOK
<1>1. ASSUME NEW name \in Usernames, NEW h \in Hashes, NEW admin \in BOOLEAN,
             CreateUser(u, name, h, admin)
      PROVE  ActiveAdmins \subseteq ActiveAdmins'
  BY <1>1 DEF CreateUser, NewUserID
<1>2. ASSUME SetUserActive(u, TRUE) PROVE ActiveAdmins \subseteq ActiveAdmins'
  <2> DEFINE row == [users[u] EXCEPT !.active = TRUE]
  <2>1. users[u] \in UserRow
    BY <1>2 DEF SetUserActive, updateUserField
  <2>2. row \in UserRow /\ row.active /\ row.admin = users[u].admin
    BY <2>1 DEF UserRow
  <2>3. row # NULL
    BY <2>2, NullIsNoRow
  <2> QED BY <1>2, <2>2, <2>3 DEF SetUserActive, updateUserField
<1>3. ASSUME NEW h \in Hashes, UpdatePasswordHash(u, h)
      PROVE  ActiveAdmins \subseteq ActiveAdmins'
  <2> DEFINE row == [users[u] EXCEPT !.hash = h]
  <2>1. users[u] \in UserRow
    BY <1>3 DEF UpdatePasswordHash, updateUserField
  <2>2. row \in UserRow /\ row.active = users[u].active /\ row.admin = users[u].admin
    BY <2>1 DEF UserRow
  <2>3. row # NULL
    BY <2>2, NullIsNoRow
  <2> QED BY <1>3, <2>2, <2>3 DEF UpdatePasswordHash, updateUserField
<1> QED BY <1>1, <1>2, <1>3

LEMMA OtherStepsKeepAdmins ==
  ASSUME TypeOK, [Next]_vars, ~\E q \in Slots : SetUserField(q)
  PROVE  ActiveAdmins \subseteq ActiveAdmins'
<1> USE DEF TypeOK
<1>1. ASSUME UNCHANGED users PROVE ActiveAdmins \subseteq ActiveAdmins'
  BY <1>1 DEF ActiveAdmins, IsActiveAdmin, IsUser
<1>2. \A p \in Passwords : HashPassword(p) \in Hashes
  BY DEF HashPassword, Hashes, Secrets
<1>3. CASE EnsureAdmin
  BY <1>2, <1>3, UserWritesKeepAdmins DEF EnsureAdmin
<1>4. ASSUME NEW q \in Slots, Step(q) PROVE ActiveAdmins \subseteq ActiveAdmins'
  <2>1. CASE handleUsersPOST(q)
    BY <1>2, <2>1, UserWritesKeepAdmins DEF handleUsersPOST
  <2>2. CASE handleUserEnablePOST(q)
    BY <2>2, UserWritesKeepAdmins DEF handleUserEnablePOST
  <2>3. CASE handleUserResetPasswordPOST(q)
    BY <1>2, <2>3, UserWritesKeepAdmins DEF handleUserResetPasswordPOST
  <2> QED
    BY <1>1, <1>4, <2>1, <2>2, <2>3
    DEF Step, tables, RequireAdmin, Fail, handleUserDisablePOST,
        handleUserToggleAdminPOST, guardGetUserByID, guardCountActiveAdmins,
        handleAPITokensPOST, handleAPITokenRevokePOST, handleGroupsPOST,
        handleGroupAddMemberPOST, handleGroupRemoveMemberPOST, handleACLRulesPOST,
        handleACLRuleDeletePOST, CreateAPIToken, RevokeAPIToken, CreateGroup,
        AddMember, RemoveMember, CreateACLRule, DeleteACLRule
<1> QED BY <1>1, <1>3, <1>4 DEF Next, vars

-----------------------------------------------------------------------------
(***************************************************************************)
(* The last active admin.  GuardHolds is inductive with TypeOK: a request  *)
(* enters "set" with what the guard has just read, and stays there         *)
(* unraced only while the active admins stay the same.                     *)
(***************************************************************************)

\* A demotion reaches "set" only through the guard.
LEMMA DemotionIsGuarded ==
  ASSUME TypeOK, Next, NEW q \in Slots, req'[q].pc = "set", ~req'[q].value
  PROVE  req'[q] = req[q] \/ guardGetUserByID(q) \/ guardCountActiveAdmins(q)
<1> req \in [Slots -> Request]
  BY DEF TypeOK
<1>1. CASE EnsureAdmin
  BY <1>1 DEF EnsureAdmin
<1>2. ASSUME NEW p \in Slots, Step(p), p # q PROVE req'[q] = req[q]
  BY <1>2, StepIsLocal
<1>3. CASE Step(q)
  <2>1. ~respond(q)
    BY DEF respond, Idle
  <2>2. ~RequireAdmin(q)
    BY DEF RequireAdmin, goto, Request
  <2>3. ASSUME NEW id \in UserIds, handleUserDisablePOST(q, id) PROVE FALSE
    BY <2>3 DEF handleUserDisablePOST, StartUpdate
  <2>4. ASSUME NEW id \in UserIds, handleUserToggleAdminPOST(q, id) PROVE FALSE
    BY <2>4 DEF handleUserToggleAdminPOST, StartUpdate
  <2> QED
    BY <1>3, <2>1, <2>2, <2>3, <2>4
    DEF Step, Fail, SetUserField, handleUsersPOST, handleUserEnablePOST,
        handleUserResetPasswordPOST, handleAPITokensPOST, handleAPITokenRevokePOST,
        handleGroupsPOST, handleGroupAddMemberPOST, handleGroupRemoveMemberPOST,
        handleACLRulesPOST, handleACLRuleDeletePOST
<1> QED BY <1>1, <1>2, <1>3 DEF Next

\* Counting more than one active admin finds one besides any given user.
LEMMA MoreThanOne ==
  ASSUME CountActiveAdmins > 1, NEW id
  PROVE  \E u \in UserIds : u # id /\ IsActiveAdmin(u)
<1>1. ActiveAdmins \subseteq UserIds /\ IsFiniteSet(UserIds)
  BY StoreAssumption DEF ActiveAdmins
<1>2. IsFiniteSet(ActiveAdmins)
  BY <1>1, FS_Subset
<1>3. ASSUME ActiveAdmins \subseteq {id} PROVE FALSE
  <2>1. Cardinality({id}) = 1 /\ IsFiniteSet({id})
    BY FS_Singleton
  <2>2. Cardinality(ActiveAdmins) <= 1
    BY <1>3, <2>1, FS_Subset
  <2>3. Cardinality(ActiveAdmins) \in Nat
    BY <1>2, FS_CardinalityType
  <2> QED BY <2>2, <2>3 DEF CountActiveAdmins
<1> QED BY <1>3 DEF ActiveAdmins

LEMMA GuardStep == ASSUME TypeOK, GuardHolds, [Next]_vars PROVE GuardHolds'
<1>1. CASE UNCHANGED vars
  BY <1>1 DEF vars, GuardHolds, at, IsActiveAdmin, IsUser
<1>2. CASE Next
  <2> SUFFICES ASSUME NEW q \in Slots,
                      req'[q].pc = "set", ~req'[q].value, ~raced'[q]
               PROVE  \/ ~IsActiveAdmin(req[q].user)'
                      \/ \E u \in UserIds : u # req'[q].user /\ IsActiveAdmin(u)'
    BY DEF GuardHolds, at
  <2>1. req'[q].user \in UserIds /\ TypeOK'
    BY <1>2, TypeStep DEF TypeOK
  <2>2. req'[q] = req[q] \/ guardGetUserByID(q) \/ guardCountActiveAdmins(q)
    BY <1>2, DemotionIsGuarded
  <2>3. InGuard(req[q].pc) /\ InGuard(req'[q].pc)
    BY <2>2 DEF guardGetUserByID, guardCountActiveAdmins, at, InGuard
  <2>4. ~raced[q] /\ ActiveAdmins' = ActiveAdmins
    BY <1>2, <2>3 DEF Next, Observe
  <2>5. \A u \in UserIds : IsActiveAdmin(u)' <=> IsActiveAdmin(u)
    BY <2>4 DEF ActiveAdmins
  <2>6. CASE req'[q] = req[q]
    BY <2>1, <2>4, <2>5, <2>6 DEF GuardHolds, at
  <2>7. CASE guardGetUserByID(q)
    <3>1. req'[q].user = req[q].user /\ req'[q].pc = IF IsActiveAdmin(req[q].user) THEN "count" ELSE "set"
      BY <2>7 DEF guardGetUserByID, goto, TypeOK, Request
    <3> QED BY <2>1, <2>5, <3>1
  <2>8. CASE guardCountActiveAdmins(q)
    BY <2>5, <2>8, MoreThanOne DEF guardCountActiveAdmins
  <2> QED BY <2>2, <2>6, <2>7, <2>8
<1> QED BY <1>1, <1>2

\* Until the active admins change, the guard's verdict stays true.
THEOREM GuardCorrect == Spec => []GuardHolds
<1>1. Init => GuardHolds
  BY DEF Init, GuardHolds, at, Idle
<1> QED BY <1>1, TypeCorrect, GuardStep, PTL DEF Spec

LEMMA LockoutStep ==
  ASSUME TypeOK, GuardHolds, [Next]_vars, ActiveAdmins # {}, ActiveAdmins' = {}
  PROVE  \E q \in Slots : at(q, "set") /\ raced[q] /\ req'[q] = Idle
<1>1. PICK q \in Slots : SetUserField(q)
  BY OtherStepsKeepAdmins
<1>2. at(q, "set") /\ req'[q] = Idle
  BY <1>1 DEF SetUserField, respond, TypeOK
<1>3. req[q].user \in UserIds /\ req[q].value \in BOOLEAN /\ raced[q] \in BOOLEAN
  BY <1>2 DEF at, TypeOK, Request
<1>4. ActiveAdmins \subseteq {req[q].user} /\ ~req[q].value
  BY <1>1, <1>3, GuardedWriteLosesOne
<1>5. raced[q]
  BY <1>2, <1>3, <1>4 DEF GuardHolds, ActiveAdmins
<1> QED BY <1>2, <1>5

\* The last active admin is lost only by a request that another one overtook.
THEOREM LockoutNeedsRace == Spec => LockoutOnlyByRace
<1>1. TypeOK /\ GuardHolds /\ [Next]_vars
        => [ActiveAdmins # {} /\ ActiveAdmins' = {}
              => \E q \in Slots : at(q, "set") /\ raced[q] /\ req'[q] = Idle]_vars
  BY LockoutStep
<1> QED BY <1>1, TypeCorrect, GuardCorrect, PTL DEF Spec, LockoutOnlyByRace

-----------------------------------------------------------------------------
(***************************************************************************)
(* Lockout.                                                                *)
(***************************************************************************)

LEMMA LockedOutStep == ASSUME LockedOut, [Next]_vars PROVE LockedOut'
<1>1. CASE UNCHANGED vars
  BY <1>1 DEF vars, LockedOut, NoUsers, ActiveAdmins, IsActiveAdmin, IsUser, at
<1>2. ASSUME NEW q \in Slots, Step(q) PROVE FALSE
  <2>1. at(q, "idle") /\ ~\E u \in UserIds : IsActiveAdmin(u)
    BY DEF LockedOut, ActiveAdmins
  <2> QED
    BY <1>2, <2>1
    DEF Step, at, RequireAdmin, Fail, handleUserDisablePOST, handleUserToggleAdminPOST,
        guardGetUserByID, guardCountActiveAdmins, SetUserField, handleUsersPOST,
        handleUserEnablePOST, handleUserResetPasswordPOST, handleAPITokensPOST,
        handleAPITokenRevokePOST, handleGroupsPOST, handleGroupAddMemberPOST,
        handleGroupRemoveMemberPOST, handleACLRulesPOST, handleACLRuleDeletePOST
<1>3. ~EnsureAdmin
  BY DEF EnsureAdmin, LockedOut
<1> QED BY <1>1, <1>2, <1>3 DEF Next

\* No request and no restart brings an admin back.
THEOREM LockoutPermanent == Spec => LockoutIsPermanent
<1>1. [Next]_vars => [LockedOut => LockedOut']_vars
  BY LockedOutStep
<1> QED BY <1>1, PTL DEF Spec, LockoutIsPermanent

-----------------------------------------------------------------------------
(***************************************************************************)
(* One request at a time.                                                  *)
(***************************************************************************)
OneSlot == \A p, q \in Slots : p = q

\* While its only request is guarded, nothing changes the active admins: there
\* are users, so EnsureAdmin is disabled, and no other request runs.
SerialInv ==
  /\ LastAdminKept
  /\ \A q \in Slots : ~raced[q] /\ (~at(q, "idle") => ~NoUsers)

LEMMA UsersStay == ASSUME TypeOK, [Next]_vars, ~NoUsers PROVE ~NoUsers'
BY TypeStep DEF UsersKept, NoUsers

LEMMA SerialStep ==
  ASSUME OneSlot, TypeOK, GuardHolds, SerialInv, [Next]_vars
  PROVE  SerialInv'
<1>1. LastAdminKept'
  <2>1. CASE NoUsers
    <3>1. ~\E q \in Slots : Step(q)
      <4>1. ASSUME NEW q \in Slots, Step(q) PROVE FALSE
        <5>1. at(q, "idle") /\ ~\E u \in UserIds : IsActiveAdmin(u)
          BY <2>1 DEF SerialInv, NoUsers, IsActiveAdmin
        <5> QED
          BY <4>1, <5>1
          DEF Step, at, RequireAdmin, Fail, handleUserDisablePOST,
              handleUserToggleAdminPOST, guardGetUserByID, guardCountActiveAdmins,
              SetUserField, handleUsersPOST, handleUserEnablePOST,
              handleUserResetPasswordPOST, handleAPITokensPOST, handleAPITokenRevokePOST,
              handleGroupsPOST, handleGroupAddMemberPOST, handleGroupRemoveMemberPOST,
              handleACLRulesPOST, handleACLRuleDeletePOST
      <4> QED BY <4>1
    <3>2. CASE EnsureAdmin
      <4>1. PICK u \in UserIds, name \in Usernames, p \in Passwords :
              CreateUser(u, name, HashPassword(p), TRUE)
        BY <3>2 DEF EnsureAdmin
      <4>2. [username |-> name, hash |-> HashPassword(p), active |-> TRUE, admin |-> TRUE]
              \in UserRow
        BY DEF UserRow, HashPassword, Hashes, Secrets
      <4>3. IsActiveAdmin(u)'
        BY <4>1, <4>2, NullIsNoRow
        DEF CreateUser, IsActiveAdmin, IsUser, TypeOK, StoreTypeOK
      <4> QED BY <4>3 DEF LastAdminKept, ActiveAdmins
    <3>3. CASE UNCHANGED vars
      BY <2>1, <3>3 DEF vars, LastAdminKept, NoUsers, IsUser
    <3> QED BY <3>1, <3>2, <3>3 DEF Next
  <2>2. CASE ~NoUsers
    BY <2>2, LockoutStep DEF SerialInv, LastAdminKept
  <2> QED BY <2>1, <2>2
<1>2. ASSUME NEW q \in Slots, ~at(q, "idle")' PROVE ~NoUsers'
  <2>1. ~NoUsers
    <3>1. CASE at(q, "idle")
      <4>1. \A pc : EnsureAdmin \/ UNCHANGED vars => req'[q] = req[q]
        BY DEF EnsureAdmin, vars
      <4>2. PICK p \in Slots : Step(p)
        BY <1>2, <3>1, <4>1 DEF Next, at
      <4>3. p = q
        BY DEF OneSlot
      <4>4. RequireAdmin(q)
        BY <3>1, <4>2, <4>3
        DEF Step, at, Fail, handleUserDisablePOST, handleUserToggleAdminPOST,
            guardGetUserByID, guardCountActiveAdmins, SetUserField, handleUsersPOST,
            handleUserEnablePOST, handleUserResetPasswordPOST, handleAPITokensPOST,
            handleAPITokenRevokePOST, handleGroupsPOST, handleGroupAddMemberPOST,
            handleGroupRemoveMemberPOST, handleACLRulesPOST, handleACLRuleDeletePOST
      <4> QED BY <4>4 DEF RequireAdmin, NoUsers, IsActiveAdmin
    <3> QED BY <3>1 DEF SerialInv
  <2> QED BY <2>1, UsersStay
<1>3. ASSUME NEW q \in Slots PROVE ~raced'[q]
  <2>1. CASE UNCHANGED vars
    BY <2>1 DEF vars, SerialInv
  <2>2. ASSUME Next, InGuard(req[q].pc), InGuard(req'[q].pc), ActiveAdmins' # ActiveAdmins
        PROVE  FALSE
    <3>1. ~EnsureAdmin
      BY <2>2 DEF SerialInv, EnsureAdmin, at, InGuard
    <3>2. PICK p \in Slots : Step(p)
      BY <2>2, <3>1 DEF Next
    <3>3. p = q
      BY DEF OneSlot
    <3>4. users' # users
      BY <2>2 DEF ActiveAdmins, IsActiveAdmin, IsUser
    <3>5. ~respond(q)
      BY <2>2 DEF respond, Idle, InGuard, TypeOK
    <3> QED
      BY <3>2, <3>3, <3>4, <3>5
      DEF Step, tables, RequireAdmin, Fail, handleUserDisablePOST,
          handleUserToggleAdminPOST, guardGetUserByID, guardCountActiveAdmins,
          SetUserField, handleUsersPOST, handleUserEnablePOST,
          handleUserResetPasswordPOST, handleAPITokensPOST, handleAPITokenRevokePOST,
          handleGroupsPOST, handleGroupAddMemberPOST, handleGroupRemoveMemberPOST,
          handleACLRulesPOST, handleACLRuleDeletePOST
  <2>3. CASE Next
    BY <2>2, <2>3 DEF Next, Observe, SerialInv
  <2> QED BY <2>1, <2>3
<1> QED BY <1>1, <1>2, <1>3 DEF SerialInv

\* Served one request at a time, the service never loses its last active admin.
THEOREM SerialKeepsAdmin == ASSUME OneSlot PROVE Spec => []LastAdminKept
<1>1. Init => SerialInv
  BY DEF Init, SerialInv, LastAdminKept, EmptyDatabase, NoUsers, IsUser, at, Idle
<1>2. TypeOK /\ GuardHolds /\ SerialInv /\ [Next]_vars => SerialInv'
  BY SerialStep
<1>3. SerialInv => LastAdminKept
  BY DEF SerialInv
<1> QED BY <1>1, <1>2, <1>3, TypeCorrect, GuardCorrect, PTL DEF Spec

-----------------------------------------------------------------------------
(***************************************************************************)
(* Anonymous rules and revoked tokens.                                     *)
(***************************************************************************)

\* A posted form that is accepted becomes a rule without anonymous push.
LEMMA PostedRuleSafe ==
  ASSUME NEW form \in RuleInputs, AcceptsRule(form), PostedRule(form).kind = "anonymous"
  PROVE  PostedRule(form).action # "push" /\ PostedRule(form).subject = NULL
<1>1. form \in RuleRow
  BY StoreAssumption
<1> QED BY <1>1 DEF PostedRule, AcceptsRule, RuleRow

LEMMA AnonymousStep ==
  ASSUME TypeOK, NoAnonymousPushRule, [Next]_vars
  PROVE  NoAnonymousPushRule'
<1> USE DEF NoAnonymousPushRule, IsRule
<1>1. CASE UNCHANGED rules
  BY <1>1
<1>2. ASSUME NEW q \in Slots, handleACLRulesPOST(q) PROVE NoAnonymousPushRule'
  <2>1. PICK r \in RuleIds, form \in RuleInputs :
          AcceptsRule(form) /\ CreateACLRule(r, PostedRule(form))
    BY <1>2 DEF handleACLRulesPOST
  <2> QED BY <2>1, PostedRuleSafe DEF CreateACLRule, TypeOK, StoreTypeOK
<1>3. ASSUME NEW q \in Slots, handleACLRuleDeletePOST(q) PROVE NoAnonymousPushRule'
  BY <1>3 DEF handleACLRuleDeletePOST, DeleteACLRule, TypeOK, StoreTypeOK
<1>4. ASSUME NEW q \in Slots, Step(q) PROVE NoAnonymousPushRule'
  <2>1. UNCHANGED rules \/ handleACLRulesPOST(q) \/ handleACLRuleDeletePOST(q)
    BY <1>4
    DEF Step, tables, RequireAdmin, Fail, handleUserDisablePOST,
        handleUserToggleAdminPOST, guardGetUserByID, guardCountActiveAdmins, SetUserField,
        handleUsersPOST, handleUserEnablePOST, handleUserResetPasswordPOST,
        handleAPITokensPOST, handleAPITokenRevokePOST, handleGroupsPOST,
        handleGroupAddMemberPOST, handleGroupRemoveMemberPOST, CreateUser, SetUserActive,
        SetUserAdmin, UpdatePasswordHash, updateUserField, CreateAPIToken, RevokeAPIToken,
        CreateGroup, AddMember, RemoveMember
  <2> QED BY <1>1, <1>2, <1>3, <2>1
<1>5. EnsureAdmin => UNCHANGED rules
  BY DEF EnsureAdmin, CreateUser
<1> QED BY <1>1, <1>4, <1>5 DEF Next, vars

\* No order of posts leaves an anonymous rule that pushes or names a subject.
THEOREM AnonymousRulesSafe == Spec => []NoAnonymousPushRule
<1>1. Init => NoAnonymousPushRule
  BY DEF Init, EmptyDatabase, NoAnonymousPushRule, IsRule
<1> QED BY <1>1, TypeCorrect, AnonymousStep, PTL DEF Spec

LEMMA RevokedStep ==
  ASSUME TypeOK, [Next]_vars, NEW t \in TokenIds, IsToken(t), ~tokens[t].active
  PROVE  tokens'[t] = tokens[t]
<1>1. tokens[t] \in TokenRow
  BY DEF TypeOK, StoreTypeOK, IsToken
<1>2. CASE UNCHANGED tokens
  BY <1>2
<1>3. ASSUME NEW i \in TokenIds, RevokeAPIToken(i) PROVE tokens'[t] = tokens[t]
  <2>1. [tokens[t] EXCEPT !.active = FALSE] = tokens[t]
    BY <1>1 DEF TokenRow
  <2> QED BY <1>3, <2>1 DEF RevokeAPIToken, TypeOK, StoreTypeOK
<1>4. ASSUME NEW i \in TokenIds, NEW u \in UserIds, CreateAPIToken(i, u)
      PROVE  tokens'[t] = tokens[t]
  BY <1>4 DEF CreateAPIToken, TypeOK, StoreTypeOK
<1>5. CASE Write(RuleRow)
  BY <1>2, <1>3, <1>4, <1>5
  DEF Write, WriteUser, WriteToken, WriteGroup, WriteRule, CreateUser, SetUserActive,
      SetUserAdmin, UpdatePasswordHash, updateUserField, CreateGroup, AddMember,
      RemoveMember, CreateACLRule, UpdateACLRule, DeleteACLRule
<1> QED BY <1>2, <1>5, NextWrites DEF tables

\* Whatever administrators do afterwards, a revoked token stays as it is.
THEOREM RevocationFinal == Spec => RevocationIsFinal
<1>1. TypeOK /\ [Next]_vars
        => [\A t \in TokenIds :
              IsToken(t) /\ ~tokens[t].active => tokens'[t] = tokens[t]]_vars
  BY RevokedStep
<1> QED BY <1>1, TypeCorrect, PTL DEF Spec, RevocationIsFinal
=============================================================================
