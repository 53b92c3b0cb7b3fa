------------------------------ MODULE AdminApi ------------------------------
(***************************************************************************)
(* The administration handlers of internal/web: requests in flight, each a *)
(* sequence of store calls that interleaves with the calls of the others.  *)
(*                                                                         *)
(*   idle --RequireAdmin--> handler --one write--> idle                    *)
(*                          handler --> guard --> count --> set --> idle   *)
(*                                                                         *)
(* The second line is /disable and /toggle-admin, whose writes are guarded *)
(* by guardLastActiveAdmin.  A form value that only the final statement    *)
(* uses is chosen with that statement.                                     *)
(***************************************************************************)
EXTENDS Store

CONSTANT Slots   \* the requests that are in flight at once

ASSUME SlotsAssumption == NULL \notin Slots

VARIABLES
  req,    \* what each request is doing
  raced   \* history: did the active admins change since the request's guard?

vars == <<users, tokens, groups, members, rules, req, raced>>

PCs     == {"idle", "handler", "guard", "count", "set"}
Request == [pc : PCs, user : UserIds \cup {NULL},
            column : {"active", "admin"}, value : BOOLEAN]
Idle    == [pc |-> "idle", user |-> NULL, column |-> "active", value |-> FALSE]

TypeOK ==
  /\ StoreTypeOK
  /\ req \in [Slots -> Request]
  /\ raced \in [Slots -> BOOLEAN]
  /\ \A q \in Slots : req[q].pc \in {"guard", "count", "set"} => req[q].user \in UserIds

Init ==
  /\ EmptyDatabase
  /\ req = [q \in Slots |-> Idle]
  /\ raced = [q \in Slots |-> FALSE]

at(q, pc)      == req[q].pc = pc
goto(q, pc)    == req' = [req EXCEPT ![q] = [@ EXCEPT !.pc = pc]]
respond(q)     == req' = [req EXCEPT ![q] = Idle]
InGuard(pc)    == pc \in {"guard", "count", "set"}

\* Keeps the history variable: q stays inside its guarded section while the
\* set of active admins changes.
Observe ==
  raced' = [q \in Slots |->
              /\ InGuard(req[q].pc) /\ InGuard(req'[q].pc)
              /\ raced[q] \/ ActiveAdmins' # ActiveAdmins]

(***************************************************************************)
(* bootstrap.EnsureAdmin, which main runs before it serves requests: with  *)
(* a user in the table it does nothing.                                    *)
(***************************************************************************)
EnsureAdmin ==
  /\ NoUsers
  /\ \E u \in UserIds, name \in Usernames, p \in Passwords :
        CreateUser(u, name, HashPassword(p), TRUE)
  /\ UNCHANGED req

(***************************************************************************)
(* A request arrives with the cookie of some user.  requireAdmin looks     *)
(* that user up again; anyone but an active admin is turned away.          *)
(***************************************************************************)
BUG_RequireAdmin_AnyUser(q) ==   \* the admin column is not looked at
  /\ at(q, "idle")
  /\ \E u \in UserIds : IsUser(u) /\ users[u].active
  /\ goto(q, "handler")
  /\ UNCHANGED tables

RequireAdmin(q) ==
  /\ at(q, "idle")
  /\ \E u \in UserIds : IsActiveAdmin(u)
  /\ goto(q, "handler")
  /\ UNCHANGED tables

\* Every way out of a request that writes nothing: a bad form or CSRF token, a
\* refusal, an error of the store, a cancelled context, a crash of the server.
Fail(q) ==
  /\ ~at(q, "idle")
  /\ respond(q)
  /\ UNCHANGED tables

(***************************************************************************)
(* /admin/users/{id}/disable and /admin/users/{id}/toggle-admin.           *)
(***************************************************************************)
BUG_StartUpdate_NoTarget(q, pc, id, column, value) ==   \* the {id} of the path is lost
  req' = [req EXCEPT ![q] = [pc |-> pc, user |-> NULL, column |-> column, value |-> value]]

StartUpdate(q, pc, id, column, value) ==
  req' = [req EXCEPT ![q] = [pc |-> pc, user |-> id, column |-> column, value |-> value]]

handleUserDisablePOST(q, id) ==
  /\ at(q, "handler")
  /\ StartUpdate(q, "guard", id, "active", FALSE)
  /\ UNCHANGED tables

\* The row is read once here; the guard, when it runs, reads it again.
handleUserToggleAdminPOST(q, id) ==
  /\ at(q, "handler")
  /\ IsUser(id)
  /\ StartUpdate(q, IF users[id].admin THEN "guard" ELSE "set", id,
                 "admin", ~users[id].admin)
  /\ UNCHANGED tables

BUG_guardGetUserByID_NoCount(q) ==   \* the guard stops after its first read
  /\ at(q, "guard")
  /\ IsUser(req[q].user)
  /\ goto(q, "set")
  /\ UNCHANGED tables

\* guardLastActiveAdmin, first read: is the target an active admin at all?
guardGetUserByID(q) ==
  /\ at(q, "guard")
  /\ IsUser(req[q].user)
  /\ goto(q, IF IsActiveAdmin(req[q].user) THEN "count" ELSE "set")
  /\ UNCHANGED tables

BUG_guardCountActiveAdmins_OffByOne(q) ==   \* n <= 0 instead of n <= 1
  /\ at(q, "count")
  /\ CountActiveAdmins > 0
  /\ goto(q, "set")
  /\ UNCHANGED tables

\* guardLastActiveAdmin, second read: n <= 1 is an error.
guardCountActiveAdmins(q) ==
  /\ at(q, "count")
  /\ CountActiveAdmins > 1
  /\ goto(q, "set")
  /\ UNCHANGED tables

BUG_SetUserField_AlsoDemotes(q) ==   \* disabling clears two columns at once
  /\ at(q, "set")
  /\ \/ /\ req[q].column = "active"
        /\ updateUserField(req[q].user,
             [users[req[q].user] EXCEPT !.active = req[q].value, !.admin = FALSE])
     \/ /\ req[q].column = "admin"
        /\ SetUserAdmin(req[q].user, req[q].value)
  /\ respond(q)

SetUserField(q) ==
  /\ at(q, "set")
  /\ \/ /\ req[q].column = "active"
        /\ SetUserActive(req[q].user, req[q].value)
     \/ /\ req[q].column = "admin"
        /\ SetUserAdmin(req[q].user, req[q].value)
  /\ respond(q)

(***************************************************************************)
(* The handlers that make one unguarded write.                             *)
(***************************************************************************)
handleUsersPOST(q) ==
  /\ at(q, "handler")
  /\ \E u \in UserIds, name \in Usernames, p \in Passwords, admin \in BOOLEAN :
        CreateUser(u, name, HashPassword(p), admin)
  /\ respond(q)

handleUserEnablePOST(q) ==
  /\ at(q, "handler")
  /\ \E u \in UserIds : SetUserActive(u, TRUE)
  /\ respond(q)

handleUserResetPasswordPOST(q) ==
  /\ at(q, "handler")
  /\ \E u \in UserIds, p \in Passwords : UpdatePasswordHash(u, HashPassword(p))
  /\ respond(q)

handleAPITokensPOST(q) ==
  /\ at(q, "handler")
  /\ \E t \in TokenIds, u \in UserIds : CreateAPIToken(t, u)
  /\ respond(q)

handleAPITokenRevokePOST(q) ==
  /\ at(q, "handler")
  /\ \E t \in TokenIds : RevokeAPIToken(t)
  /\ respond(q)

handleGroupsPOST(q) ==
  /\ at(q, "handler")
  /\ \E g \in GroupIds, name \in GroupNames : CreateGroup(g, name)
  /\ respond(q)

handleGroupAddMemberPOST(q) ==
  /\ at(q, "handler")
  /\ \E g \in GroupIds, u \in UserIds : AddMember(g, u)
  /\ respond(q)

handleGroupRemoveMemberPOST(q) ==
  /\ at(q, "handler")
  /\ \E g \in GroupIds, u \in UserIds : RemoveMember(g, u)
  /\ respond(q)

\* An anonymous rule loses its subject and may not push; every other kind,
\* known or not, needs a subject, which need not exist.
PostedRule(form) ==
  IF form.kind = "anonymous" THEN [form EXCEPT !.subject = NULL] ELSE form
BUG_AcceptsRule_AnonymousPush(form) ==   \* the action is not looked at
  form.kind = "anonymous" \/ form.subject # NULL
AcceptsRule(form) ==
  IF form.kind = "anonymous" THEN form.action # "push" ELSE form.subject # NULL

handleACLRulesPOST(q) ==
  /\ at(q, "handler")
  /\ \E r \in RuleIds, form \in RuleInputs :
        AcceptsRule(form) /\ CreateACLRule(r, PostedRule(form))
  /\ respond(q)

handleACLRuleDeletePOST(q) ==
  /\ at(q, "handler")
  /\ \E r \in RuleIds : DeleteACLRule(r)
  /\ respond(q)

Step(q) ==
  \/ RequireAdmin(q)
  \/ Fail(q)
  \/ \E id \in UserIds : handleUserDisablePOST(q, id)
  \/ \E id \in UserIds : handleUserToggleAdminPOST(q, id)
  \/ guardGetUserByID(q)
  \/ guardCountActiveAdmins(q)
  \/ SetUserField(q)
  \/ handleUsersPOST(q)
  \/ handleUserEnablePOST(q)
  \/ handleUserResetPasswordPOST(q)
  \/ handleAPITokensPOST(q)
  \/ handleAPITokenRevokePOST(q)
  \/ handleGroupsPOST(q)
  \/ handleGroupAddMemberPOST(q)
  \/ handleGroupRemoveMemberPOST(q)
  \/ handleACLRulesPOST(q)
  \/ handleACLRuleDeletePOST(q)

Next ==
  /\ EnsureAdmin \/ \E q \in Slots : Step(q)
  /\ Observe

Spec == Init /\ [][Next]_vars

-----------------------------------------------------------------------------
(***************************************************************************)
(* The last active admin.                                                  *)
(***************************************************************************)

\* "Cannot disable the last active admin" (users.go:184), "Cannot remove the
\* last active admin" (users.go:221): once there are users, one of them is an
\* active admin.  Requests served one at a time keep it; two at once do not.
LastAdminKept == NoUsers \/ ActiveAdmins # {}

\* The guard's protection is exactly as strong as its atomicity: the last
\* active admin is lost only by the write of a request that some other request
\* overtook, changing the active admins after the guard began.
LockoutOnlyByRace ==
  [][ActiveAdmins # {} /\ ActiveAdmins' = {}
       => \E q \in Slots : at(q, "set") /\ raced[q] /\ req'[q] = Idle]_vars

\* Why: until the active admins change, what the guard saw stays true, so the
\* write it let through either misses the active admins or leaves another one.
GuardHolds ==
  \A q \in Slots :
    at(q, "set") /\ ~req[q].value /\ ~raced[q]
      => \/ ~IsActiveAdmin(req[q].user)
         \/ \E u \in UserIds : u # req[q].user /\ IsActiveAdmin(u)

\* A service in which nobody can administrate any more: no active admin, and
\* no request left that was admitted while there was one.
LockedOut == ~NoUsers /\ ActiveAdmins = {} /\ \A q \in Slots : at(q, "idle")

\* There is no way back from it: requireAdmin admits no one and EnsureAdmin,
\* which every restart runs, does nothing while users exist.
LockoutIsPermanent == [][LockedOut => LockedOut']_vars

(***************************************************************************)
(* What the handlers keep true of the tables.                              *)
(***************************************************************************)

\* Anonymous push is refused, and a subject posted with an anonymous rule is
\* dropped: no anonymous rule of the table pushes or names a subject.
NoAnonymousPushRule ==
  \A r \in RuleIds :
    IsRule(r) /\ rules[r].kind = "anonymous"
      => rules[r].action # "push" /\ rules[r].subject = NULL

\* A revoked token stays what it is: no later request reactivates it, gives it
\* another owner or another secret.
RevocationIsFinal ==
  [][\A t \in TokenIds :
       IsToken(t) /\ ~tokens[t].active => tokens'[t] = tokens[t]]_vars
=============================================================================
