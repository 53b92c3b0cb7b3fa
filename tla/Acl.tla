-------------------------------- MODULE Acl --------------------------------
(***************************************************************************)
(* The access decision of internal/acl as a policy over sets: which of the *)
(* requested actions an identity is granted by a collection of rules.      *)
(* AclLoop is the code's own loops over slices, checked against it.        *)
(*                                                                         *)
(*   rule:      [kind, subject, pattern, action]                           *)
(*   identity:  [anonymous, user, groups]                                  *)
(*   scope:     [type, name, actions]                                      *)
(***************************************************************************)

\* The (pattern, repository name) pairs that path.Match accepts; a malformed
\* pattern accepts nothing.
CONSTANT Matches

Match(pattern, name) == <<pattern, name>> \in Matches

subjectMatches(id, rule) ==
  \/ rule.kind = "anonymous" /\ id.anonymous
  \/ rule.kind = "user"  /\ ~id.anonymous /\ rule.subject = id.user
  \/ rule.kind = "group" /\ ~id.anonymous /\ rule.subject \in id.groups

Applies(id, rule, name) == subjectMatches(id, rule) /\ Match(rule.pattern, name)

\* A push rule that applies to an anonymous client grants nothing at all.
grantedPush(id, ruleSet, name) ==
  /\ ~id.anonymous
  /\ \E rule \in ruleSet : Applies(id, rule, name) /\ rule.action = "push"

grantedPull(id, ruleSet, name) ==
  \/ grantedPush(id, ruleSet, name)
  \/ \E rule \in ruleSet : Applies(id, rule, name) /\ rule.action = "pull"

\* Only requested actions are granted, except that push brings pull with it.
grantedActions(pull, push, requested) ==
  IF push /\ "push" \in requested THEN {"pull", "push"}
  ELSE {a \in requested : a = "pull" /\ (pull \/ push)}

Granted(id, ruleSet, scope) ==
  grantedActions(grantedPull(id, ruleSet, scope.name),
                 grantedPush(id, ruleSet, scope.name), scope.actions)

Evaluate(id, ruleSet, requested) ==
  {[type |-> scope.type, name |-> scope.name, actions |-> Granted(id, ruleSet, scope)] :
     scope \in {s \in requested : /\ s.type = "repository"
                                  /\ Granted(id, ruleSet, s) # {}}}
=============================================================================
