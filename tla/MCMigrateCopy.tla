--------------------------- MODULE MCMigrateCopy ---------------------------
(* TLC instances of MigrateCopy.                                           *)
EXTENDS MigrateCopy, TLC

CONSTANTS u1, u2, u3, t1, g1, g2, a1, p1, root, jose, joseAccent, devs, Devs, secret

\* joseAccent differs from jose in an accent, Devs from devs in its case.
MCFold == [n \in Usernames \cup GroupNames |->
             IF n = joseAccent THEN jose ELSE IF n = Devs THEN devs ELSE n]

user(name, active, admin) ==
  [username |-> name, hash |-> HashPassword(secret), active |-> active, admin |-> admin]
rule(u) == [kind |-> "user", subject |-> u, pattern |-> p1, action |-> "pull"]
token(u) == [user |-> u, hash |-> HashPassword(t1), active |-> TRUE]
none(ids) == [i \in ids |-> NULL]

SomeRules == {rule(u1)}

\* An administrator of another name than ADMIN_USER; and a small installation:
\* an admin, a disabled user with a token, a group and a rule.
MCSources == {
  [users |-> (u1 :> user(jose, TRUE, TRUE)) @@ none(UserIds), tokens |-> none(TokenIds),
   groups |-> none(GroupIds), members |-> {}, rules |-> none(RuleIds)],
  [users |-> (u1 :> user(root, TRUE, TRUE)) @@ (u2 :> user(jose, FALSE, FALSE)) @@ none(UserIds),
   tokens |-> (t1 :> token(u2)) @@ none(TokenIds),
   groups |-> (g1 :> devs) @@ none(GroupIds), members |-> {<<g1, u2>>},
   rules |-> (a1 :> rule(u2)) @@ none(RuleIds)] }
=============================================================================
