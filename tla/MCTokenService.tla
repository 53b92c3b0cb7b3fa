--------------------------- MODULE MCTokenService ---------------------------
(* TLC instances of TokenService.                                          *)
EXTENDS TokenService, TLC

CONSTANTS u1, g1, team, public, teamApp, publicApp

NoRules == {}
NoScopes == {{}}
MCMatches == {<<team, teamApp>>, <<public, publicApp>>, <<public, teamApp>>}

\* Rules for the group, for the user, and for anonymous; the last, which only a
\* direct write to the store can leave there, must grant nothing.
SomeRules == {
  [kind |-> "group",     subject |-> g1,   pattern |-> team,   action |-> "push"],
  [kind |-> "user",      subject |-> u1,   pattern |-> team,   action |-> "pull"],
  [kind |-> "anonymous", subject |-> NULL, pattern |-> public, action |-> "push"] }

\* docker login, a pull of one repository, a push to it that mounts from another.
SomeRequests == {
  {},
  {[type |-> "repository", name |-> publicApp, actions |-> {"pull"}]},
  {[type |-> "repository", name |-> teamApp,   actions |-> {"push"}],
   [type |-> "repository", name |-> publicApp, actions |-> {"pull"}]} }

UserSymmetry  == Permutations(UserIds)
TokenSymmetry == Permutations(TokenIds)
CredentialSymmetry == Permutations(UserIds) \cup Permutations(TokenIds)
                        \cup Permutations(Usernames) \cup Permutations(Passwords)
GrantSymmetry == Permutations(RuleIds)
=============================================================================
