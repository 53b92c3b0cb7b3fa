\* Every call with at most two rules and two scopes.
CONSTANTS
  alice = alice  bob = bob  devs = devs  noone = noone
  glob = glob  teamApp = teamApp  otherApp = otherApp
  Matches <- MCMatches
  Identities <- MCIdentities
  Rules <- MCRules
  Scopes <- MCScopes
  MaxRules = 2
  MaxScopes = 2
SPECIFICATION Spec
\* The call ends.
CHECK_DEADLOCK FALSE
INVARIANTS TypeOK ComputesPolicy OnlyAdds PushImpliesPull
