\* Authorization: memberships and rules change while one request is served.
CONSTANTS
  NULL = NULL
  u1 = u1  g1 = g1  team = team  public = public  teamApp = teamApp  publicApp = publicApp
  UserIds = {u1}
  TokenIds = {}
  GroupIds = {g1}
  RuleIds = {a1, a2}
  Usernames = {alice}
  GroupNames = {devs}
  Passwords = {secret}
  Patterns = {team, public}
  RuleInputs <- SomeRules
  ForeignKeys = FALSE
  Matches <- MCMatches
  Clients = {c1}
  Repositories = {teamApp, publicApp}
  Requests <- SomeRequests
SPECIFICATION Spec
SYMMETRY GrantSymmetry
INVARIANTS GrantsJustified GrantsComplete EmptyTokenOnlyForLogin
