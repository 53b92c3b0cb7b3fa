\* Authentication: users and their tokens change while one request is served.
CONSTANTS
  NULL = NULL
  u1 = u1  g1 = g1  team = team  public = public  teamApp = teamApp  publicApp = publicApp
  UserIds = {u1, u2}
  TokenIds = {t1, t2}
  GroupIds = {}
  RuleIds = {}
  Usernames = {alice, bob}
  GroupNames = {}
  Passwords = {secret, changed}
  Patterns = {}
  RuleInputs <- NoRules
  ForeignKeys = FALSE
  Matches = {}
  Clients = {c1}
  Repositories = {}
  Requests <- NoScopes
SPECIFICATION Spec
SYMMETRY CredentialSymmetry
INVARIANTS TypeOK AuthenticatedByLogin
