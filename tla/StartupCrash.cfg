\* What README.md says of later starts, with one crash.
CONSTANTS
  NULL = NULL
  k0 = k0
  UserIds = {u1, u2}
  TokenIds = {}
  GroupIds = {}
  RuleIds = {}
  Usernames = {root}
  GroupNames = {}
  Passwords = {secret}
  Patterns = {}
  RuleInputs <- NoRules
  ForeignKeys = FALSE
  Replicas = {r1}
  KeyIds = {k0, k1, k2}
  AdminUser = root
  AdminPassword = secret
  InitialFiles <- EmptyVolume
  MaxCrashes = 1
SPECIFICATION Spec
PROPERTIES LaterStartsServe
