\* Two replicas that mount the same provided key pair; the demo is seeded.
CONSTANTS
  NULL = NULL
  k0 = k0  writer = writer  reader = reader  secret = secret
  UserIds = {u1, u2, u3}
  TokenIds = {}
  GroupIds = {}
  RuleIds = {a1, a2, a3}
  Usernames = {root, writer, reader}
  GroupNames = {}
  Passwords = {secret}
  Patterns = {p1}
  RuleInputs <- NoRules
  ForeignKeys = FALSE
  Replicas = {r1, r2}
  KeyIds = {k0}
  AdminUser = root
  AdminPassword = secret
  InitialFiles <- ProvidedFiles
  MaxCrashes = 2
  DemoUsers <- MCDemoUsers
  RepoPattern = p1
SPECIFICATION ProvisionSpec
INVARIANTS SeedsOnce OneBootstrapAdmin
PROPERTIES LaterStartsServe
