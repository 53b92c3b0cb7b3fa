\* One replica, as it is deployed, with three crashes, and its tokens.
CONSTANTS
  NULL = NULL
  k0 = k0
  UserIds = {u1}
  TokenIds = {}
  GroupIds = {}
  RuleIds = {}
  Usernames = {root}
  GroupNames = {}
  Passwords = {secret}
  Patterns = {}
  RuleInputs <- NoRules
  ForeignKeys = FALSE
  Replicas = {r1}
  KeyIds = {k0, k1, k2, k3, k4}
  AdminUser = root
  AdminPassword = secret
  InitialFiles <- EitherVolume
  MaxCrashes = 3
  TTL = 3
  Leeway = 1
  Grace = 1
  MaxDelay = 2
  Skews <- MCSkews
SPECIFICATION LifetimeSpec
INVARIANTS LifetimeTypeOK OneSigningKey RegistryAcceptsTokens AccessLapses TokensLast
PROPERTIES RecoversUnlessTorn
