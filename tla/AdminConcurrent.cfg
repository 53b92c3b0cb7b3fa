\* Every handler, two requests at once over three users and small tables.
CONSTANTS
  NULL = NULL
  g1 = g1  p1 = p1
  UserIds = {u1, u2, u3}
  TokenIds = {t1}
  GroupIds = {g1}
  RuleIds = {a1}
  Usernames = {alice, bob, carol}
  GroupNames = {team}
  Passwords = {secret}
  Patterns = {p1}
  RuleInputs <- SomeRules
  ForeignKeys = TRUE
  Slots = {r1, r2}
SPECIFICATION Spec
CHECK_DEADLOCK FALSE
SYMMETRY Symmetry
INVARIANTS TypeOK GuardHolds NoAnonymousPushRule
PROPERTIES LockoutOnlyByRace LockoutIsPermanent RevocationIsFinal StoreSpec
