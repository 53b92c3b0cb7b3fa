\* What users.go says of the guard, with two requests at once.
CONSTANTS
  NULL = NULL
  g1 = g1  p1 = p1
  UserIds = {u1, u2}
  TokenIds = {}
  GroupIds = {}
  RuleIds = {}
  Usernames = {alice, bob}
  GroupNames = {}
  Passwords = {secret}
  Patterns = {p1}
  RuleInputs <- NoRules
  ForeignKeys = FALSE
  Slots = {r1, r2}
SPECIFICATION Spec
CHECK_DEADLOCK FALSE
SYMMETRY Symmetry
INVARIANTS LastAdminKept
