\* Requests served one at a time.
CONSTANTS
  NULL = NULL
  g1 = g1  p1 = p1
  UserIds = {u1, u2, u3}
  TokenIds = {}
  GroupIds = {}
  RuleIds = {}
  Usernames = {alice, bob, carol}
  GroupNames = {}
  Passwords = {secret, changed}
  Patterns = {p1}
  RuleInputs <- NoRules
  ForeignKeys = FALSE
  Slots = {r1}
SPECIFICATION Spec
SYMMETRY Symmetry
INVARIANTS LastAdminKept
