\* One browser, two requests of it in flight.
CONSTANTS
  NULL = NULL
  UserIds = {u1, u2}
  TokenIds = {t1}
  GroupIds = {}
  RuleIds = {}
  Usernames = {alice, bob}
  GroupNames = {}
  Passwords = {secret}
  Patterns = {}
  RuleInputs <- NoRules
  ForeignKeys = FALSE
  Slots = {r1, r2}
  Browsers = {b1}
  CsrfTokens = {k1, k2, k3}
SPECIFICATION SessionSpec
\* Locked out, without a cookie or with none to drop, nothing is left to do.
CHECK_DEADLOCK FALSE
SYMMETRY Symmetry
INVARIANTS SessionTypeOK
PROPERTIES WritesByAdmins FormsStayInTheirLogin ImplementsAdminApi
