\* Two invocations of the tool on a file that is written to once more.
CONSTANTS
  NULL = NULL
  u1 = u1  u2 = u2  u3 = u3  t1 = t1  g1 = g1  g2 = g2  a1 = a1  p1 = p1
  root = root  jose = jose  joseAccent = joseAccent  devs = devs  Devs = Devs  secret = secret
  UserIds = {u1, u2, u3}
  TokenIds = {t1}
  GroupIds = {g1, g2}
  RuleIds = {a1}
  Usernames = {root, jose, joseAccent}
  GroupNames = {devs, Devs}
  Passwords = {secret}
  Patterns = {p1}
  RuleInputs <- SomeRules
  ForeignKeys = FALSE
  Runs = {m1, m2}
  Fold <- MCFold
  AdminUser = root
  AdminPassword = secret
  InitialSources <- MCSources
  MaxWrites = 1
SPECIFICATION Spec
\* The tool ends.
CHECK_DEADLOCK FALSE
INVARIANTS TypeOK ExactWhenStopped RefusedForCause
PROPERTIES MigratesAtomically RunsEnd
