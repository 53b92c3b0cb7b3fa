\* Two requests at once from two addresses, two admissions in three time units.
CONSTANTS
  Clients = {c1, c2}
  Threads = {r1, r2}
  Limit = 2
  Window = 3
  MaxDelay = 1
SPECIFICATION Spec
INVARIANTS TypeOK LimitKept
PROPERTIES NotShutOut
