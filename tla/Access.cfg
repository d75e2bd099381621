SPECIFICATION Spec
CONSTANTS
  Replicas = {r1, r2}
  Requests = {q1, q2}
  Secrets = {s1, s2}
  AccessTTL = 1
  RefreshTTL = 2
  Leeway = 1
  MaxTime = 2
  MaxEvents = 1
  Keys = {k1, k2}
  Callers = {c1, c2, c3, c4}
  Limit = 1
  Window = 3
  MaxKeys = 1
  MaxWait = 1
  MaxClock = 3
INVARIANTS RevokedHere BurstBounded
PROPERTIES RevocationSpreads MigrationKeepsPassword
CHECK_DEADLOCK FALSE
