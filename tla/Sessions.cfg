CONSTANTS
  i1 = i1
  t1 = t1
  t2 = t2
  a1 = a1
  a2 = a2
  forged = forged
  None = None
  Identities = {i1}
  Tenants = {t1, t2}
  Assertions = {a1, a2, forged}
  Claims <- MCClaims
  Requests = {r1, r2}
  Operators = {o1, o2}
  Skew = 1
  BootstrapTTL = 1
  SessionTTL = 2
  MaxTime = 2
  MaxTokens = 3
SPECIFICATION Spec
INVARIANTS
  TypeOK
  BarredSessionsAreRevoked
  ActsWhereAsserted
  ServesRecordedLogins
PROPERTIES
  BuysOnce

SYMMETRY Interchangeable
