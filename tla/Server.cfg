CONSTANTS
  s1 = s1
  n1 = n1
  f1 = f1
  q1 = q1
  q2 = q2
  Server <- MCServer
  Notifier <- MCNotifier
  From <- MCFrom
  Quota <- MCQuota
  Bodies <- MCBodies
  None = None
  Book = {b1}
  Ask = {k1, k2}
  Op = {o1, o2}
  CapabilityTtl = 1
  UnsupportedTtl = 2
  StaleWindow = 2
  CompanionTtl = 2
  FailureTtl = 1
  CallTimeout = 1
  MaxTime = 3
  MaxOps = 3
  MaxFaults = 1
SPECIFICATION Spec
SYMMETRY ServerSymmetry
INVARIANTS ServedIsCurrent StaleIsBounded NoWriteLost LiveFollowsRow
