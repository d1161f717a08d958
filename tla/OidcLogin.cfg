CONSTANTS
  Patch = {r1}
  Address = {a1, a2}
  None = None
  MaxFaults = 1
  Begin = {b1}
  Bodies <- MCBodies
  Callback = {k1, k2}
  PendingTtl = 1
  MaxTime = 2
  MaxStates = 2
SPECIFICATION Spec
SYMMETRY OidcSymmetry
INVARIANTS StatesRedeemOnce
PROPERTIES ContactStands
