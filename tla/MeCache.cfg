CONSTANTS
  Patch = {r1, r2}
  Login = {l1}
  Address = {a1}
  None = None
  EmailDelivery = FALSE
  MaxFaults = 1
SPECIFICATION Spec
SYMMETRY SlotSymmetry
INVARIANTS CacheConverges
PROPERTIES NoRollback
