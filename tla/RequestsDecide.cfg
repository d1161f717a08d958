CONSTANTS
  u1 = u1
  User <- MCUser
  Asin = {a1}
  Admin = {adm}
  Handler = {h1, h2}
  Poller = poller
  None = None
  Limit <- MCLimitOne
  AutoApprove = {}
  BatchSize = 2
  MaxRows = 2
  MaxFaults = 1
SPECIFICATION Spec
SYMMETRY MCSymmetry
INVARIANTS OneActivePerBook QuotaOvershootBounded InFlightRowsAreFound EmittedAtMostOnce DeliveriesBounded
PROPERTIES SettledStands MarkedAfterDelivery ImplementsPromise
