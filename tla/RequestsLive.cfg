CONSTANTS
  u1 = u1
  User <- MCUser
  Asin = {a1, a2}
  Admin = {}
  Handler = {h1}
  Poller = poller
  None = None
  Limit <- MCLimitTwo
  AutoApprove = {u1}
  BatchSize = 2
  MaxRows = 2
  MaxFaults = 1
SPECIFICATION FairSpec
PROPERTIES ApprovedLeaves AcquiringIsPolled AvailableIsNotified
