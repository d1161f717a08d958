CONSTANTS
  User = {u1}
  Book = {b1, b2}
  Attempt = {p1}
  None = None
  StartCap = 1
  StartWindow = 1
  DailyCap = 1
  DailyWindow = 2
  ReplayWindow = 1
  Lease = 3
  Deadline = 2
  Retention = 3
  MaxTime = 4
  MaxSends = 3
  MaxFaults = 1
SPECIFICATION Spec
INVARIANTS HonestOutcomes NeverFedPastLease CapsHold
PROPERTIES OutcomeStands ImplementsPromise
