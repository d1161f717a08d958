CONSTANTS
  User = {u1, u2}
  Book = {b1}
  Attempt = {p1, p2, p3}
  None = None
  StartCap = 1
  StartWindow = 0
  DailyCap = 2
  DailyWindow = 0
  ReplayWindow = 0
  Lease = 1
  Deadline = 0
  Retention = 1
  MaxTime = 2
  MaxSends = 2
  MaxFaults = 1
SPECIFICATION Spec
SYMMETRY UserAndAttemptSymmetry
INVARIANTS ReservationStands OneInSection OneReservationPerBook
PROPERTIES ReplaySuppressed
