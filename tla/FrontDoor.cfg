CONSTANTS
  Req = {r1, r2}
  Click = {c1}
  None = None
  MaxBody = 2
  Limit = 1
  MaxFaults = 2
  User = {u1}
  Query = {y1}
  NoQuery = NoQuery
  Find = {g1, g2}
  SearchTtl = 1
  Window = 2
  Rate = 2
  MaxTime = 5
  BatchSize = 2
  SkipCap = 8
  MaxStreak = 5
  MaxElapsed = 24
  Sender = {u1}
  Book = {b1}
  Attempt = {p1, p2}
SPECIFICATION FrontSpec
INVARIANTS SavedIsWhole WindowBounded StreakIsSpaced
PROPERTIES LeaverFreesStream PollsAgain EverySendAnswered
