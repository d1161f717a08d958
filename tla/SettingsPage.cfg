CONSTANTS
  n1 = n1
  n2 = n2
  x1 = x1
  x2 = x2
  l1 = l1
  w1 = w1
  Notifier <- MCNotifier
  Start <- MCStart
  Mailbox = {x1, x2}
  Library = {l1}
  Url = {w1}
  Nothing = Nothing
  Typed <- MCTyped
  PageSave = {m1, m2}
  MaxSaves = 2
  MaxLost = 1
SPECIFICATION PageSpec
CHECK_DEADLOCK FALSE
INVARIANTS PageConverges SenderSaveHonored
