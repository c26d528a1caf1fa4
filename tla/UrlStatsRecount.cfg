\* Two records in one tick.
CONSTANTS
  r1 = r1
  r2 = r2
  r3 = r3
  Records = {r1, r2}
  Url <- MCUrl
  MaxTick = 1
  QueueCap = 1
  StatCap = 1
  MaxCompleted = 1
  LimitSize = 1
  None = None
SPECIFICATION Spec
INVARIANT LateCountedOnce
