\* Three records over three ticks, queues of one, one completed tick kept.
CONSTANTS
  r1 = r1
  r2 = r2
  r3 = r3
  Records = {r1, r2, r3}
  Url <- MCUrl
  MaxTick = 3
  QueueCap = 1
  StatCap = 1
  MaxCompleted = 1
  LimitSize = 1
  None = None
SPECIFICATION Spec
SYMMETRY Symmetry
INVARIANTS TicksHandedOver LossesAccounted
VIEW Read
