\* Two agents in turn, sharing a Config or not, so that the end of one overlaps
\* the start of the next; the span worker and one that stops on the signal.
CONSTANTS
  a1 = a1
  a2 = a2
  c1 = c1
  c2 = c2
  Agents = {a1, a2}
  Configs = {c1, c2}
  Workers = {span, w1}
  SpanWorker = span
  None = None
SPECIFICATION FairSpec
ACTION_CONSTRAINT FirstNamed
INVARIANTS LiveIsGlobal DeadIsReleased ResourcesAccounted
PROPERTIES NeverRevived EverythingEnds
