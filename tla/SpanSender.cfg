\* MCSpanSender gives the bounds of the ring; these are SpanSender's.
\* Three chunks of up to three sizes, a queue of two, batches of up to three, two
\* requests at a time.
CONSTANTS
  c1 = c1
  c2 = c2
  c3 = c3
  k1 = k1
  k2 = k2
  Chunks = {c1, c2, c3}
  Capacity = 2
  BatchSize = 3
  Permits = {k1, k2}
  Sizes <- MCSizes
  MaxSize = 2
SPECIFICATION PartSpec
INVARIANTS ChunksConserved
PROPERTIES SplitExact ConsumersEnd NothingHeldUp
