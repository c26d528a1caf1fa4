\* Two producers, three cells in two shards (one of two cells, one of one), four
\* chunks: every shard fills, the hint is set and cleared, heads wrap.
CONSTANTS
  Capacity = 3
  MinShardCap = 1
  MaxShards = 2
  BatchSize = 2
  Producers = {p1, p2}
  Chunks = {c1, c2, c3, c4}
  Nil = Nil
SPECIFICATION Spec
SYMMETRY Symmetry
INVARIANTS RingHoldsQueued NothingStranded
PROPERTIES ImplementsLossyQueue
