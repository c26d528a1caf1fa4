\* MCMetadataIds gives the bounds of the other components; these are Metadata's.
\* Two producers, two concurrent sends, queues and a cache of one entry, and an id
\* type that wraps after three ids, two where the producers race.
CONSTANTS
  Keys = {k1, k2}
  Producers = {p1, p2}
  Permits = {s1, s2}
  MaxInt = 3
  ChanCap = 1
  RetryCap = 1
  CacheCap = 1
  MaxAttempts = 2
  GiveUpParks = 2
  MaxExceptions = 0
  Exception = Exception
  None = None
SPECIFICATION PartSpec
SYMMETRY Symmetry
INVARIANTS IdsSound CacheSound SlotsSoundAndSettled
PROPERTIES DeliveredStays ServingKept
