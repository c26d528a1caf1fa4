CONSTANTS
  Kinds = {"ping", "stat", "command"}
  MaxFaults = 2
  MaxAges = 1
  MaxWork = 2
SPECIFICATION FairSpec
INVARIANTS StreamsSound
PROPERTIES StreamsProgress
