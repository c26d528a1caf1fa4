\* MCAgentCore gives the bounds of the other components; these are SpanRecording's.
CONSTANTS
  Procs = {p1, p2}
  MaxEventSequence = 3
  MaxEventDepth = 1
  SqlErrorCount = 2
  MaxSpans = 3
  MaxCalls = 5
  Scenarios <- MCScenarios
  Configs <- MCConfigs
  Nil = Nil
  t1 = t1
  t2 = t2
SPECIFICATION PartSpec
SYMMETRY Symmetry
INVARIANTS SequencesUnique RecordingConserved RequestsTracked SentAsRecorded SamplingExact CompressionSound SignalsHandedBack
PROPERTIES StepsRespectful
