\* MCPlugins gives the bounds of the plugins; these are Config's.
CONSTANTS
  Scenarios <- MCScenarios
  Files <- MCFiles
  Yamls <- MCYamls
  Sets <- MCSets
  CallbackOpts <- MCCallbackOpts
  MaxInt32 = 7
  MaxWrites = 2
  MaxPollers = 2
  Nil = Nil
  Bad = Bad
  s1 = s1
  s2 = s2
  n1 = n1
  n2 = n2
SPECIFICATION PartSpec
INVARIANTS ValuesDetermined ReloadsSettle WrappersSound EndedOnceByItsOwn SqlFaithful DerivedIsCurrent HttpFaithful ChainsSound ContextContinues
PROPERTIES VerdictKept
CHECK_DEADLOCK FALSE
