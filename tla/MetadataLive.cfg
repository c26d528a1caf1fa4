\* One producer and one send at a time; a schedule of two, parked items included.
CONSTANTS
  Keys = {k1, k2}
  Producers = {p1}
  Permits = {s1}
  MaxInt = 2
  ChanCap = 1
  RetryCap = 2
  CacheCap = 2
  MaxAttempts = 2
  GiveUpParks = 2
  MaxExceptions = 1
  Exception = Exception
  None = None
SPECIFICATION FairSpec
PROPERTIES RegistrationEnds
