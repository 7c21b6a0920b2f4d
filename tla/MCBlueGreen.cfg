CONSTANTS
  Invocations = {i1, i2}
  MaxJobs = 2
  MaxTwice = 1
SPECIFICATION FairSpec
INVARIANT TypeOK
INVARIANT SwappedOnce
PROPERTY JobAnswered
