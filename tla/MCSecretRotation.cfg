CONSTANTS
  Invocations = {"a", "b"}
  MaxVersion = 2
  MaxFaults = 5
SPECIFICATION FairSpec
INVARIANT TypeOK
INVARIANT InService
INVARIANT OldRetired
PROPERTY Orderly
PROPERTY Rotated
