CONSTANTS
  Invocations = {i1}
  MaxJobs = 2
  MaxTwice = 0
SPECIFICATION Spec
INVARIANT ZeroDowntime
