\* The pool with crashes, signals and early failures of any worker.
CONSTANTS
  MaxProjects = 3
  Limits <- MCLimits
SPECIFICATION FairSpec
INVARIANT TypeOK
INVARIANT LiveAccounting
INVARIANT ConcurrencyBound
INVARIANT ExitCodeTruthful
PROPERTY NoStartAfterSummary
PROPERTY PoolResolves
