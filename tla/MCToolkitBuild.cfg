\* Two projects, two runs, a kill at any point.
CONSTANTS
  NumProjects = 2
  Langs <- MCLangs
  Filters <- MCFilters
  Concurrencies <- MCConcurrencies
  MaxRuns = 2
SPECIFICATION FairSpec
INVARIANT TypeOK
INVARIANT ExitTruthful
INVARIANT CleanedUp
INVARIANT SerialEnvironment
PROPERTY ContextKept
PROPERTY RunEnds
