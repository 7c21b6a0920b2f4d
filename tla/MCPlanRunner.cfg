\* Two projects of either kind, one edit at any point, two runs.
CONSTANTS
  NumProjects = 2
  Kind <- MCKind
  Modes <- MCModes
  GoResolves <- MCGoResolves
  EditVersions = {"old"}
  MaxEdits = 1
  MaxRuns = 2
SPECIFICATION FairSpec
INVARIANT TypeOK
INVARIANT AllOrNothing
INVARIANT ExitTruthful
PROPERTY ReadOnlyModes
PROPERTY StaleRefused
PROPERTY SettledPlans
PROPERTY RunEnds
PROPERTY Atomic
