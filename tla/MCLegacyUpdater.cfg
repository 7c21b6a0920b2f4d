CONSTANTS
  Kind <- MCKind
  Trees <- MCTrees
  Urls = {"template"}
  Retries = 2
  BatchSize = 2
  MaxRuns = 2
SPECIFICATION FairSpec
INVARIANT TypeOK
INVARIANT MigratedAsAWhole
INVARIANT DamageBound
INVARIANT ExitTruthful
PROPERTY Idempotent
PROPERTY RunEnds
