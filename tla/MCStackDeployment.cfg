CONSTANTS
  Stacks <- MCStacks
  Disordered <- MCDisordered
  Unclean <- MCUnclean
  MaxDeploys = 2
SPECIFICATION FairSpec
CHECK_DEADLOCK FALSE
INVARIANT TypeOK
INVARIANT NeverRefused
INVARIANT NothingMissed
INVARIANT CleanDestroy
INVARIANT KeptReadable
PROPERTY Settles
