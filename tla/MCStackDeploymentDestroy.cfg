CONSTANTS
  Stacks <- Setup
  Disordered <- Setup
  Unclean = {}
  MaxDeploys = 1
SPECIFICATION Spec
CHECK_DEADLOCK FALSE
INVARIANT CleanDestroy
