CONSTANTS
  Stacks <- Setup
  Disordered = {}
  Unclean <- Setup
  MaxDeploys = 1
SPECIFICATION Spec
CHECK_DEADLOCK FALSE
INVARIANT NeverRefused
