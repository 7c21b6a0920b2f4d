\* Does exit code 0 mean that no build script was killed?
CONSTANTS
  MaxProjects = 2
  Limits = {1}
SPECIFICATION Spec
INVARIANT GreenMeansBuilt
