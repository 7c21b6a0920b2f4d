\* Two tasks at a time: is every CDK app run with the defaults?
CONSTANTS
  NumProjects = 2
  Langs = {"java"}
  Filters = {"all"}
  Concurrencies = {2}
  MaxRuns = 1
SPECIFICATION Spec
INVARIANT AppEnvironment
