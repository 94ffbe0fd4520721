SPECIFICATION Spec
CONSTANTS
  N = 2
  MaxBuild = 2
  MaxDeploys = 1
  Ahead = 0
INVARIANT FetchesFromFirst
