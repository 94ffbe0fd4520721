SPECIFICATION FairSpec
CONSTANTS
  N = 2
  MaxBuild = 2
  MaxDeploys = 1
  Ahead = 0
INVARIANTS
  TypeOK
  NotFoundMeansAbsent
  ReleaseFromFirst
  SnapshotIsCurrent
PROPERTY Ends
