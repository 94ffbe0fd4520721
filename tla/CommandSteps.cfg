SPECIFICATION FairSpec
CONSTANTS
  Deployers = {d1, d2}
  d1 = d1
  d2 = d2
  Requests <- CommandRequests
  Commands <- BuildSteps
  Times = {1}
  Algos = {"sha1"}
  Versions = {"1", "1-SNAPSHOT"}
  Snapshots = {"1-SNAPSHOT"}
  NoVersion = NoVersion
  Classifiers <- MCClassifiers
  Types <- MCTypes
  AttSlots = {"att"}
  MaxLost = 0
  Serial = FALSE
INVARIANT PomStaysWithMain
PROPERTY Returns
