SPECIFICATION Spec
CONSTANTS
  Deployers = {d1, d2}
  Requests <- SnapshotAndRelease
  Times = {1}
  Algos = {"sha1"}
  Versions = {"1-SNAPSHOT", "1"}
  Snapshots = {"1-SNAPSHOT"}
  NoVersion = NoVersion
  Classifiers <- MCClassifiers
  Types <- MCTypes
  AttSlots = {"att"}
  MaxLost = 0
  Serial = FALSE
  d1 = d1
  d2 = d2
INVARIANT OtherVersionsDoNotRace
