SPECIFICATION Spec
CONSTANTS
  Deployers = {1}
  Requests <- CommandRequests
  Commands <- Overwriting
  Times = {1}
  Algos = {"sha1"}
  Versions = {"1"}
  Snapshots = {}
  NoVersion = NoVersion
  Classifiers <- MCClassifiers
  Types <- MCTypes
  AttSlots = {"att"}
  MaxLost = 0
  Serial = FALSE
INVARIANT NothingOverwritesMain
