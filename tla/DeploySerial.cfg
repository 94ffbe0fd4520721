SPECIFICATION Spec
CONSTANTS
  Deployers = {d1, d2, d3}
  Requests <- Mixed
  Times = {1}
  Algos = {"sha1"}
  Versions = {"1-SNAPSHOT", "1"}
  Snapshots = {"1-SNAPSHOT"}
  NoVersion = NoVersion
  Classifiers <- MCClassifiers
  Types <- MCTypes
  AttSlots = {"att"}
  MaxLost = 0
  Serial = TRUE
  d1 = d1
  d2 = d2
  d3 = d3
SYMMETRY Symmetry
INVARIANT SuccessesStayListed
PROPERTIES
  SuccessVerifies
  ImplementsCatalog
