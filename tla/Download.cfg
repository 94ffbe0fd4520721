SPECIFICATION PromoteFair
CONSTANTS
  Contents = {"a", "b"}
  Algos <- MCAlgos
  Damaged = Damaged
  None = None
  Old = Old
  MaxDeploys = 1
INVARIANTS
  TypeOK
  DestWholeOrUntouched
  DamageIsDetected
  DeploysHideNoDamage
  StrongestFound
  PromotesWhatSourceVouches
PROPERTY EverythingEnds
