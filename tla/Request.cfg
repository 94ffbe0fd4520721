SPECIFICATION FairSession
CONSTANTS
  Retries = 2
  Direct <- NoProxy
  OtherProxies <- MCOtherProxies
  Arrays = {1, 2, 3, 4, 5}
  None = None
  MaxMeta = 2
  MaxSize = 3
  Builtins <- MCBuiltins
  Labels <- MCLabels
  Situations <- MCSituations
INVARIANTS
  TypeOK
  AbsentIsAnswered
  FailsOnlyWhenItMust
  FlagsAnywhere
  UnderstoodAsMeant
  MirrorAsDeclared
  CredentialsOfTarget
  PasswordOfTarget
  IdleProfilesContributeNothing
  ExpandedUnlessCyclic
  ThroughItsProxy
  BuffersExclusive
  ReadsWhatWasSent
PROPERTIES
  ImplementsTransfer
  Ends
