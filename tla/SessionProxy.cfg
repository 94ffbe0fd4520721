SPECIFICATION SessionSpec
CONSTANTS
  Retries = 3
  Direct <- NoProxy
  OtherProxies <- MCOtherProxies
  Arrays = {1, 2, 3, 4, 5}
  None = None
  MaxMeta = 2
  MaxSize = 3
  Builtins <- MCBuiltins
  Labels <- MCLabels
  Situations <- MCTargetSituations
INVARIANT ProxyOfTheSettings
