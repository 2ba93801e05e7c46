SPECIFICATION Spec
CONSTANTS
  c1 = c1
  c2 = c2
  None = None
  Callers = {c1, c2}
  Configs <- MCConfigs
  ReuseConfig = FALSE
  MaxNews = 2
INVARIANTS
  KeysOutliveHost
  FailedStopCanBeRetried
  ConfigUsable
CHECK_DEADLOCK FALSE
