SPECIFICATION FairSpec
CONSTANTS
  Configs <- MCConfigs
  Threads = {t1, t2}
  MaxCalls = 2
  MaxTimeOuts = 1
INVARIANTS
  LayoutsSound
  ContextsKept
  FreshStart
  ReadBack
PROPERTIES
  CallsReturn
\* Calls are bounded, so the system comes to rest; CallsReturn says how.
CHECK_DEADLOCK FALSE
