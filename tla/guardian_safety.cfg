CONSTANTS
  Threads = {t1}
  NoThread = NoThread
  Namespaces = {n1, n2}
  Guard = t1
  Own = n1
  MtimeSteps = {1}
  TTL = 1
  MaxNow = 1
  MaxInstalls = 2
  CrashAfter = 1
  CrashAll = TRUE
  MaxCalls = 3
  MaxFaults = 1
SPECIFICATION FairSpec
INVARIANT TypeOK
INVARIANT AnsweredAudited
PROPERTY RestrictionEnds
PROPERTY ConnectsEnd
CHECK_DEADLOCK FALSE
