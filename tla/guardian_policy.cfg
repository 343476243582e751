CONSTANTS
  Threads = {t1, t2}
  NoThread = NoThread
  Namespaces = {n1}
  Guard = t1
  Own = n1
  MtimeSteps = {0, 1}
  TTL = 1
  MaxNow = 1
  MaxInstalls = 3
  CrashAfter = 0
  CrashAll = FALSE
  MaxCalls = 1
  MaxFaults = 0
SPECIFICATION Spec
INVARIANT DecideFresh
PROPERTY LoadedForward
 
CHECK_DEADLOCK FALSE
