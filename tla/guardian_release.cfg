CONSTANTS
  Threads = {t1}
  NoThread = NoThread
  Namespaces = {n1, n2}
  Guard = t1
  Own = n1
  MtimeSteps = {1}
  TTL = 1
  MaxNow = 1
  MaxInstalls = 2
  CrashAfter = 0
  CrashAll = FALSE
  MaxCalls = 1
  MaxFaults = 1
SPECIFICATION Spec
CHECK_DEADLOCK FALSE
INVARIANT ReleasedOnlyGuarded
