CONSTANTS
  LeaseTargets = {t1, t2, t3}
  BrokerTargets = {t1, t2}
  Outsider = out
  CrashAt = 2
  LeaseFaults = 1
  PoolSize = 2
  QueueCapacity = 2
  BrokerFaults = 2
  MaxConnects = 2
  PilotFaults = 2
  Workloads = {w1, w2}
  MayExit = {w2}
  Duration = 2
  MaxRuns = 2
  RunnerFaults = 1
SPECIFICATION Spec
INVARIANTS LeaseSound EgressSound  
PROPERTY LaboratoriesEnd
CHECK_DEADLOCK FALSE
