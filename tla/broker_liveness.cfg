CONSTANTS
  Garbage = Garbage
  NoTail = NoTail
  Torn = Torn
  NoSecret = NoSecret
  NoFile = NoFile
  Keys = {k1}
  Revisions = {r1}
  Secrets = {s1}
  TTL = 1
  SubsPerSecond = 2
  MaxSecond = 2
  MaxDecisions = 1
  MaxUpsets = 3
  MaxRestarts = 2
  MaxFaults = 2
  Maximum = 2
  Window = 2
  MaxClock = 5
  MaxAttempts = 6
  Peers = {p1, p2}
  Nonces = {n1, n2}
  Lifetimes = {0, 2}
  MaxMessages = 3
SPECIFICATION Spec
INVARIANTS SupervisorSound OncePerHandoff
PROPERTIES Responsive  BudgetExact
