SPECIFICATION Spec
CONSTANTS
  Namespaces = {n1, n2}
  Handlers = {h1}
  Configs = {c1, c2}
  SentKinds = {"exec", "connect", "trusted", "reset", "credential", "other"}
  MaxEvents = 4
  MaxSends = 4
  MaxFaults = 2
  Window = 1
INVARIANTS DecisionFaithful AnsweredKept 
PROPERTY ImplementsDurableLog
CHECK_DEADLOCK FALSE
SYMMETRY Symmetry
