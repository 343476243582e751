SPECIFICATION Spec
CONSTANTS
  Namespaces = {n1, n2}
  Handlers = {h1, h2}
  Configs = {c1}
  SentKinds = {"exec", "connect", "credential"}
  MaxEvents = 3
  MaxSends = 4
  MaxFaults = 1
  Window = 1
INVARIANT DecisionFaithful
CHECK_DEADLOCK FALSE
SYMMETRY Symmetry
