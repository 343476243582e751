CONSTANTS
  Tasks = {1}
  Operations = {"open", "connect"}
  Addressed = {"connect"}
  MaxCalls = 2
  MaxLost = 2
  MaxLives = 2
  Network = net
  Relations = {net, admin}
  Capacity = 2
  MaxPairs = 2
  DenyVotesRequired = 2
  DisagreementAction = "abstain"
  Members = {1, 2, 3}
  Parallel = FALSE
  ReplayNamespaces = {n1}
  ReplayEvents = 4
  MaxTrajectories = 2
  ReviewNamespaces = {1}
  Window = 2
  WindowLimit = 2
  MinTest = 1
  ReviewEvents = 3
  MaxPosts = 2
  MaxFaults = 1
  MaxCommands = 5
SPECIFICATION Spec
INVARIANTS  ReplaySound  EvaluationSound
PROPERTY ObservationEnds
CHECK_DEADLOCK FALSE
