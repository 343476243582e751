CONSTANTS
  Garbage = Garbage
  NoTail = NoTail
  Torn = Torn
  NoEvent = NoEvent
  Ids = {e1, e2, e3, e4}
  Namespaces = {n1, n2}
  Operations = {"exec", "connect", "credential"}
  MaxSequence = 3
  MaxLines = 4
  MaxFaults = 1
SPECIFICATION Spec
SYMMETRY Symmetry
INVARIANT TypeOK
INVARIANT AcceptedInOrder
INVARIANT AcceptedKept
INVARIANT NoReplayInFile
INVARIANT EvaluatedInOrder
 
