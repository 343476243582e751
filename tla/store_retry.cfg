CONSTANTS
  Garbage = Garbage
  NoTail = NoTail
  Torn = Torn
  Ids = {e1, e2}
  Namespaces = {n1, n2}
  Operations = {"other"}
  MaxSequence = 3
  MaxLines = 4
  MaxFaults = 4
SPECIFICATION StoreSpec
SYMMETRY Symmetry
INVARIANT NoReplayInFile
