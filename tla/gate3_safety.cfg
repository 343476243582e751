CONSTANTS
  Garbage = Garbage
  NoTail = NoTail
  Torn = Torn
  NoSnapshot = NoSnapshot
  NoConfidence = NoConfidence
  Keys = {k1}
  Revisions = {r1, r2}
  Secrets = {s1}
  MinConfidence = 1
  TTL = 1
  GroupSize = 2
  Inputs <- OnePerPath
  MaxNow = 2
  MaxRecords = 3
  MaxFaults = 2
SPECIFICATION Spec
INVARIANT DenyOnRecord
INVARIANT GroupBound
INVARIANT LookupFresh
PROPERTY CleanShutdownSyncs
