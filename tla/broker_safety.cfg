CONSTANTS
  Garbage = Garbage
  NoTail = NoTail
  Torn = Torn
  NoSecret = NoSecret
  NoFile = NoFile
  Keys = {k1, k2}
  Revisions = {r1, r2}
  Secrets = {s1, s2}
  TTL = 2
  SubsPerSecond = 2
  MaxSecond = 3
  MaxDecisions = 2
  MaxUpsets = 2
SPECIFICATION Spec
SYMMETRY Symmetry
INVARIANTS RotationVoidsCache Sound
PROPERTIES HitMatchesDecision HitWithinTTL
