CONSTANTS
  Sidecars = {s1, s2}
  Calls = {c1, c2}
  TTL = 5
  Buffer = 3
  MaxLatency = 2
  Transit = 1
  MaxTime = 6
  MaxKeys = 2
  Leeway = 1
  NoValue = NoValue
SPECIFICATION Spec
SYMMETRY Symmetry
PROPERTIES AttachedHasTimeLeft RefusedOnlyAcrossRotation
CHECK_DEADLOCK FALSE
