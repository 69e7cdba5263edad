CONSTANTS
  Passports = {p1, p2, p3}
  Rotates = {r1, r2}
  Revokes = {v1}
  Checks = {c1}
  Faults <- AllFaults
  NoPassport = NoPassport
SPECIFICATION Spec
SYMMETRY Symmetry
INVARIANTS RevokedHasNoSuccessor NeverAcceptedAfterRevocation
PROPERTY AtomicRegistry
CHECK_DEADLOCK FALSE
