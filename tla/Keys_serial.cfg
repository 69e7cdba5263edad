CONSTANTS
  Instances = {i1, i2}
  Tenants = {t1, t2}
  Keys = {k1, k2, k3}
  Rotations = {r1, r2}
  Passports = {p1}
  Verifications = {v1}
  TTL = 1
  GRACE = 2
  MaxRotation = 1
  MaxTime = 3
  Known = {TRUE, FALSE}
  Serial = TRUE
  Faults <- NoAckLoss
  NoKey = NoKey
  NoTenant = NoTenant
SPECIFICATION Spec
SYMMETRY Symmetry
INVARIANTS SignedWithSavedKey NoKeyIsLost StaysVerifiable RefusedOnlyAcrossRotation
CHECK_DEADLOCK FALSE
