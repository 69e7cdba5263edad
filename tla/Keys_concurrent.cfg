CONSTANTS
  Instances = {i1}
  Tenants = {t1}
  Keys = {k1, k2, k3}
  Rotations = {r1, r2}
  Passports = {p1}
  Verifications = {}
  TTL = 1
  GRACE = 3
  MaxRotation = 1
  MaxTime = 2
  Known = {TRUE}
  Serial = FALSE
  Faults <- NoFaults
  NoKey = NoKey
  NoTenant = NoTenant
SPECIFICATION Spec
INVARIANT StaysVerifiable
CHECK_DEADLOCK FALSE
