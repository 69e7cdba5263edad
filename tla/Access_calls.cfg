CONSTANTS
  c1 = c1
  c2 = c2
  Servers = {s1, s2}
  Companies = {c1, c2}
  Certified = {c1}
  Requests = {r1, r2}
  Databases <- EmptyOrOne
  Operations = {"register", "recover", "token", "newKey", "deleteKey", "newClient", "attest"}
  LIMITS <- SmallLIMITS
  WINDOW_MS = 2
  TTL = 1
  MaxCredential = 4
  MaxTime = 2
  None = None
SPECIFICATION Spec
SYMMETRY Symmetry
INVARIANTS AdmittedWithinLimit KeylessOnlyAfterFailure
PROPERTY AnsweredForCause
CHECK_DEADLOCK FALSE
