CONSTANTS
  Issuances = {r1, r2, r3, r4}
  Keys = {k1, k2}
  Length <- ShortLengths
  Limit <- SmallLimits
  MaxDelay = 1
  MaxClock = 3
SPECIFICATION IssuanceSpec
SYMMETRY Symmetry
INVARIANTS NeverOverLimitNow BurstsBounded
CHECK_DEADLOCK FALSE
