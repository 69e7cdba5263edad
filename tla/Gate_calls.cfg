CONSTANTS
  Calls = {c1}
  Tokens <- MCTokens
  Tools <- MCTools
  VanePublicKey = vane
  OriginKeys <- MCOriginKeys
  OurOrg = us
  MaxTime = 4
  Leeway = 1
  NoValue = NoValue
  vane = vane
  other = other
  org1 = org1
  org2 = org2
  us = us
  j1 = j1
  j2 = j2
  nonce = nonce
  hash = hash
SPECIFICATION Spec
INVARIANTS RunsOnlyIfEntitled NoRunAfterRevocation SameVerdictAsVane
PROPERTY RefusedOnlyForCause
CHECK_DEADLOCK FALSE
