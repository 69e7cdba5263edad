CONSTANTS
  Instances = {i1, i2}
  Requests = {r1, r2}
  Chains = {l1, l2}
  OldRecords = {o1, o2}
  o1 = o1
  o2 = o2
  LegacyLog <- TwoLegacy
  Registered = {TRUE, FALSE}
  Faults <- AllFaults
  NoChain = NoChain
SPECIFICATION Spec
SYMMETRY Symmetry
INVARIANTS HeadsOnOneLog PublishedIsDurable
