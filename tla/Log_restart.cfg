CONSTANTS
  Instances = {i1}
  Requests = {r1, r2}
  Chains = {l1, l2}
  OldRecords = {o1, o2}
  o1 = o1
  o2 = o2
  LegacyLog <- TwoLegacy
  Registered = {TRUE}
  Faults <- AllFaults
  NoChain = NoChain
SPECIFICATION FairSpec
INVARIANTS ServedIsCovered AckedIsDurable MemoryMatchesLog
PROPERTIES AbstractLog EveryAttestAnswered
