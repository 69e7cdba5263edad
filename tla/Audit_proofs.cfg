CONSTANTS
  a1 = a1
  a2 = a2
  Agents = {a1, a2}
  Author <- TwoAgents
  MaxLegacy = 1
  MaxRecords = 5
  MaxSaved = 2
SPECIFICATION AuditSpec
INVARIANTS AnsweredProofsVerify AcceptedRecordWasSigned RewriteIsNoticed PaddedTreeBindsLog
CHECK_DEADLOCK FALSE
