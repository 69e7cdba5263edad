CONSTANTS
  Servers = {s1, s2}
  Serving = {s1}
  c1 = c1
  Companies = {c1}
  Databases <- UsedDatabase
  Provisioned = {s1}
  ExternalCaKey = ExternalCaKey
  OtherTables = {"oauth_tokens"}
  MaxFresh = 4
  MaxWrites = 2
  MaxRestores = 1
  NoTenant = NoTenant
  NoKey = NoKey
SPECIFICATION Spec
INVARIANTS RefusedOnlyOnLateParents HeadsFitRecords SignersAreKnown HeadsVerify
PROPERTIES CompleteIsExact CompleteHasTheLog
CHECK_DEADLOCK FALSE
