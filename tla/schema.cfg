SPECIFICATION FairSpec
CONSTANTS
  a = a  b = b
  Node = {a, b}
  Field = {f, g}
  Limit = 1
  MaxCalls = 3
  MaxFaults = 1
  NoIndex = NoIndex  NoState = NoState
  Workloads <- MCWorkloads
INVARIANTS TypeOK ListedIsLogged AckedSurvives QuotaBounded ServedIsBuilt VersionsUnique
PROPERTIES Converges
CHECK_DEADLOCK FALSE
