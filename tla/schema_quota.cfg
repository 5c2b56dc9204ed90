SPECIFICATION Spec
CONSTANTS
  a = a  b = b
  Node = {a, b}
  Field = {f, g}
  Limit = 1
  MaxCalls = 2
  MaxFaults = 0
  NoIndex = NoIndex  NoState = NoState
  Workloads <- MCOverlap
INVARIANTS QuotaStrict
CHECK_DEADLOCK FALSE
